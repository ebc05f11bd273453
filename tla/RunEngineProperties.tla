-------------------------- MODULE RunEngineProperties --------------------------
(***************************************************************************)
(* What a run may rely on, whatever its steps answer, whenever the process *)
(* dies and whatever the operator sends.                                   *)
(***************************************************************************)
EXTENDS RunEngine

(* A wakeup is never lost to deduplication: when the engine is about to    *)
(* queue the continue command of a revision, no earlier command has its    *)
(* key, whether the revision was read before or after an await.            *)
FreshContinue ==
    \A o \in Owner, l \in Loop : \A i \in DOMAIN commands :
        act[o][l].at = "queue" =>
            commands[i].key # ContinueKey(act[o][l].step, act[o][l].rev)

(* The state a loop read before it awaited a call is still the stored one  *)
(* when the result is applied to it: nothing else moves the step meanwhile.*)
CapturedIsCurrent ==
    \A o \in Owner, l \in Loop :
        LET a == act[o][l]
        IN  /\ a.at \in {"call", "result"} => a.step = run.step /\ a.tr = rec[a.step].tr
            /\ a.at = "artifact" => a.step = run.step /\ rec[a.step].tr.type = "complete"

(* An open gate is always the question the current step is waiting with,   *)
(* so an accepted answer is never given to a step that has moved on.       *)
OpenGateIsCurrent ==
    \A g \in Gate : gate[g] = "open" =>
        run.step = g[1] /\ rec[g[1]].tr = Tr("await-user", g[2])

(* Steps run in order: what lies behind the current step is complete, what *)
(* lies ahead is untouched, and a completed run has the output of them all.*)
StepsInOrder ==
    /\ \A s \in Steps : /\ s < run.step => rec[s].output
                        /\ s > run.step => rec[s].tr = NoTr /\ ~rec[s].output
    /\ run.status = "completed" => rec[LastStep].output

(* What has a stored result is not done again: no crash, retry or second   *)
(* wakeup makes the engine repeat a call that has returned.                *)
NeverRepeated ==
    \A o \in Owner, l \in Loop :
        act[o][l].at = "call" => ~ext[CallOf(act[o][l].step, act[o][l].tr)].stored

(* The request of a step has its answer: the gate is closed, or the result *)
(* is stored.                                                              *)
Answered(s, tr) ==
    \/ tr.type = "await-user" /\ gate[<<s, tr.ord>>] = "answered"
    \/ tr.type \in {"invoke-agent", "run-command"} /\ ext[CallOf(s, tr)].stored

RL == INSTANCE RunLife WITH
          Request <- {tr \in Transition : tr.type \notin {"none", "complete"}},
          Shared <- {tr \in Transition : tr.corr},
          None <- NoTr,
          Complete <- Tr("complete", 0),
          at <- run.step,
          asked <- rec[run.step].tr,
          answered <- Answered(run.step, rec[run.step].tr),
          outputs <- {s \in Steps : rec[s].output}

(* Crashes, retries, cancellations, duplicated answers and two loops       *)
(* together keep the promise of RunLife: nothing is applied twice, to the  *)
(* wrong request or before it is there, and no step is skipped or left     *)
(* twice.  Corrections of a role are Shared: they have one key.            *)
ImplementsRunLife == RL!Spec

AtRest ==
    /\ \A o \in Owner : ThreadFree(o) /\ \A l \in Loop : act[o][l].at = "none"
    /\ \A i \in DOMAIN commands : Finished(commands[i])

(* A run does not stop without a trace: when every command is done and the *)
(* run is still queued or working, then its step waits for the operator    *)
(* (who has sent a retry all the same), or one of its commands has failed, *)
(* or the server went away before it had queued the first one.             *)
NoSilentStop ==
    AtRest /\ run.status \in {"queued", "working"} =>
        \/ rec[run.step].tr.type \in {"await-user", "blocked"}
        \/ \E i \in DOMAIN commands : commands[i].status = "failed"
        \/ \A i \in DOMAIN commands : commands[i].key.kind # "start-run"

(* A run that is queued or working comes to rest: it waits for an answer   *)
(* or a retry, or it is over.  After a retry of a step that blocked itself, *)
(* or a failure outside the try blocks of the engine, which shows in the   *)
(* status of the command only, it does not: the run stays queued, and      *)
(* nothing is left to take it up.                                          *)
Resting ==
    \/ run.status \in {"absent", "blocked", "stalled", "cancelled", "completed"}
    \/ \E g \in Gate : gate[g] = "open"

RunSettles ==
    (run.status \in {"queued", "working"} /\ rec[run.step].tr.type # "blocked")
        ~> \/ Resting
           \/ \E i \in DOMAIN commands : /\ commands[i].status = "failed"
                                        /\ commands[i].key.kind \in {"start-run", "continue"}

(* An accepted cancellation takes effect, unless the run completes first,  *)
(* or the removal of its container fails and with it the command.          *)
CancellationLands ==
    (\E i \in DOMAIN commands : IsCancel(commands[i]) /\ ~Finished(commands[i]))
        ~> \/ run.status \in {"cancelled", "completed"}
           \/ \E i \in DOMAIN commands : IsCancel(commands[i]) /\ commands[i].status = "failed"

-------------------------------------------------------------------------------
(* What the documentation says and the code does not do. *)

(* "A high-priority command that ... marks the run cancelled": a cancelled *)
(* run stays cancelled.                                                    *)
CancelledForGood == [][run.status = "cancelled" => run'.status = "cancelled"]_vars

(* "Restart at every external boundary is safe": a run that awaits its     *)
(* user has a gate to answer, once every command is done.                  *)
AwaitingHasGate == AtRest /\ run.status = "awaiting_user" => \E g \in Gate : gate[g] = "open"
===============================================================================
