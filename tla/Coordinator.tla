------------------------------ MODULE Coordinator ------------------------------
(***************************************************************************)
(* src/coordinator.ts: a coordinator process runs two loops over the       *)
(* command table, the main loop and the cancellation loop.  Both use the   *)
(* lease owner of the process.  The main loop renews the lease of the      *)
(* command it works on from a timer, the cancellation loop does not.       *)
(*                                                                         *)
(* A process is an element of Owner, because every Coordinator object      *)
(* draws a fresh owner: a restarted process is another element.  What      *)
(* engine.process does with a command is left open here (it returns or     *)
(* throws, at any time); RunEngine fills it in.                            *)
(***************************************************************************)
EXTENDS CommandStore

CONSTANTS
    Overlap,    \* TRUE: a second "serve" may be started while one is running
    MayLapse    \* loops whose lease may run out while they work on the command

Loop == {"main", "cancel"}

ASSUME LapseAssumption == Overlap \in BOOLEAN /\ MayLapse \subseteq Loop

VARIABLES
    proc,       \* life of each process
    loop        \* what each of its loops is doing

coordinatorVars == <<commands, runLease, proc, loop>>

ProcState == {"new", "up", "stopping", "down"}

(* "returned" and "threw": engine.process is over, finishCommand is next.  *)
LoopPc == {"idle", "working", "returned", "threw", "exited"}

LoopState == [pc : LoopPc, job : Nat]

Idle == [pc |-> "idle", job |-> 0]
Exited == [pc |-> "exited", job |-> 0]

CoordinatorTypeOK ==
    /\ StoreTypeOK
    /\ proc \in [Owner -> ProcState]
    /\ loop \in [Owner -> [Loop -> LoopState]]

CoordinatorInit ==
    /\ StoreInit
    /\ proc = [o \in Owner |-> "new"]
    /\ loop = [o \in Owner |-> [l \in Loop |-> Exited]]

Running(o) == proc[o] \in {"up", "stopping"}

(* Loop l of process o has leased row i and has not yet finished it.       *)
WorksOn(o, l, i) == loop[o][l].job = i /\ loop[o][l].pc \in {"working", "returned", "threw"}

Holding(o, i) == \E l \in Loop : WorksOn(o, l, i)

(* Bound: crashes and stops happen only while a process is left to start.  *)
SpareProcess == \E p \in Owner : proc[p] = "new"

-------------------------------------------------------------------------------
(* Coordinator.start *)
Start(o) ==
    /\ proc[o] = "new"
    /\ Overlap \/ \A p \in Owner : ~Running(p)
    /\ proc' = [proc EXCEPT ![o] = "up"]
    /\ loop' = [loop EXCEPT ![o] = [l \in Loop |-> Idle]]
    /\ UNCHANGED <<commands, runLease>>

(* Coordinator.stop: the loops run to the end of their current command.    *)
Stop(o) ==
    /\ proc[o] = "up"
    /\ SpareProcess
    /\ proc' = [proc EXCEPT ![o] = "stopping"]
    /\ UNCHANGED <<commands, runLease, loop>>

LoopExits(o, l) ==
    /\ proc[o] = "stopping"
    /\ loop[o][l] = Idle
    /\ loop' = [loop EXCEPT ![o][l] = Exited]
    /\ proc' = [proc EXCEPT ![o] =
                   IF \A m \in Loop \ {l} : loop[o][m] = Exited THEN "down" ELSE @]
    /\ UNCHANGED <<commands, runLease>>

(* The process dies: a signal, power loss, or an unhandled rejection.  The *)
(* database keeps what was committed.                                      *)
Die(o) ==
    /\ proc' = [proc EXCEPT ![o] = "down"]
    /\ loop' = [loop EXCEPT ![o] = [l \in Loop |-> Exited]]

Crash(o) ==
    /\ Running(o)
    /\ SpareProcess
    /\ Die(o)
    /\ UNCHANGED <<commands, runLease>>

(* A client of the HTTP API, which lives in the coordinator process.       *)
Submit(k) ==
    /\ \E o \in Owner : proc[o] = "up"
    /\ Enqueue(k)
    /\ UNCHANGED <<proc, loop>>

-------------------------------------------------------------------------------
(* consume *)
LeaseMain(o, i) ==
    /\ proc[o] = "up"
    /\ loop[o]["main"] = Idle
    /\ LeaseNextCommand(o, i)
    /\ loop' = [loop EXCEPT ![o]["main"] = [pc |-> "working", job |-> i]]
    /\ UNCHANGED proc

(* consumeCancellations *)
LeaseCancel(o, i) ==
    /\ proc[o] = "up"
    /\ loop[o]["cancel"] = Idle
    /\ LeaseNextCancellation(o, i)
    /\ loop' = [loop EXCEPT ![o]["cancel"] = [pc |-> "working", job |-> i]]
    /\ UNCHANGED proc

(* The renewal timer of the main loop. *)
Renew(o) ==
    /\ Running(o)
    /\ loop[o]["main"].pc = "working"
    /\ RenewLease(o, loop[o]["main"].job)
    /\ UNCHANGED <<proc, loop>>

(* engine.process returns or throws: the part a module that models what    *)
(* process does conjoins to its last step.                                 *)
ProcessEnds(o, l, how) ==
    /\ loop[o][l].pc = "working"
    /\ loop' = [loop EXCEPT ![o][l].pc = how]
    /\ UNCHANGED proc

WorkEnds(o, l, how) == ProcessEnds(o, l, how) /\ UNCHANGED <<commands, runLease>>

(* Faulty: the status of a run, not of a command. *)
OutcomeOfRun(pc) == IF pc = "returned" THEN "completed" ELSE "blocked"

Outcome(pc) == IF pc = "returned" THEN "completed" ELSE "failed"

Finish(o, l) ==
    /\ loop[o][l].pc \in {"returned", "threw"}
    /\ FinishCommand(o, loop[o][l].job, Outcome(loop[o][l].pc))
    /\ loop' = [loop EXCEPT ![o][l] = Idle]
    /\ UNCHANGED proc

(* finishCommand throws "Command lease lost"; the catch block calls it     *)
(* again and it throws again, so the promise of the loop rejects and the   *)
(* unhandled rejection ends the process.                                   *)
LeaseLost(o, l) ==
    /\ loop[o][l].pc \in {"returned", "threw"}
    /\ ~HoldsLease(o, loop[o][l].job)
    /\ Die(o)
    /\ UNCHANGED <<commands, runLease>>

(* A lease nobody keeps alive runs out; so may that of a live worker whose *)
(* loop is in MayLapse ("cancel": nobody renews it; "main": the machine    *)
(* was suspended for longer than the lease).                               *)
Lapse(i) ==
    /\ \A o \in Owner, l \in Loop : WorksOn(o, l, i) => l \in MayLapse
    /\ LeaseExpires(i)
    /\ UNCHANGED <<proc, loop>>

LoopStep(o, l) ==
    \/ \E how \in {"returned", "threw"} : WorkEnds(o, l, how)
    \/ Finish(o, l)
    \/ LeaseLost(o, l)
    \/ LoopExits(o, l)

CoordinatorNext ==
    \/ \E k \in Key : Submit(k)
    \/ \E o \in Owner :
          \/ Start(o) \/ Stop(o) \/ Crash(o) \/ Renew(o)
          \/ \E i \in DOMAIN commands : LeaseMain(o, i) \/ LeaseCancel(o, i)
          \/ \E l \in Loop : LoopStep(o, l)
    \/ \E i \in DOMAIN commands : Lapse(i)

(***************************************************************************)
(* Fairness.  Timers and promises of a live process fire, engine.process   *)
(* returns (agents have a deadline; that project commands end is assumed), *)
(* clocks advance, and an operator who finds no coordinator running starts *)
(* one.  Submissions, crashes and stops are never owed.                    *)
(***************************************************************************)
Restart == (\A p \in Owner : ~Running(p)) /\ \E o \in Owner : Start(o)

CoordinatorFairness ==
    /\ WF_coordinatorVars(Restart)
    /\ \A o \in Owner :
          /\ WF_coordinatorVars(\E i \in DOMAIN commands : LeaseMain(o, i))
          /\ WF_coordinatorVars(\E i \in DOMAIN commands : LeaseCancel(o, i))
          /\ \A l \in Loop : WF_coordinatorVars(LoopStep(o, l))
    /\ WF_coordinatorVars(\E i \in DOMAIN commands : Lapse(i))

CoordinatorSpec ==
    CoordinatorInit /\ [][CoordinatorNext]_coordinatorVars /\ CoordinatorFairness
===============================================================================
