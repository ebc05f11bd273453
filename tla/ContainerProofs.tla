----------------------------- MODULE ContainerProofs -----------------------------
(***************************************************************************)
(* A run that is over keeps a container only where it may be expected to.  *)
(***************************************************************************)
EXTENDS RunContainer, TLAPS

TypeInv ==
    /\ run \in [status : {"active", "cancelled", "completed"},
               step : {"provision-environment", "implement", "publish"},
               tr : {"build", "command", "publication", "complete"}]
    /\ main \in [task : {"none", "build", "command", "publication", "complete", "recovery"},
                at : {"none", "look", "image", "remove", "create", "start", "artifacts",
                      "inspect", "exec", "git", "remove-agent"}]

(* Nothing is left, or what is left is accounted for.                      *)
Accounted == container = "none" \/ late \/ kept

(* The main loop works on the transition that is stored, and the publish   *)
(* step is complete only with the result of the publication.               *)
MainInv ==
    /\ main.task = "command" => run.tr = "command"
    /\ main.task = "publication" => run.tr = "publication"
    /\ main.task = "complete" => run.tr = "complete"
    /\ main.task \in {"build", "command"} => run.step # "publish"
    /\ run.step = "publish" => run.tr \in {"publication", "complete"}
    /\ run.step = "publish" /\ run.tr = "complete" => "publication" \in stored

(* What removes a container leaves none unaccounted for, until the run is  *)
(* marked or the publication is stored, and from then on.                  *)
LeftInv ==
    /\ run.status = "cancelled" \/ cancel = "remove-agent" => Accounted
    /\ main.at = "remove-agent" \/ "publication" \in stored => Accounted
    /\ run.status = "completed" => "publication" \in stored
    /\ main.at = "create" => container = "none" \/ kept

Inv == TypeInv /\ MainInv /\ LeftInv

LEMMA InitInv == Init => Inv
  BY DEF Init, Inv, TypeInv, MainInv, LeftInv, Accounted, Idle

(* What persist changes of the row of the run. *)
LEMMA Persisted ==
  ASSUME TypeInv, NEW tr \in {"build", "command", "publication", "complete"}, Persist(tr)
  PROVE  run' = [status |-> "active", step |-> run.step, tr |-> tr]
  BY DEF TypeInv, Persist

LEMMA NextInv == Inv /\ [Next]_vars => Inv'
<1> SUFFICES ASSUME Inv, [Next]_vars PROVE Inv'
  OBVIOUS
<1> USE DEF Inv, TypeInv, MainInv, LeftInv, Accounted, Idle, Doing, Goes, Over, TakesUp
<1>1. CASE Remove
  BY <1>1 DEF Remove, Removes
<1>2. CASE Create
  BY <1>2 DEF Create
<1>3. CASE StartContainer
  BY <1>3 DEF StartContainer
<1>4. CASE ContainerLost
  BY <1>4 DEF ContainerLost
<1>5. CASE BeginBuild
  <2>1. CASE "build" \in stored
    <3>1. run' = [status |-> "active", step |-> run.step, tr |-> "command"]
      BY <1>5, <2>1, Persisted DEF BeginBuild
    <3> QED
      BY <1>5, <2>1, <3>1 DEF BeginBuild
  <2>2. CASE "build" \notin stored
    BY <1>5, <2>2 DEF BeginBuild
  <2> QED
    BY <2>1, <2>2
<1>6. CASE BeginCommand
  BY <1>6 DEF BeginCommand, ContainerSteps
<1>7. CASE BeginPublication
  <2>1. CASE "publication" \in stored
    <3>1. run' = [status |-> "active", step |-> run.step, tr |-> "complete"]
      BY <1>7, <2>1, Persisted DEF BeginPublication
    <3> QED
      BY <1>7, <2>1, <3>1 DEF BeginPublication
  <2>2. CASE "publication" \notin stored
    BY <1>7, <2>2 DEF BeginPublication
  <2> QED
    BY <2>1, <2>2
<1>8. CASE BeginComplete
  BY <1>8 DEF BeginComplete
<1>9. CASE ImageBuilt
  BY <1>9 DEF ImageBuilt, CreateRunContainer
<1>10. CASE BuildStored
  <2>1. run' = [status |-> "active", step |-> run.step, tr |-> "command"]
    BY <1>10, Persisted DEF BuildStored
  <2> QED
    BY <1>10, <2>1 DEF BuildStored
<1>11. CASE Inspected
  BY <1>11 DEF Inspected
<1>12. CASE Executed
  <2>1. PICK tr \in {"command", "build", "complete"} :
          /\ run' = [status |-> "active", step |-> run.step, tr |-> tr]
          /\ \/ main' = Idle
             \/ tr = "complete" /\ Goes("complete", "artifacts")
    BY <1>12, Persisted DEF Executed
  <2> QED
    BY <1>12, <2>1 DEF Executed
<1>13. CASE Pushed
  BY <1>13 DEF Pushed
<1>14. CASE Published
  <2>1. run' = [status |-> "active", step |-> run.step, tr |-> "complete"]
    BY <1>14, Persisted DEF Published
  <2> QED
    BY <1>14, <2>1 DEF Published
<1>15. CASE CompleteStep
  BY <1>15 DEF CompleteStep
<1>16. CASE Throws
  BY <1>16 DEF Throws
<1>17. CASE RequestCancel
  BY <1>17 DEF RequestCancel
<1>18. CASE BeginCancel
  BY <1>18 DEF BeginCancel
<1>19. CASE CancelRemoves
  BY <1>19 DEF CancelRemoves, Removes
<1>20. CASE MarkCancelled
  BY <1>20 DEF MarkCancelled
<1>21. CASE Crash
  BY <1>21 DEF Crash
<1>22. CASE Start
  BY <1>22 DEF Start
<1>23. CASE EnsureContainer
  BY <1>23 DEF EnsureContainer, CreateRunContainer
<1>24. CASE UNCHANGED vars
  BY <1>24 DEF vars
<1> QED
  BY <1>1, <1>2, <1>3, <1>4, <1>5, <1>6, <1>7, <1>8, <1>9, <1>10, <1>11, <1>12, <1>13, <1>14,
     <1>15, <1>16, <1>17, <1>18, <1>19, <1>20, <1>21, <1>22, <1>23, <1>24 DEF Next

LEMMA Invariant == Spec => []Inv
  BY InitInv, NextInv, PTL DEF Spec

(* What publication and cancellation remove stays removed: a container of  *)
(* a run that is over was created too late for them, or docker kept it.    *)
THEOREM LeftOvers == Spec => []OnlyLateOnesStay
<1>1. Inv => OnlyLateOnesStay
  BY DEF Inv, LeftInv, Accounted, OnlyLateOnesStay, Over
<1> QED
  BY Invariant, <1>1, PTL

(* docker create meets no container of an earlier build or of a process    *)
(* that has died, unless docker would not remove it.                       *)
THEOREM FreeName == Spec => []NameIsFree
<1>1. Inv => NameIsFree
  BY DEF Inv, LeftInv, NameIsFree
<1> QED
  BY Invariant, <1>1, PTL
===============================================================================
