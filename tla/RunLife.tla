-------------------------------- MODULE RunLife --------------------------------
(***************************************************************************)
(* What the engine makes of a run, without commands, processes, gates or   *)
(* failures.  Its steps come in order.  A step asks for one thing at a     *)
(* time, an answer of the operator or the result of a call, and goes on    *)
(* only when it has that; what it asks for next is new, unless it is one   *)
(* of the Shared requests; and it is left once, when it is complete.       *)
(***************************************************************************)
EXTENDS Naturals

CONSTANTS LastStep, Request, Shared, None, Complete

VARIABLES
    at,         \* the current step
    asked,      \* what it asks for
    answered,   \* it has been given that
    outputs     \* the steps that have theirs

lifeVars == <<at, asked, answered, outputs>>

Init ==
    /\ at = 1
    /\ asked = None
    /\ ~answered
    /\ outputs = {}

Ask(q) ==
    /\ asked = None \/ answered
    /\ asked' = q
    /\ answered' => q \in Shared
    /\ UNCHANGED <<at, outputs>>

Answer ==
    /\ asked \in Request /\ ~answered
    /\ answered'
    /\ UNCHANGED <<at, asked, outputs>>

Leave ==
    /\ asked = Complete
    /\ at \notin outputs
    /\ outputs' = outputs \cup {at}
    /\ IF at = LastStep
       THEN UNCHANGED <<at, asked>>
       ELSE at' = at + 1 /\ asked' = None
    /\ ~answered'

Next == Answer \/ Leave \/ \E q \in Request \cup {Complete} : Ask(q)

Spec == Init /\ [][Next]_lifeVars
===============================================================================
