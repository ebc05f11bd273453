------------------------------- MODULE WorkQueue -------------------------------
(***************************************************************************)
(* What the durable command queue promises, without rows, leases or        *)
(* clocks: an accepted job stays pending until one of the workers that     *)
(* began it ends it, once and for all.  Workers may vanish at any time.    *)
(* With Exclusive, a job has at most one worker at a time.                 *)
(***************************************************************************)
CONSTANTS Job, Worker, Exclusive

VARIABLES
    state,      \* fate of each job
    workers     \* who is working on it

queueVars == <<state, workers>>

Init ==
    /\ state = [j \in Job |-> "absent"]
    /\ workers = [j \in Job |-> {}]

Accept(j) ==
    /\ state[j] = "absent"
    /\ state' = [state EXCEPT ![j] = "pending"]
    /\ UNCHANGED workers

Begin(j, w) ==
    /\ state[j] = "pending"
    /\ Exclusive => workers[j] = {}
    /\ \A k \in Job : w \notin workers[k]
    /\ workers' = [workers EXCEPT ![j] = @ \cup {w}]
    /\ UNCHANGED state

End(j, w, outcome) ==
    /\ state[j] = "pending"
    /\ w \in workers[j]
    /\ state' = [state EXCEPT ![j] = outcome]
    /\ workers' = [workers EXCEPT ![j] = @ \ {w}]

Vanish(W) ==
    /\ workers' = [j \in Job |-> workers[j] \ W]
    /\ UNCHANGED state

Next ==
    \/ \E j \in Job : Accept(j)
    \/ \E j \in Job, w \in Worker : Begin(j, w)
    \/ \E j \in Job, w \in Worker : \E outcome \in {"completed", "failed"} : End(j, w, outcome)
    \/ \E W \in SUBSET Worker : Vanish(W)

Spec == Init /\ [][Next]_queueVars
===============================================================================
