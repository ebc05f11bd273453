------------------------- MODULE CoordinatorProperties -------------------------
(***************************************************************************)
(* What the two loops and the lease columns have to guarantee together.    *)
(***************************************************************************)
EXTENDS Coordinator

(* A row leased by a running process is in the hands of one of its loops:  *)
(* no lease is left behind by a loop that has moved on, so a command never *)
(* waits for a lease to run out unless its process has died.               *)
NoOrphanedLease ==
    \A o \in Owner : \A i \in DOMAIN commands :
        Running(o) /\ HoldsLease(o, i) => Holding(o, i)

(* Two loops, of one process or of two, are never at work on the same      *)
(* command, unless the lease of one of them could run out under it.  With  *)
(* MayLapse = {} this is mutual exclusion.                                 *)
ExclusiveWork ==
    \A o, p \in Owner : \A l, m \in Loop : \A i \in DOMAIN commands :
        WorksOn(o, l, i) /\ WorksOn(p, m, i) /\ <<o, l>> # <<p, m>>
            => {l, m} \cap MayLapse # {}

(* The queue as WorkQueue sees it. *)
KeyRows(k) == {i \in DOMAIN commands : commands[i].key = k}

JobState(k) ==
    IF KeyRows(k) = {} THEN "absent"
    ELSE IF \E i \in KeyRows(k) : commands[i].status \in {"queued", "leased"} THEN "pending"
    ELSE IF \E i \in KeyRows(k) : commands[i].status = "completed" THEN "completed"
    ELSE "failed"

JobWorkers(k) == {w \in Owner \X Loop : \E i \in KeyRows(k) : WorksOn(w[1], w[2], i)}

jobState == [k \in Key |-> JobState(k)]

jobWorkers == [k \in Key |-> JobWorkers(k)]

WQ == INSTANCE WorkQueue WITH
          Job <- Key,
          Worker <- Owner \X Loop,
          Exclusive <- (MayLapse = {}),
          state <- jobState,
          workers <- jobWorkers

(* Leases, expiry, renewals, crashes and restarts together keep the        *)
(* promise of WorkQueue: a duplicate request adds nothing, a command ends  *)
(* once, by a worker that began it, and an ended one is never begun again. *)
ImplementsWorkQueue == WQ!Spec

(* A command that was accepted is eventually completed or failed, across   *)
(* any crash, stop or lost lease after which a coordinator is started      *)
(* again: unless the last process of the instance is gone too.             *)
EveryCommandEnds ==
    \A k \in Key : JobState(k) = "pending" ~>
        \/ JobState(k) \in {"completed", "failed"}
        \/ \A o \in Owner : proc[o] \in {"stopping", "down"}
===============================================================================
