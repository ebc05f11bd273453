--------------------------- MODULE CoordinatorProofs ---------------------------
(***************************************************************************)
(* Proofs about Coordinator, for every set of runs, keys and processes,    *)
(* every number of overlapping processes, and any choice of MayLapse.      *)
(***************************************************************************)
EXTENDS CoordinatorProperties, SequenceTheorems, TLAPS

-------------------------------------------------------------------------------
(* Rows and the table they are in. *)

(* The table is a function from its positions to rows. *)
LEMMA TableRows ==
    ASSUME StoreTypeOK
    PROVE  /\ DOMAIN commands = 1..Len(commands)
           /\ Len(commands) \in Nat
           /\ commands \in [DOMAIN commands -> Row]
    BY DEF StoreTypeOK

(* A function on the positions of the table whose values are rows is one.  *)
LEMMA RowsTable ==
    ASSUME StoreTypeOK, NEW t, t \in [DOMAIN commands -> Row]
    PROVE  t \in Seq(Row)
    BY TableRows, SeqDef

(* The rows the store writes are rows. *)
LEMMA RowTypes ==
    ASSUME NEW k \in Key, NEW o \in Owner, NEW outcome \in {"completed", "failed"}
    PROVE  /\ QueuedRow(k) \in Row
           /\ LeasedRow(k, o) \in Row
           /\ ClosedRow(k, outcome) \in Row
    BY DEF QueuedRow, LeasedRow, ClosedRow, Row, Status

(* Enqueue leaves the rows of the table as they are, and appends at most   *)
(* a queued one.                                                           *)
LEMMA EnqueueRows ==
    ASSUME StoreTypeOK, NEW k \in Key, Enqueue(k)
    PROVE  /\ StoreTypeOK'
           /\ DOMAIN commands \subseteq DOMAIN commands'
           /\ \A i \in DOMAIN commands : commands'[i] = commands[i]
           /\ \A i \in DOMAIN commands' : i \notin DOMAIN commands => commands'[i] = QueuedRow(k)
<1>1. CASE commands' = commands
    BY <1>1 DEF StoreTypeOK, Enqueue
<1>2. CASE commands' = Append(commands, QueuedRow(k))
    <2>1. QueuedRow(k) \in Row
        BY DEF QueuedRow, Row, Status
    <2>2. commands \in Seq(Row) /\ commands' \in Seq(Row)
        BY <1>2, <2>1 DEF StoreTypeOK
    <2>3. /\ DOMAIN commands' = 1..(Len(commands) + 1)
          /\ \A i \in 1..Len(commands) : commands'[i] = commands[i]
          /\ commands'[Len(commands) + 1] = QueuedRow(k)
        BY <1>2, <2>1, <2>2
    <2>4. StoreTypeOK'
        BY <2>2 DEF StoreTypeOK, Enqueue
    <2> QED
        BY <2>3, <2>4, TableRows
<1> QED
    BY <1>1, <1>2 DEF Enqueue

(* Reclaiming changes expired leases only, into queued rows. *)
LEMMA ReclaimedRows ==
    ASSUME StoreTypeOK, NEW onlyCancel \in BOOLEAN
    PROVE  /\ Reclaimed(onlyCancel) \in [DOMAIN commands -> Row]
           /\ \A j \in DOMAIN commands :
                 \/ Reclaimed(onlyCancel)[j] = commands[j]
                 \/ /\ commands[j].status = "leased" /\ commands[j].expired
                    /\ Reclaimed(onlyCancel)[j] = QueuedRow(commands[j].key)
<1>1. \A j \in DOMAIN commands :
          commands[j] \in Row /\ QueuedRow(commands[j].key) \in Row
    BY TableRows DEF Row, QueuedRow, Status
<1> QED
    BY <1>1 DEF Reclaimed

(* A lease goes to one row that was queued or whose lease had expired; of  *)
(* the other rows only expired leases change.                              *)
LEMMA LeaseRows ==
    ASSUME StoreTypeOK, NEW o \in Owner, NEW i \in DOMAIN commands,
           LeaseNextCommand(o, i) \/ LeaseNextCancellation(o, i)
    PROVE  /\ StoreTypeOK'
           /\ DOMAIN commands' = DOMAIN commands
           /\ commands[i].status = "queued" \/ (commands[i].status = "leased" /\ commands[i].expired)
           /\ commands'[i] = LeasedRow(commands[i].key, o)
           /\ \A j \in DOMAIN commands : j # i =>
                 \/ commands'[j] = commands[j]
                 \/ /\ commands[j].status = "leased" /\ commands[j].expired
                    /\ commands'[j] = QueuedRow(commands[j].key)
<1>1. PICK onlyCancel \in BOOLEAN :
          /\ IsNext(Reclaimed(onlyCancel), onlyCancel, i)
          /\ commands' = [Reclaimed(onlyCancel) EXCEPT
                            ![i] = LeasedRow(Reclaimed(onlyCancel)[i].key, o)]
    BY DEF LeaseNextCommand, LeaseNextCancellation
<1> DEFINE table == Reclaimed(onlyCancel)
<1>2. /\ table \in [DOMAIN commands -> Row]
      /\ \A j \in DOMAIN commands :
            \/ table[j] = commands[j]
            \/ /\ commands[j].status = "leased" /\ commands[j].expired
               /\ table[j] = QueuedRow(commands[j].key)
    BY ReclaimedRows
<1>3. table[i].status = "queued"
    BY <1>1 DEF IsNext
<1>4. table[i].key = commands[i].key /\ commands[i].key \in Key
    BY <1>2, TableRows DEF QueuedRow, Row
<1>5. commands' = [table EXCEPT ![i] = LeasedRow(commands[i].key, o)]
    BY <1>1, <1>4
<1>6. LeasedRow(commands[i].key, o) \in Row
    BY <1>4 DEF LeasedRow, Row, Status
<1> HIDE DEF table
<1>7. /\ commands' \in [DOMAIN commands -> Row]
      /\ commands'[i] = LeasedRow(commands[i].key, o)
      /\ \A j \in DOMAIN commands : j # i => commands'[j] = table[j]
    BY <1>2, <1>5, <1>6
<1>8. runLease' \in [Run -> Owner \cup {NoOwner}]
    BY DEF LeaseNextCommand, LeaseNextCancellation, StoreTypeOK
<1>9. StoreTypeOK'
    BY <1>7, <1>8, RowsTable DEF StoreTypeOK
<1>10. commands[i].status = "queued" \/ (commands[i].status = "leased" /\ commands[i].expired)
    BY <1>2, <1>3
<1> QED
    BY <1>2, <1>7, <1>9, <1>10

(* Finishing closes one row, renewing and expiring change its clock only.  *)
LEMMA FinishRows ==
    ASSUME StoreTypeOK, NEW o \in Owner, NEW i \in DOMAIN commands,
           NEW outcome \in {"completed", "failed"}, FinishCommand(o, i, outcome)
    PROVE  /\ StoreTypeOK'
           /\ DOMAIN commands' = DOMAIN commands
           /\ commands'[i] = ClosedRow(commands[i].key, outcome)
           /\ \A j \in DOMAIN commands : j # i => commands'[j] = commands[j]
<1>1. ClosedRow(commands[i].key, outcome) \in Row
    BY TableRows DEF ClosedRow, Row, Status
<1>2. commands' = [commands EXCEPT ![i] = ClosedRow(commands[i].key, outcome)]
    BY DEF FinishCommand
<1>3. commands' \in [DOMAIN commands -> Row]
    BY <1>1, <1>2, TableRows
<1>4. runLease' \in [Run -> Owner \cup {NoOwner}]
    BY DEF FinishCommand, StoreTypeOK
<1> QED
    BY <1>2, <1>3, <1>4, RowsTable DEF StoreTypeOK

LEMMA ClockRows ==
    ASSUME StoreTypeOK, NEW i \in DOMAIN commands, NEW b \in BOOLEAN,
           commands' = [commands EXCEPT ![i].expired = b], UNCHANGED runLease
    PROVE  /\ StoreTypeOK'
           /\ DOMAIN commands' = DOMAIN commands
           /\ commands'[i].expired = b
           /\ \A j \in DOMAIN commands :
                 /\ commands'[j].status = commands[j].status
                 /\ commands'[j].owner = commands[j].owner
                 /\ commands'[j].key = commands[j].key
                 /\ j # i => commands'[j] = commands[j]
<1>1. commands[i] \in Row
    BY TableRows
<1> DEFINE row == [commands[i] EXCEPT !.expired = b]
<1>2. /\ row \in Row /\ row.expired = b
      /\ row.status = commands[i].status /\ row.owner = commands[i].owner
      /\ row.key = commands[i].key
    BY <1>1 DEF Row
<1>3. commands' = [commands EXCEPT ![i] = row]
    OBVIOUS
<1> HIDE DEF row
<1>4. /\ commands' \in [DOMAIN commands -> Row]
      /\ commands'[i] = row
      /\ \A j \in DOMAIN commands : j # i => commands'[j] = commands[j]
    BY <1>2, <1>3, TableRows
<1>5. StoreTypeOK'
    BY <1>4, RowsTable DEF StoreTypeOK
<1> QED
    BY <1>2, <1>4, <1>5

-------------------------------------------------------------------------------
(* Type correctness. *)

(* A loop that moves leaves the others as they are. *)
LEMMA LoopMoves ==
    ASSUME loop \in [Owner -> [Loop -> LoopState]],
           NEW o \in Owner, NEW l \in Loop, NEW st \in LoopState,
           loop' = [loop EXCEPT ![o][l] = st]
    PROVE  /\ loop' \in [Owner -> [Loop -> LoopState]]
           /\ loop'[o][l] = st
           /\ \A p \in Owner, m \in Loop : <<p, m>> # <<o, l>> => loop'[p][m] = loop[p][m]
    OBVIOUS

(* When engine.process is over, the loop keeps its job. *)
LEMMA LoopEnds ==
    ASSUME loop \in [Owner -> [Loop -> LoopState]],
           NEW o \in Owner, NEW l \in Loop, NEW how \in {"returned", "threw"},
           ProcessEnds(o, l, how)
    PROVE  loop' = [loop EXCEPT ![o][l] = [pc |-> how, job |-> loop[o][l].job]]
<1>1. loop[o][l] \in LoopState
    OBVIOUS
<1>2. [loop[o][l] EXCEPT !.pc = how] = [pc |-> how, job |-> loop[o][l].job]
    BY <1>1 DEF LoopState
<1>3. loop' = [loop EXCEPT ![o][l] = [loop[o][l] EXCEPT !.pc = how]]
    BY DEF ProcessEnds
<1> QED
    BY <1>2, <1>3

(* A loop is at work from the lease to the end of finishCommand. *)
AtWork(o, l) == loop[o][l].pc \in {"working", "returned", "threw"}

Job(o, l) == loop[o][l].job

(* The command of a loop at work is in the table: rows are never deleted.  *)
JobExists == \A o \in Owner, l \in Loop : AtWork(o, l) => Job(o, l) \in DOMAIN commands

TypeInv == CoordinatorTypeOK /\ JobExists

LEMMA TypeInit == CoordinatorInit => TypeInv
<1> SUFFICES ASSUME CoordinatorInit PROVE TypeInv
    OBVIOUS
<1>1. StoreTypeOK
    BY EmptySeq DEF CoordinatorInit, StoreInit, StoreTypeOK
<1>2. CoordinatorTypeOK
    BY <1>1 DEF CoordinatorInit, CoordinatorTypeOK, ProcState, LoopState, LoopPc, Exited
<1>3. JobExists
    BY DEF CoordinatorInit, JobExists, AtWork, Exited
<1> QED
    BY <1>2, <1>3 DEF TypeInv

LEMMA TypeStep == TypeInv /\ [CoordinatorNext]_coordinatorVars => TypeInv'
<1> SUFFICES ASSUME TypeInv, [CoordinatorNext]_coordinatorVars
             PROVE  TypeInv'
    OBVIOUS
<1> USE DEF TypeInv, CoordinatorTypeOK, ProcState, JobExists, AtWork, Job
<1>0. /\ Idle \in LoopState /\ Exited \in LoopState
      /\ Idle.pc = "idle" /\ Exited.pc = "exited"
    BY DEF Idle, Exited, LoopState, LoopPc
<1>1. ASSUME NEW k \in Key, Submit(k) PROVE TypeInv'
    BY <1>1, EnqueueRows DEF Submit
<1>2. ASSUME NEW o \in Owner, Start(o) PROVE TypeInv'
    BY <1>0, <1>2 DEF Start, StoreTypeOK
<1>3. ASSUME NEW o \in Owner, Stop(o) PROVE TypeInv'
    BY <1>3 DEF Stop, StoreTypeOK
<1>4. ASSUME NEW o \in Owner, Die(o), UNCHANGED <<commands, runLease>> PROVE TypeInv'
    BY <1>0, <1>4 DEF Die, StoreTypeOK
<1>5. ASSUME NEW o \in Owner, Renew(o) PROVE TypeInv'
    <2>1. loop[o]["main"].job \in DOMAIN commands
        BY <1>5 DEF Renew, Loop
    <2> QED
        BY <1>5, <2>1, ClockRows DEF Renew, RenewLease
<1>6. ASSUME NEW o \in Owner, NEW l \in Loop, NEW i \in DOMAIN commands,
             LeaseNextCommand(o, i) \/ LeaseNextCancellation(o, i),
             loop' = [loop EXCEPT ![o][l] = [pc |-> "working", job |-> i]],
             UNCHANGED proc
      PROVE  TypeInv'
    <2>1. [pc |-> "working", job |-> i] \in LoopState
        BY TableRows DEF LoopState, LoopPc
    <2>2. StoreTypeOK' /\ DOMAIN commands' = DOMAIN commands
        BY <1>6, LeaseRows
    <2> QED
        BY <1>6, <2>1, <2>2, LoopMoves
<1>7. ASSUME NEW o \in Owner, NEW l \in Loop, NEW how \in {"returned", "threw"},
             WorkEnds(o, l, how)
      PROVE  TypeInv'
    <2>1. /\ loop[o][l].pc = "working" /\ loop[o][l].job \in DOMAIN commands
          /\ UNCHANGED <<proc, commands, runLease>>
        BY <1>7 DEF WorkEnds, ProcessEnds
    <2>2. [pc |-> how, job |-> loop[o][l].job] \in LoopState
        BY DEF LoopState, LoopPc
    <2>3. loop' = [loop EXCEPT ![o][l] = [pc |-> how, job |-> loop[o][l].job]]
        BY <1>7, LoopEnds DEF WorkEnds
    <2> QED
        BY <2>1, <2>2, <2>3, LoopMoves DEF StoreTypeOK
<1>8. ASSUME NEW o \in Owner, NEW l \in Loop, Finish(o, l) PROVE TypeInv'
    <2>1. loop[o][l].job \in DOMAIN commands
        BY <1>8 DEF Finish
    <2>2. StoreTypeOK' /\ DOMAIN commands' = DOMAIN commands
        BY <1>8, <2>1, FinishRows DEF Finish, Outcome
    <2> QED
        BY <1>0, <1>8, <2>2, LoopMoves DEF Finish
<1>9. ASSUME NEW o \in Owner, NEW l \in Loop, LoopExits(o, l) PROVE TypeInv'
    <2>1. proc' \in [Owner -> ProcState] /\ UNCHANGED <<commands, runLease>>
        BY <1>9 DEF LoopExits
    <2> QED
        BY <1>0, <1>9, <2>1, LoopMoves DEF LoopExits, StoreTypeOK
<1>10. ASSUME NEW i \in DOMAIN commands, Lapse(i) PROVE TypeInv'
    BY <1>10, ClockRows DEF Lapse, LeaseExpires
<1>11. CASE UNCHANGED coordinatorVars
    BY <1>11 DEF coordinatorVars, StoreTypeOK
<1> QED
    BY <1>1, <1>2, <1>3, <1>4, <1>5, <1>6, <1>7, <1>8, <1>9, <1>10, <1>11
    DEF CoordinatorNext, Crash, LeaseMain, LeaseCancel, LoopStep, LeaseLost, Loop

(* The rows, processes and loops are always well-formed. *)
THEOREM TypeCorrect == CoordinatorSpec => []CoordinatorTypeOK
<1>1. TypeInv => CoordinatorTypeOK
    BY DEF TypeInv
<1> QED
    BY <1>1, TypeInit, TypeStep, PTL DEF CoordinatorSpec

-------------------------------------------------------------------------------
(* Exclusive work.  ExclusiveWork is not inductive: that no second loop    *)
(* can lease the row of a loop at work follows from the lease that loop    *)
(* still has.  The row can only be lost to it by being closed, by another  *)
(* loop of its own process that was overtaken by the clock.                *)

WorkIsLeased ==
    \A o \in Owner, l \in Loop \ MayLapse : AtWork(o, l) =>
        \/ Finished(commands[Job(o, l)])
        \/ HoldsLease(o, Job(o, l)) /\ ~commands[Job(o, l)].expired

ExclusiveInv == TypeInv /\ WorkIsLeased /\ ExclusiveWork

LEMMA ExclusiveInit == CoordinatorInit => ExclusiveInv
<1> SUFFICES ASSUME CoordinatorInit PROVE ExclusiveInv
    OBVIOUS
<1>1. \A o \in Owner, l \in Loop : ~AtWork(o, l)
    BY DEF CoordinatorInit, AtWork, Exited
<1> QED
    BY <1>1, TypeInit DEF ExclusiveInv, WorkIsLeased, ExclusiveWork, WorksOn, AtWork

(* Nothing is lost when rows only get closed and loops only stop working.  *)
LEMMA ExclusiveFrame ==
    ASSUME ExclusiveInv, TypeInv',
           \A o \in Owner, l \in Loop : AtWork(o, l)' =>
               AtWork(o, l) /\ Job(o, l)' = Job(o, l),
           \A o \in Owner, l \in Loop \ MayLapse : \A i \in DOMAIN commands :
               AtWork(o, l) /\ Job(o, l) = i =>
                   \/ Finished(commands'[i])
                   \/ /\ commands'[i].status = commands[i].status
                      /\ commands'[i].owner = commands[i].owner
                      /\ commands'[i].expired = commands[i].expired
                   \/ /\ commands'[i].status = commands[i].status
                      /\ commands'[i].owner = commands[i].owner
                      /\ ~commands'[i].expired
    PROVE  ExclusiveInv'
<1>1. WorkIsLeased'
    BY DEF ExclusiveInv, TypeInv, JobExists, WorkIsLeased, HoldsLease, Finished
<1>2. ExclusiveWork'
    <2> SUFFICES ASSUME NEW o \in Owner, NEW p \in Owner, NEW l \in Loop, NEW m \in Loop,
                        NEW i \in (DOMAIN commands)',
                        WorksOn(o, l, i)', WorksOn(p, m, i)', <<o, l>> # <<p, m>>
                 PROVE  {l, m} \cap MayLapse # {}
        BY DEF ExclusiveWork
    <2>1. WorksOn(o, l, i) /\ WorksOn(p, m, i)
        BY DEF WorksOn, AtWork, Job
    <2>2. i \in DOMAIN commands
        BY <2>1 DEF ExclusiveInv, TypeInv, JobExists, WorksOn, AtWork, Job
    <2> QED
        BY <2>1, <2>2 DEF ExclusiveInv, ExclusiveWork
<1> QED
    BY <1>1, <1>2 DEF ExclusiveInv

LEMMA ExclusiveStep == ExclusiveInv /\ [CoordinatorNext]_coordinatorVars => ExclusiveInv'
<1> SUFFICES ASSUME ExclusiveInv, [CoordinatorNext]_coordinatorVars
             PROVE  ExclusiveInv'
    OBVIOUS
<1>0. TypeInv' /\ TypeInv /\ CoordinatorTypeOK /\ StoreTypeOK
    BY TypeStep DEF ExclusiveInv, TypeInv, CoordinatorTypeOK
<1>t. loop \in [Owner -> [Loop -> LoopState]]
    BY <1>0 DEF CoordinatorTypeOK
<1>1. ASSUME NEW k \in Key, Submit(k) PROVE ExclusiveInv'
    <2>1. \A i \in DOMAIN commands : commands'[i] = commands[i]
        BY <1>0, <1>1, EnqueueRows DEF Submit
    <2> QED
        BY <1>0, <1>1, <2>1, ExclusiveFrame DEF Submit, AtWork, Job
<1>2. ASSUME NEW o \in Owner, Start(o) PROVE ExclusiveInv'
    BY <1>0, <1>t, <1>2, ExclusiveFrame DEF Start, AtWork, Job, Idle
<1>3. ASSUME NEW o \in Owner, Stop(o) PROVE ExclusiveInv'
    BY <1>0, <1>3, ExclusiveFrame DEF Stop, AtWork, Job
<1>4. ASSUME NEW o \in Owner, Die(o), UNCHANGED <<commands, runLease>> PROVE ExclusiveInv'
    BY <1>0, <1>t, <1>4, ExclusiveFrame DEF Die, AtWork, Job, Exited
<1>5. ASSUME NEW o \in Owner, Renew(o) PROVE ExclusiveInv'
    <2>1. loop[o]["main"].job \in DOMAIN commands
        BY <1>0, <1>5 DEF Renew, Loop, TypeInv, JobExists, AtWork, Job
    <2>2. \A i \in DOMAIN commands :
              /\ commands'[i].status = commands[i].status
              /\ commands'[i].owner = commands[i].owner
              /\ commands'[i].expired = commands[i].expired \/ ~commands'[i].expired
        BY <1>0, <1>5, <2>1, ClockRows DEF Renew, RenewLease
    <2> QED
        BY <1>0, <1>5, <2>2, ExclusiveFrame DEF Renew, AtWork, Job
<1>6. ASSUME NEW o \in Owner, NEW l \in Loop, NEW i \in DOMAIN commands,
             LeaseNextCommand(o, i) \/ LeaseNextCancellation(o, i),
             loop[o][l] = Idle,
             loop' = [loop EXCEPT ![o][l] = [pc |-> "working", job |-> i]]
      PROVE  ExclusiveInv'
    <2>1. [pc |-> "working", job |-> i] \in LoopState
        BY <1>0, TableRows DEF LoopState, LoopPc
    <2>2. /\ loop'[o][l] = [pc |-> "working", job |-> i]
          /\ \A p \in Owner, m \in Loop : <<p, m>> # <<o, l>> => loop'[p][m] = loop[p][m]
        BY <1>t, <1>6, <2>1, LoopMoves
    <2>3. /\ commands[i].status = "queued" \/ (commands[i].status = "leased" /\ commands[i].expired)
          /\ commands'[i] = LeasedRow(commands[i].key, o)
          /\ \A j \in DOMAIN commands : j # i =>
                \/ commands'[j] = commands[j]
                \/ commands[j].status = "leased" /\ commands[j].expired
        BY <1>0, <1>6, LeaseRows
    (* Whoever works on row i already may be overtaken by the clock. *)
    <2>4. \A p \in Owner, m \in Loop : AtWork(p, m) /\ Job(p, m) = i => m \in MayLapse
        BY <2>3 DEF ExclusiveInv, WorkIsLeased, HoldsLease, Finished
    <2>5. WorkIsLeased'
        <3> SUFFICES ASSUME NEW p \in Owner, NEW m \in Loop \ MayLapse, AtWork(p, m)'
                     PROVE  (\/ Finished(commands[Job(p, m)])
                             \/ HoldsLease(p, Job(p, m)) /\ ~commands[Job(p, m)].expired)'
            BY DEF WorkIsLeased
        <3>1. CASE p = o /\ m = l
            BY <2>2, <2>3, <3>1 DEF Job, HoldsLease, LeasedRow
        <3>2. CASE <<p, m>> # <<o, l>>
            <4>1. AtWork(p, m) /\ Job(p, m)' = Job(p, m) /\ Job(p, m) \in DOMAIN commands
                BY <1>0, <2>2, <3>2 DEF AtWork, Job, TypeInv, JobExists
            <4>2. Job(p, m) # i
                BY <2>4, <4>1
            <4>3. \/ Finished(commands[Job(p, m)])
                  \/ HoldsLease(p, Job(p, m)) /\ ~commands[Job(p, m)].expired
                BY <4>1 DEF ExclusiveInv, WorkIsLeased
            <4>4. commands'[Job(p, m)] = commands[Job(p, m)]
                BY <2>3, <4>1, <4>2, <4>3 DEF Finished
            <4> QED
                BY <4>1, <4>3, <4>4 DEF Finished, HoldsLease
        <3> QED
            BY <3>1, <3>2
    <2>6. ExclusiveWork'
        <3> SUFFICES ASSUME NEW p \in Owner, NEW q \in Owner, NEW m \in Loop, NEW n \in Loop,
                            NEW j \in (DOMAIN commands)',
                            WorksOn(p, m, j)', WorksOn(q, n, j)', <<p, m>> # <<q, n>>
                     PROVE  {m, n} \cap MayLapse # {}
            BY DEF ExclusiveWork
        <3>1. CASE <<p, m>> = <<o, l>> \/ <<q, n>> = <<o, l>>
            BY <2>2, <2>4, <3>1 DEF WorksOn, AtWork, Job
        <3>2. CASE <<p, m>> # <<o, l>> /\ <<q, n>> # <<o, l>>
            <4>1. WorksOn(p, m, j) /\ WorksOn(q, n, j) /\ j \in DOMAIN commands
                BY <1>0, <2>2, <3>2 DEF WorksOn, TypeInv, JobExists, AtWork, Job
            <4> QED
                BY <4>1 DEF ExclusiveInv, ExclusiveWork
        <3> QED
            BY <3>1, <3>2
    <2> QED
        BY <1>0, <2>5, <2>6 DEF ExclusiveInv
<1>7. ASSUME NEW o \in Owner, NEW l \in Loop, NEW how \in {"returned", "threw"},
             WorkEnds(o, l, how)
      PROVE  ExclusiveInv'
    <2>1. loop' = [loop EXCEPT ![o][l] = [pc |-> how, job |-> loop[o][l].job]]
        BY <1>t, <1>7, LoopEnds DEF WorkEnds
    <2>2. [pc |-> how, job |-> loop[o][l].job] \in LoopState
        BY <1>t DEF LoopState, LoopPc
    <2>3. \A p \in Owner, m \in Loop : AtWork(p, m)' => AtWork(p, m) /\ Job(p, m)' = Job(p, m)
        BY <1>t, <1>7, <2>1, <2>2, LoopMoves DEF WorkEnds, ProcessEnds, AtWork, Job
    <2> QED
        BY <1>0, <1>7, <2>3, ExclusiveFrame DEF WorkEnds
<1>8. ASSUME NEW o \in Owner, NEW l \in Loop, Finish(o, l) PROVE ExclusiveInv'
    <2>1. loop[o][l].job \in DOMAIN commands
        BY <1>0, <1>8 DEF Finish, TypeInv, JobExists, AtWork, Job
    <2>2. \A i \in DOMAIN commands : commands'[i] = commands[i] \/ Finished(commands'[i])
        <3> DEFINE outcome == Outcome(loop[o][l].pc)
        <3>1. outcome \in {"completed", "failed"} /\ FinishCommand(o, loop[o][l].job, outcome)
            BY <1>8 DEF Finish, Outcome
        <3> HIDE DEF outcome
        <3>2. /\ commands'[loop[o][l].job] = ClosedRow(commands[loop[o][l].job].key, outcome)
              /\ \A j \in DOMAIN commands : j # loop[o][l].job => commands'[j] = commands[j]
            BY <1>0, <2>1, <3>1, FinishRows
        <3> QED
            BY <3>1, <3>2 DEF ClosedRow, Finished
    <2>3. \A p \in Owner, m \in Loop : AtWork(p, m)' => AtWork(p, m) /\ Job(p, m)' = Job(p, m)
        BY <1>t, <1>8 DEF Finish, AtWork, Job, Idle
    <2> QED
        BY <1>0, <2>2, <2>3, ExclusiveFrame
<1>9. ASSUME NEW o \in Owner, NEW l \in Loop, LoopExits(o, l) PROVE ExclusiveInv'
    <2>1. \A p \in Owner, m \in Loop : AtWork(p, m)' => AtWork(p, m) /\ Job(p, m)' = Job(p, m)
        BY <1>t, <1>9 DEF LoopExits, AtWork, Job, Exited
    <2> QED
        BY <1>0, <1>9, <2>1, ExclusiveFrame DEF LoopExits
<1>10. ASSUME NEW i \in DOMAIN commands, Lapse(i) PROVE ExclusiveInv'
    <2>1. \A j \in DOMAIN commands : j # i => commands'[j] = commands[j]
        BY <1>0, <1>10, ClockRows DEF Lapse, LeaseExpires
    <2>2. \A o \in Owner, l \in Loop : AtWork(o, l) /\ Job(o, l) = i => l \in MayLapse
        BY <1>10 DEF Lapse, WorksOn, AtWork, Job
    <2> QED
        BY <1>0, <1>10, <2>1, <2>2, ExclusiveFrame DEF Lapse, AtWork, Job
<1>11. CASE UNCHANGED coordinatorVars
    BY <1>0, <1>11, ExclusiveFrame DEF coordinatorVars, AtWork, Job
<1> QED
    BY <1>1, <1>2, <1>3, <1>4, <1>5, <1>6, <1>7, <1>8, <1>9, <1>10, <1>11
    DEF CoordinatorNext, Crash, LeaseMain, LeaseCancel, LoopStep, LeaseLost, Loop

(* Two loops are at work on one command only if the lease of one of them   *)
(* could run out under it.                                                 *)
THEOREM Exclusive == CoordinatorSpec => []ExclusiveWork
<1>1. ExclusiveInv => ExclusiveWork
    BY DEF ExclusiveInv
<1> QED
    BY <1>1, ExclusiveInit, ExclusiveStep, PTL DEF CoordinatorSpec

-------------------------------------------------------------------------------
(* No lease is left behind.  A process that has not started owns nothing.  *)

NewOwnsNothing ==
    \A o \in Owner : proc[o] = "new" => \A i \in DOMAIN commands : ~HoldsLease(o, i)

OrphanInv == TypeInv /\ NewOwnsNothing /\ NoOrphanedLease

LEMMA OrphanInit == CoordinatorInit => OrphanInv
<1> SUFFICES ASSUME CoordinatorInit PROVE OrphanInv
    OBVIOUS
<1>1. DOMAIN commands = {}
    BY DEF CoordinatorInit, StoreInit
<1> QED
    BY <1>1, TypeInit DEF OrphanInv, NewOwnsNothing, NoOrphanedLease

(* Nothing is left behind when no lease is taken, processes only go on or  *)
(* end, and a loop that stops working has no lease on its command.         *)
LEMMA OrphanFrame ==
    ASSUME OrphanInv, TypeInv',
           \A o \in Owner : /\ proc'[o] = "new" => proc[o] = "new"
                            /\ Running(o)' => Running(o) \/ proc[o] = "new",
           \A o \in Owner, i \in DOMAIN commands' :
               HoldsLease(o, i)' => i \in DOMAIN commands /\ HoldsLease(o, i),
           \A o \in Owner, l \in Loop, i \in DOMAIN commands :
               Running(o) /\ Running(o)' /\ WorksOn(o, l, i) /\ ~WorksOn(o, l, i)'
                   => ~HoldsLease(o, i)'
    PROVE  OrphanInv'
<1>1. NewOwnsNothing'
    BY DEF OrphanInv, NewOwnsNothing
<1>2. NoOrphanedLease'
    <2> SUFFICES ASSUME NEW o \in Owner, NEW i \in (DOMAIN commands)',
                        Running(o)', HoldsLease(o, i)'
                 PROVE  Holding(o, i)'
        BY DEF NoOrphanedLease
    <2>1. i \in DOMAIN commands /\ HoldsLease(o, i)
        OBVIOUS
    <2>2. Running(o)
        BY <2>1 DEF OrphanInv, NewOwnsNothing
    <2>3. PICK l \in Loop : WorksOn(o, l, i)
        BY <2>1, <2>2 DEF OrphanInv, NoOrphanedLease, Holding
    <2> QED
        BY <2>1, <2>2, <2>3 DEF Holding
<1> QED
    BY <1>1, <1>2 DEF OrphanInv

LEMMA OrphanStep == OrphanInv /\ [CoordinatorNext]_coordinatorVars => OrphanInv'
<1> SUFFICES ASSUME OrphanInv, [CoordinatorNext]_coordinatorVars
             PROVE  OrphanInv'
    OBVIOUS
<1>0. TypeInv' /\ TypeInv /\ CoordinatorTypeOK /\ StoreTypeOK
    BY TypeStep DEF OrphanInv, TypeInv, CoordinatorTypeOK
<1>t. /\ loop \in [Owner -> [Loop -> LoopState]]
      /\ proc \in [Owner -> ProcState]
    BY <1>0 DEF CoordinatorTypeOK
<1>1. ASSUME NEW k \in Key, Submit(k) PROVE OrphanInv'
    <2>1. \A i \in DOMAIN commands' :
              \/ i \in DOMAIN commands /\ commands'[i] = commands[i]
              \/ commands'[i].status = "queued"
        BY <1>0, <1>1, EnqueueRows DEF Submit, QueuedRow
    <2>2. \A o \in Owner, i \in DOMAIN commands' :
              HoldsLease(o, i)' => i \in DOMAIN commands /\ HoldsLease(o, i)
        BY <2>1 DEF HoldsLease
    <2> QED
        BY <1>0, <1>1, <2>2, OrphanFrame DEF Submit, Running, WorksOn
<1>2. ASSUME NEW o \in Owner, Start(o) PROVE OrphanInv'
    <2>1. \A p \in Owner : p # o => proc'[p] = proc[p] /\ loop'[p] = loop[p]
        BY <1>2, <1>t DEF Start
    <2>2. proc[o] = "new" /\ proc'[o] = "up"
        BY <1>2, <1>t DEF Start
    <2> QED
        BY <1>0, <1>2, <2>1, <2>2, OrphanFrame DEF Start, Running, WorksOn, HoldsLease
<1>3. ASSUME NEW o \in Owner, Stop(o) PROVE OrphanInv'
    BY <1>0, <1>t, <1>3, OrphanFrame DEF Stop, Running, WorksOn, HoldsLease
<1>4. ASSUME NEW o \in Owner, Die(o), UNCHANGED <<commands, runLease>> PROVE OrphanInv'
    <2>1. \A p \in Owner : p # o => proc'[p] = proc[p] /\ loop'[p] = loop[p]
        BY <1>4, <1>t DEF Die
    <2>2. proc'[o] = "down"
        BY <1>4, <1>t DEF Die
    <2> QED
        BY <1>0, <1>4, <2>1, <2>2, OrphanFrame DEF Running, WorksOn, HoldsLease
<1>5. ASSUME NEW i \in DOMAIN commands, NEW b \in BOOLEAN,
             commands' = [commands EXCEPT ![i].expired = b],
             UNCHANGED <<runLease, proc, loop>>
      PROVE  OrphanInv'
    <2>1. /\ DOMAIN commands' = DOMAIN commands
          /\ \A j \in DOMAIN commands :
                commands'[j].status = commands[j].status /\ commands'[j].owner = commands[j].owner
        BY <1>0, <1>5, ClockRows
    <2> QED
        BY <1>0, <1>5, <2>1, OrphanFrame DEF Running, WorksOn, HoldsLease
<1>6. ASSUME NEW o \in Owner, NEW l \in Loop, NEW i \in DOMAIN commands,
             LeaseNextCommand(o, i) \/ LeaseNextCancellation(o, i),
             proc[o] = "up", loop[o][l] = Idle,
             loop' = [loop EXCEPT ![o][l] = [pc |-> "working", job |-> i]],
             UNCHANGED proc
      PROVE  OrphanInv'
    <2>1. [pc |-> "working", job |-> i] \in LoopState
        BY <1>0, TableRows DEF LoopState, LoopPc
    <2>2. /\ loop'[o][l] = [pc |-> "working", job |-> i]
          /\ \A p \in Owner, m \in Loop : <<p, m>> # <<o, l>> => loop'[p][m] = loop[p][m]
        BY <1>t, <1>6, <2>1, LoopMoves
    <2>3. /\ DOMAIN commands' = DOMAIN commands
          /\ commands'[i] = LeasedRow(commands[i].key, o)
          /\ \A j \in DOMAIN commands : j # i =>
                commands'[j] = commands[j] \/ commands'[j] = QueuedRow(commands[j].key)
        BY <1>0, <1>6, LeaseRows
    <2>4. \A p \in Owner, j \in DOMAIN commands :
              HoldsLease(p, j)' => (p = o /\ j = i) \/ (j # i /\ HoldsLease(p, j))
        BY <2>3 DEF HoldsLease, LeasedRow, QueuedRow
    <2>5. NewOwnsNothing'
        BY <1>6, <2>3, <2>4 DEF OrphanInv, NewOwnsNothing
    <2>6. NoOrphanedLease'
        <3> SUFFICES ASSUME NEW p \in Owner, NEW j \in (DOMAIN commands)',
                            Running(p)', HoldsLease(p, j)'
                     PROVE  Holding(p, j)'
            BY DEF NoOrphanedLease
        <3>1. CASE p = o /\ j = i
            BY <2>2, <3>1 DEF Holding, WorksOn
        <3>2. CASE j # i /\ HoldsLease(p, j)
            <4>1. PICK m \in Loop : WorksOn(p, m, j)
                BY <1>6, <2>3, <3>2 DEF OrphanInv, NoOrphanedLease, Holding, Running
            <4>2. <<p, m>> # <<o, l>>
                BY <1>6, <4>1 DEF WorksOn, Idle
            <4> QED
                BY <2>2, <4>1, <4>2 DEF Holding, WorksOn
        <3> QED
            BY <2>3, <2>4, <3>1, <3>2
    <2> QED
        BY <1>0, <2>5, <2>6 DEF OrphanInv
<1>7. ASSUME NEW o \in Owner, NEW l \in Loop, NEW how \in {"returned", "threw"},
             WorkEnds(o, l, how)
      PROVE  OrphanInv'
    <2>1. loop' = [loop EXCEPT ![o][l] = [pc |-> how, job |-> loop[o][l].job]]
        BY <1>t, <1>7, LoopEnds DEF WorkEnds
    <2>2. [pc |-> how, job |-> loop[o][l].job] \in LoopState
        BY <1>t DEF LoopState, LoopPc
    <2>3. \A p \in Owner, m \in Loop, i \in DOMAIN commands :
              WorksOn(p, m, i) => WorksOn(p, m, i)'
        BY <1>t, <2>1, <2>2, LoopMoves DEF WorksOn
    <2> QED
        BY <1>0, <1>7, <2>3, OrphanFrame DEF WorkEnds, ProcessEnds, Running, HoldsLease
<1>8. ASSUME NEW o \in Owner, NEW l \in Loop, Finish(o, l) PROVE OrphanInv'
    <2> DEFINE i == loop[o][l].job
               outcome == Outcome(loop[o][l].pc)
    <2>1. i \in DOMAIN commands
        BY <1>0, <1>8 DEF Finish, TypeInv, JobExists, AtWork, Job
    <2>2. outcome \in {"completed", "failed"} /\ FinishCommand(o, i, outcome)
        BY <1>8 DEF Finish, Outcome
    <2>3. \A p \in Owner, m \in Loop, j \in DOMAIN commands :
              WorksOn(p, m, j) /\ ~WorksOn(p, m, j)' => j = i
        BY <1>t, <1>8 DEF Finish, WorksOn
    <2>4. UNCHANGED proc
        BY <1>8 DEF Finish
    <2> HIDE DEF i, outcome
    <2>5. /\ DOMAIN commands' = DOMAIN commands
          /\ commands'[i] = ClosedRow(commands[i].key, outcome)
          /\ \A j \in DOMAIN commands : j # i => commands'[j] = commands[j]
        BY <1>0, <2>1, <2>2, FinishRows
    <2>6. \A p \in Owner, j \in DOMAIN commands : HoldsLease(p, j)' => j # i /\ HoldsLease(p, j)
        BY <2>2, <2>5 DEF HoldsLease, ClosedRow
    <2> QED
        BY <1>0, <2>3, <2>4, <2>5, <2>6, OrphanFrame DEF Running
<1>9. ASSUME NEW o \in Owner, NEW l \in Loop, LoopExits(o, l) PROVE OrphanInv'
    <2>1. \A p \in Owner, m \in Loop, i \in DOMAIN commands :
              WorksOn(p, m, i) => WorksOn(p, m, i)'
        BY <1>t, <1>9 DEF LoopExits, WorksOn, Idle
    <2>2. \A p \in Owner : proc'[p] = proc[p] \/ (p = o /\ proc'[p] = "down")
        BY <1>t, <1>9 DEF LoopExits
    <2>3. proc[o] = "stopping" /\ UNCHANGED commands
        BY <1>9 DEF LoopExits
    <2> QED
        BY <1>0, <2>1, <2>2, <2>3, OrphanFrame DEF Running, HoldsLease
<1>10. CASE UNCHANGED coordinatorVars
    BY <1>0, <1>10, OrphanFrame DEF coordinatorVars, Running, WorksOn, HoldsLease
<1>11. ASSUME NEW o \in Owner, Renew(o) PROVE OrphanInv'
    <2>1. loop[o]["main"].job \in DOMAIN commands
        BY <1>0, <1>11 DEF Renew, Loop, TypeInv, JobExists, AtWork, Job
    <2> QED
        BY <1>5, <1>11, <2>1 DEF Renew, RenewLease
<1>12. ASSUME NEW i \in DOMAIN commands, Lapse(i) PROVE OrphanInv'
    BY <1>5, <1>12 DEF Lapse, LeaseExpires
<1>13. ASSUME NEW o \in Owner, NEW l \in Loop, LeaseLost(o, l) PROVE OrphanInv'
    BY <1>4, <1>13 DEF LeaseLost
<1> QED
    BY <1>1, <1>2, <1>3, <1>4, <1>6, <1>7, <1>8, <1>9, <1>10, <1>11, <1>12, <1>13
    DEF CoordinatorNext, Crash, LeaseMain, LeaseCancel, LoopStep, Loop

(* A lease that a running process has on a command is always in the hands  *)
(* of one of its loops.                                                    *)
THEOREM NoOrphans == CoordinatorSpec => []NoOrphanedLease
<1>1. OrphanInv => NoOrphanedLease
    BY DEF OrphanInv
<1> QED
    BY <1>1, OrphanInit, OrphanStep, PTL DEF CoordinatorSpec

-------------------------------------------------------------------------------
(* The coordinator implements the abstract queue: its initial states are   *)
(* initial states of WorkQueue, and each of its steps is a step of         *)
(* WorkQueue or leaves it unchanged.                                       *)

(* A key names one row: enqueueCommand absorbs the requests that repeat it.*)
KeysUnique ==
    \A i, j \in DOMAIN commands : commands[i].key = commands[j].key => i = j

RefinementInv == ExclusiveInv /\ KeysUnique

LEMMA RefinementInvInit == CoordinatorInit => RefinementInv
<1>1. CoordinatorInit => KeysUnique
    BY DEF CoordinatorInit, StoreInit, KeysUnique
<1> QED
    BY <1>1, ExclusiveInit DEF RefinementInv

(* What a step leaves of the keys: all of them, and one more if a command  *)
(* is enqueued.                                                            *)
SameKeys ==
    /\ DOMAIN commands' = DOMAIN commands
    /\ \A i \in DOMAIN commands : commands'[i].key = commands[i].key

LEMMA KeysStep ==
    ASSUME RefinementInv, [CoordinatorNext]_coordinatorVars
    PROVE  SameKeys \/ \E k \in Key : Submit(k)
<1>0. TypeInv /\ StoreTypeOK
    BY DEF RefinementInv, ExclusiveInv, TypeInv, CoordinatorTypeOK
<1>1. CASE UNCHANGED commands
    BY <1>1 DEF SameKeys
<1>2. ASSUME NEW i \in DOMAIN commands, NEW b \in BOOLEAN, UNCHANGED runLease,
             commands' = [commands EXCEPT ![i].expired = b]
      PROVE  SameKeys
    BY <1>0, <1>2, ClockRows DEF SameKeys
<1>3. ASSUME NEW o \in Owner, Renew(o) PROVE SameKeys
    <2>1. loop[o]["main"].job \in DOMAIN commands
        BY <1>0, <1>3 DEF Renew, Loop, TypeInv, JobExists, AtWork, Job
    <2> QED
        BY <1>2, <1>3, <2>1 DEF Renew, RenewLease
<1>4. ASSUME NEW i \in DOMAIN commands, Lapse(i) PROVE SameKeys
    BY <1>2, <1>4 DEF Lapse, LeaseExpires
<1>5. ASSUME NEW o \in Owner, NEW i \in DOMAIN commands,
             LeaseNextCommand(o, i) \/ LeaseNextCancellation(o, i)
      PROVE  SameKeys
    <2>1. /\ DOMAIN commands' = DOMAIN commands
          /\ commands'[i] = LeasedRow(commands[i].key, o)
          /\ \A j \in DOMAIN commands : j # i =>
                commands'[j] = commands[j] \/ commands'[j] = QueuedRow(commands[j].key)
        BY <1>0, <1>5, LeaseRows
    <2> QED
        BY <2>1 DEF SameKeys, LeasedRow, QueuedRow
<1>6. ASSUME NEW o \in Owner, NEW l \in Loop, Finish(o, l) PROVE SameKeys
    <2>1. loop[o][l].job \in DOMAIN commands
        BY <1>0, <1>6 DEF Finish, TypeInv, JobExists, AtWork, Job
    <2>2. PICK outcome \in {"completed", "failed"} : FinishCommand(o, loop[o][l].job, outcome)
        BY <1>6 DEF Finish, Outcome
    <2>3. /\ DOMAIN commands' = DOMAIN commands
          /\ commands'[loop[o][l].job] = ClosedRow(commands[loop[o][l].job].key, outcome)
          /\ \A j \in DOMAIN commands : j # loop[o][l].job => commands'[j] = commands[j]
        BY <1>0, <2>1, <2>2, FinishRows
    <2> QED
        BY <2>3 DEF SameKeys, ClosedRow
<1> QED
    BY <1>1, <1>3, <1>4, <1>5, <1>6
    DEF CoordinatorNext, coordinatorVars, Start, Stop, Crash, LeaseMain, LeaseCancel, LoopStep,
        WorkEnds, LeaseLost, LoopExits

LEMMA RefinementInvStep ==
    RefinementInv /\ [CoordinatorNext]_coordinatorVars => RefinementInv'
<1> SUFFICES ASSUME RefinementInv, [CoordinatorNext]_coordinatorVars PROVE KeysUnique'
    BY ExclusiveStep DEF RefinementInv
<1>0. StoreTypeOK
    BY DEF RefinementInv, ExclusiveInv, TypeInv, CoordinatorTypeOK
<1>1. CASE SameKeys
    BY <1>1 DEF SameKeys, RefinementInv, KeysUnique
<1>2. ASSUME NEW k \in Key, Submit(k) PROVE KeysUnique'
    <2>1. CASE \E i \in DOMAIN commands : commands[i].key = k
        BY <1>2, <2>1 DEF Submit, Enqueue, RefinementInv, KeysUnique
    <2>2. CASE \A i \in DOMAIN commands : commands[i].key # k
        <3>1. \A i \in DOMAIN commands' : i \notin DOMAIN commands => i = Len(commands) + 1
            BY <1>0, <1>2, <2>2, TableRows DEF Submit, Enqueue, StoreTypeOK
        <3>2. /\ \A i \in DOMAIN commands : commands'[i] = commands[i]
              /\ \A i \in DOMAIN commands' : i \notin DOMAIN commands => commands'[i].key = k
            BY <1>0, <1>2, EnqueueRows DEF Submit, QueuedRow
        <3> QED
            BY <2>2, <3>1, <3>2 DEF RefinementInv, KeysUnique
    <2> QED
        BY <2>1, <2>2
<1> QED
    BY <1>1, <1>2, KeysStep

-------------------------------------------------------------------------------
(* Frames: what the abstract state depends on. *)

Pending(i) == commands[i].status \in {"queued", "leased"}

(* A step that leaves the keys and the fate of every row alone is a        *)
(* stuttering step of the job states.                                      *)
LEMMA StateFrame ==
    ASSUME SameKeys,
           \A i \in DOMAIN commands :
               \/ commands'[i].status = commands[i].status
               \/ Pending(i) /\ Pending(i)'
    PROVE  UNCHANGED jobState
<1>1. \A k \in Key : KeyRows(k)' = KeyRows(k)
    BY DEF SameKeys, KeyRows
<1>2. \A k \in Key : JobState(k)' = JobState(k)
    <2> SUFFICES ASSUME NEW k \in Key PROVE JobState(k)' = JobState(k)
        OBVIOUS
    <2>1. KeyRows(k)' = KeyRows(k) /\ KeyRows(k) \subseteq DOMAIN commands
        BY <1>1 DEF KeyRows
    <2>2. (\E i \in KeyRows(k) : Pending(i))' <=> \E i \in KeyRows(k) : Pending(i)
        BY <2>1 DEF Pending
    <2>3. (\E i \in KeyRows(k) : commands[i].status = "completed")'
              <=> \E i \in KeyRows(k) : commands[i].status = "completed"
        BY <2>1 DEF Pending
    <2> QED
        BY <2>1, <2>2, <2>3 DEF JobState, Pending
<1> QED
    BY <1>2 DEF jobState

(* Workers that only stop working vanish from the abstract queue.          *)
LEMMA WorkersVanish ==
    ASSUME TypeInv, SameKeys,
           NEW W \in SUBSET (Owner \X Loop),
           \A p \in Owner, m \in Loop : \A i \in DOMAIN commands :
               WorksOn(p, m, i)' <=> WorksOn(p, m, i) /\ <<p, m>> \notin W
    PROVE  jobWorkers' = [k \in Key |-> jobWorkers[k] \ W]
<1>1. \A k \in Key : KeyRows(k)' = KeyRows(k) /\ KeyRows(k) \subseteq DOMAIN commands
    BY DEF SameKeys, KeyRows
<1>2. \A k \in Key : JobWorkers(k)' = JobWorkers(k) \ W
    BY <1>1 DEF JobWorkers
<1> QED
    BY <1>2 DEF jobWorkers

LEMMA WorkersFrame ==
    ASSUME TypeInv, SameKeys,
           \A p \in Owner, m \in Loop : \A i \in DOMAIN commands :
               WorksOn(p, m, i)' <=> WorksOn(p, m, i)
    PROVE  UNCHANGED jobWorkers
<1>1. \A k \in Key : KeyRows(k)' = KeyRows(k) /\ KeyRows(k) \subseteq DOMAIN commands
    BY DEF SameKeys, KeyRows
<1>2. \A k \in Key : JobWorkers(k)' = JobWorkers(k)
    BY <1>1 DEF JobWorkers
<1> QED
    BY <1>2 DEF jobWorkers

-------------------------------------------------------------------------------
(* The steps. *)

LEMMA AcceptStep ==
    ASSUME RefinementInv, NEW k \in Key, Submit(k)
    PROVE  WQ!Accept(k) \/ UNCHANGED <<jobState, jobWorkers>>
<1>0. TypeInv /\ StoreTypeOK
    BY DEF RefinementInv, ExclusiveInv, TypeInv, CoordinatorTypeOK
<1>l. UNCHANGED loop
    BY DEF Submit
<1>1. CASE \E i \in DOMAIN commands : commands[i].key = k
    <2>1. UNCHANGED commands
        BY <1>1 DEF Submit, Enqueue
    <2> QED
        BY <1>0, <1>l, <2>1, StateFrame, WorkersFrame DEF SameKeys, WorksOn
<1>2. CASE \A i \in DOMAIN commands : commands[i].key # k
    <2>1. PICK n : /\ n \notin DOMAIN commands
                   /\ DOMAIN commands' = DOMAIN commands \cup {n}
                   /\ commands'[n] = QueuedRow(k)
                   /\ \A i \in DOMAIN commands : commands'[i] = commands[i]
        <3>1. commands' = Append(commands, QueuedRow(k))
            BY <1>2 DEF Submit, Enqueue
        <3>2. /\ Len(commands) + 1 \notin DOMAIN commands
              /\ DOMAIN commands' = DOMAIN commands \cup {Len(commands) + 1}
              /\ commands'[Len(commands) + 1] = QueuedRow(k)
            BY <1>0, <3>1, TableRows DEF StoreTypeOK
        <3> QED
            BY <1>0, <3>2, EnqueueRows DEF Submit
    <2>2. /\ KeyRows(k) = {} /\ KeyRows(k)' = {n}
          /\ \A j \in Key : j # k => KeyRows(j)' = KeyRows(j)
          /\ \A j \in Key : KeyRows(j) \subseteq DOMAIN commands
        BY <1>2, <2>1 DEF KeyRows, QueuedRow
    <2>3. JobState(k) = "absent" /\ JobState(k)' = "pending"
        BY <2>1, <2>2 DEF JobState, QueuedRow
    <2>4. \A j \in Key : j # k => JobState(j)' = JobState(j)
        BY <2>1, <2>2 DEF JobState
    <2>5. \A p \in Owner, m \in Loop : ~WorksOn(p, m, n)
        BY <1>0, <2>1 DEF TypeInv, JobExists, AtWork, Job, WorksOn
    <2>6. \A j \in Key : JobWorkers(j)' = JobWorkers(j)
        BY <1>l, <2>2, <2>5 DEF JobWorkers, WorksOn
    <2>7. jobState[k] = "absent" /\ jobState' = [jobState EXCEPT ![k] = "pending"]
        BY <2>3, <2>4 DEF jobState
    <2>8. UNCHANGED jobWorkers
        BY <2>6 DEF jobWorkers
    <2> QED
        BY <2>7, <2>8 DEF WQ!Accept
<1> QED
    BY <1>1, <1>2

LEMMA BeginStep ==
    ASSUME RefinementInv, NEW o \in Owner, NEW l \in Loop, NEW i \in DOMAIN commands,
           LeaseNextCommand(o, i) \/ LeaseNextCancellation(o, i),
           loop[o][l] = Idle,
           loop' = [loop EXCEPT ![o][l] = [pc |-> "working", job |-> i]]
    PROVE  \E k \in Key : WQ!Begin(k, <<o, l>>)
<1>0. /\ TypeInv /\ StoreTypeOK /\ ExclusiveInv /\ KeysUnique
      /\ loop \in [Owner -> [Loop -> LoopState]]
    BY DEF RefinementInv, ExclusiveInv, TypeInv, CoordinatorTypeOK
<1> DEFINE k == commands[i].key
<1>1. k \in Key /\ KeyRows(k) = {i}
    BY <1>0, TableRows DEF KeyRows, KeysUnique, Row
<1>2. /\ DOMAIN commands' = DOMAIN commands
      /\ commands[i].status = "queued" \/ (commands[i].status = "leased" /\ commands[i].expired)
      /\ commands'[i] = LeasedRow(k, o)
      /\ \A j \in DOMAIN commands : j # i =>
            \/ commands'[j] = commands[j]
            \/ commands[j].status = "leased" /\ commands'[j] = QueuedRow(commands[j].key)
    BY <1>0, LeaseRows
<1>3. SameKeys
    BY <1>2 DEF SameKeys, LeasedRow, QueuedRow
<1>4. \A j \in DOMAIN commands :
          \/ commands'[j].status = commands[j].status
          \/ Pending(j) /\ Pending(j)'
    BY <1>2 DEF Pending, LeasedRow, QueuedRow
<1>5. UNCHANGED jobState
    BY <1>3, <1>4, StateFrame
<1>6. \A p \in Owner, m \in Loop : WorksOn(p, m, i) => m \in MayLapse
    BY <1>0, <1>2 DEF ExclusiveInv, WorkIsLeased, HoldsLease, Finished, WorksOn, AtWork, Job
<1>7. [pc |-> "working", job |-> i] \in LoopState
    BY <1>0, TableRows DEF LoopState, LoopPc
<1>8. /\ loop'[o][l] = [pc |-> "working", job |-> i]
      /\ \A p \in Owner, m \in Loop : <<p, m>> # <<o, l>> => loop'[p][m] = loop[p][m]
    BY <1>0, <1>7, LoopMoves
<1>9. \A p \in Owner, m \in Loop : \A j \in DOMAIN commands :
          WorksOn(p, m, j)' <=> WorksOn(p, m, j) \/ (<<p, m>> = <<o, l>> /\ j = i)
    BY <1>8 DEF WorksOn, Idle
<1>10. \A q \in Key : KeyRows(q)' = KeyRows(q) /\ KeyRows(q) \subseteq DOMAIN commands
    BY <1>3 DEF SameKeys, KeyRows
<1>11. \A q \in Key : i \in KeyRows(q) => q = k
    BY DEF KeyRows
<1>12. \A q \in Key : <<o, l>> \notin JobWorkers(q)
    BY DEF JobWorkers, WorksOn, Idle
<1> HIDE DEF k
<1>13. \A q \in Key : JobWorkers(q)' = IF q = k THEN JobWorkers(q) \cup {<<o, l>>}
                                                 ELSE JobWorkers(q)
    <2> SUFFICES ASSUME NEW q \in Key, NEW p \in Owner, NEW m \in Loop
                 PROVE  <<p, m>> \in JobWorkers(q)' <=>
                            <<p, m>> \in JobWorkers(q) \/ (q = k /\ <<p, m>> = <<o, l>>)
        BY DEF JobWorkers
    <2>1. <<p, m>> \in JobWorkers(q)' <=> \E j \in KeyRows(q) : WorksOn(p, m, j)'
        BY <1>10 DEF JobWorkers
    <2>2. <<p, m>> \in JobWorkers(q) <=> \E j \in KeyRows(q) : WorksOn(p, m, j)
        BY DEF JobWorkers
    <2> QED
        BY <1>1, <1>9, <1>10, <1>11, <2>1, <2>2
<1>14. jobWorkers' = [jobWorkers EXCEPT ![k] = @ \cup {<<o, l>>}]
    BY <1>1, <1>13 DEF jobWorkers
<1>15. jobState[k] = "pending"
    BY <1>1, <1>2 DEF jobState, JobState
<1>16. MayLapse = {} => jobWorkers[k] = {}
    <2> SUFFICES ASSUME MayLapse = {} PROVE JobWorkers(k) = {}
        BY <1>1 DEF jobWorkers
    <2> QED
        BY <1>1, <1>6 DEF JobWorkers
<1>17. \A q \in Key : <<o, l>> \notin jobWorkers[q]
    BY <1>12 DEF jobWorkers
<1> QED
    BY <1>1, <1>5, <1>14, <1>15, <1>16, <1>17 DEF WQ!Begin

LEMMA EndStep ==
    ASSUME RefinementInv, NEW o \in Owner, NEW l \in Loop, Finish(o, l)
    PROVE  \E k \in Key, outcome \in {"completed", "failed"} : WQ!End(k, <<o, l>>, outcome)
<1>0. /\ TypeInv /\ StoreTypeOK /\ KeysUnique
      /\ loop \in [Owner -> [Loop -> LoopState]]
    BY DEF RefinementInv, ExclusiveInv, TypeInv, CoordinatorTypeOK
<1>i. PICK i \in DOMAIN commands : i = loop[o][l].job
    BY <1>0 DEF Finish, TypeInv, JobExists, AtWork, Job
<1>k. PICK k \in Key : k = commands[i].key
    BY <1>0, TableRows DEF Row
<1>1. WorksOn(o, l, i)
    BY <1>i DEF Finish, WorksOn
<1>2. PICK outcome \in {"completed", "failed"} : FinishCommand(o, i, outcome)
    BY <1>i DEF Finish, Outcome
<1>3. KeyRows(k) = {i}
    BY <1>0, <1>k DEF KeyRows, KeysUnique
<1>4. commands[i].status = "leased"
    BY <1>2 DEF FinishCommand, HoldsLease
<1>5. \A p \in Owner, m \in Loop : \A j \in DOMAIN commands :
          WorksOn(p, m, j)' <=> WorksOn(p, m, j) /\ <<p, m>> # <<o, l>>
    BY <1>0 DEF Finish, WorksOn, Idle
<1>6. \A q \in Key : i \in KeyRows(q) => q = k
    BY <1>k DEF KeyRows
<1>7. \A q \in Key : <<o, l>> \in JobWorkers(q) => q = k
    BY <1>i, <1>k DEF JobWorkers, KeyRows, WorksOn
<1>8. /\ DOMAIN commands' = DOMAIN commands
      /\ commands'[i] = ClosedRow(k, outcome)
      /\ \A j \in DOMAIN commands : j # i => commands'[j] = commands[j]
    BY <1>0, <1>2, <1>k, FinishRows
<1>9. \A q \in Key : KeyRows(q)' = KeyRows(q) /\ KeyRows(q) \subseteq DOMAIN commands
    BY <1>8, <1>k DEF KeyRows, ClosedRow
<1>10. JobState(k) = "pending" /\ JobState(k)' = outcome
    <2>1. commands'[i].status = outcome
        BY <1>8 DEF ClosedRow
    <2>2. KeyRows(k) = {i} /\ KeyRows(k)' = {i}
        BY <1>3, <1>9
    <2>3. JobState(k) = "pending"
        BY <1>4, <2>2 DEF JobState
    <2>4. JobState(k)' = outcome
        BY <2>1, <2>2 DEF JobState
    <2> QED
        BY <2>3, <2>4
<1>11. \A q \in Key : q # k => JobState(q)' = JobState(q)
    BY <1>6, <1>8, <1>9 DEF JobState
<1>12. \A q \in Key : JobWorkers(q)' = JobWorkers(q) \ {<<o, l>>}
    BY <1>5, <1>9 DEF JobWorkers
<1>13. jobState[k] = "pending" /\ jobState' = [jobState EXCEPT ![k] = outcome]
    <2>1. \A q \in Key : JobState(q)' = IF q = k THEN outcome ELSE JobState(q)
        BY <1>10, <1>11
    <2> QED
        BY <1>3, <1>10, <2>1 DEF jobState
<1>14. jobWorkers' = [jobWorkers EXCEPT ![k] = @ \ {<<o, l>>}]
    BY <1>3, <1>7, <1>12 DEF jobWorkers
<1>15. <<o, l>> \in jobWorkers[k]
    BY <1>1, <1>3 DEF jobWorkers, JobWorkers
<1> QED
    BY <1>3, <1>13, <1>14, <1>15 DEF WQ!End

(* The loops of one process forget their commands, or had none. *)
LEMMA VanishStep ==
    ASSUME RefinementInv, NEW o \in Owner, NEW st \in {Idle, Exited},
           loop' = [loop EXCEPT ![o] = [l \in Loop |-> st]],
           UNCHANGED <<commands, runLease>>
    PROVE  UNCHANGED jobState /\ \E W \in SUBSET (Owner \X Loop) : WQ!Vanish(W)
<1>0. TypeInv /\ loop \in [Owner -> [Loop -> LoopState]]
    BY DEF RefinementInv, ExclusiveInv, TypeInv, CoordinatorTypeOK
<1>1. SameKeys /\ UNCHANGED jobState
    BY StateFrame DEF SameKeys
<1> DEFINE W == {o} \X Loop
<1>2. W \in SUBSET (Owner \X Loop)
    OBVIOUS
<1>3. \A p \in Owner, m \in Loop : loop'[p][m] = IF p = o THEN st ELSE loop[p][m]
    BY <1>0
<1>4. st.pc \notin {"working", "returned", "threw"}
    BY DEF Idle, Exited
<1>5. \A p \in Owner, m \in Loop : \A i \in DOMAIN commands :
          WorksOn(p, m, i)' <=> WorksOn(p, m, i) /\ <<p, m>> \notin W
    BY <1>3, <1>4 DEF WorksOn
<1> HIDE DEF W
<1>6. jobWorkers' = [k \in Key |-> jobWorkers[k] \ W]
    BY <1>0, <1>1, <1>2, <1>5, WorkersVanish
<1> QED
    BY <1>1, <1>2, <1>6 DEF WQ!Vanish

(* A step that changes no status and no worker stutters. *)
LEMMA StutterStep ==
    ASSUME RefinementInv, DOMAIN commands' = DOMAIN commands,
           \A i \in DOMAIN commands : /\ commands'[i].key = commands[i].key
                                      /\ commands'[i].status = commands[i].status,
           \A p \in Owner, m \in Loop : \A i \in DOMAIN commands :
               WorksOn(p, m, i)' <=> WorksOn(p, m, i)
    PROVE  UNCHANGED <<jobState, jobWorkers>>
<1>1. SameKeys
    BY DEF SameKeys
<1> QED
    BY <1>1, StateFrame, WorkersFrame DEF RefinementInv, ExclusiveInv

LEMMA RefinementInit == CoordinatorInit => WQ!Init
<1> SUFFICES ASSUME CoordinatorInit PROVE WQ!Init
    OBVIOUS
<1>1. \A k \in Key : KeyRows(k) = {}
    BY DEF CoordinatorInit, StoreInit, KeyRows
<1> QED
    BY <1>1 DEF WQ!Init, jobState, jobWorkers, JobState, JobWorkers

LEMMA RefinementStep ==
    RefinementInv /\ [CoordinatorNext]_coordinatorVars => [WQ!Next]_(WQ!queueVars)
<1> SUFFICES ASSUME RefinementInv, [CoordinatorNext]_coordinatorVars
             PROVE  WQ!Next \/ UNCHANGED <<jobState, jobWorkers>>
    BY DEF WQ!queueVars
<1>0. /\ TypeInv /\ StoreTypeOK
      /\ loop \in [Owner -> [Loop -> LoopState]]
    BY DEF RefinementInv, ExclusiveInv, TypeInv, CoordinatorTypeOK
<1>1. ASSUME NEW k \in Key, Submit(k) PROVE WQ!Next \/ UNCHANGED <<jobState, jobWorkers>>
    BY <1>1, AcceptStep DEF WQ!Next
<1>2. ASSUME NEW o \in Owner, Start(o) PROVE WQ!Next
    BY <1>2, VanishStep DEF Start, WQ!Next
<1>3. ASSUME NEW o \in Owner, Die(o), UNCHANGED <<commands, runLease>> PROVE WQ!Next
    BY <1>3, VanishStep DEF Die, WQ!Next
<1>4. ASSUME NEW o \in Owner, Stop(o) PROVE UNCHANGED <<jobState, jobWorkers>>
    BY <1>4, StutterStep DEF Stop, WorksOn
<1>5. ASSUME NEW i \in DOMAIN commands, NEW b \in BOOLEAN,
             commands' = [commands EXCEPT ![i].expired = b],
             UNCHANGED <<runLease, loop>>
      PROVE  UNCHANGED <<jobState, jobWorkers>>
    <2>1. /\ DOMAIN commands' = DOMAIN commands
          /\ \A j \in DOMAIN commands : /\ commands'[j].key = commands[j].key
                                         /\ commands'[j].status = commands[j].status
        BY <1>0, <1>5, ClockRows
    <2> QED
        BY <1>5, <2>1, StutterStep DEF WorksOn
<1>6. ASSUME NEW o \in Owner, Renew(o) PROVE UNCHANGED <<jobState, jobWorkers>>
    <2>1. loop[o]["main"].job \in DOMAIN commands
        BY <1>0, <1>6 DEF Renew, Loop, TypeInv, JobExists, AtWork, Job
    <2> QED
        BY <1>5, <1>6, <2>1 DEF Renew, RenewLease
<1>7. ASSUME NEW i \in DOMAIN commands, Lapse(i) PROVE UNCHANGED <<jobState, jobWorkers>>
    BY <1>5, <1>7 DEF Lapse, LeaseExpires
<1>8. ASSUME NEW o \in Owner, NEW l \in Loop, NEW i \in DOMAIN commands,
             LeaseNextCommand(o, i) \/ LeaseNextCancellation(o, i),
             loop[o][l] = Idle,
             loop' = [loop EXCEPT ![o][l] = [pc |-> "working", job |-> i]]
      PROVE  WQ!Next
    BY <1>8, BeginStep DEF WQ!Next
<1>9. ASSUME NEW o \in Owner, NEW l \in Loop, Finish(o, l) PROVE WQ!Next
    BY <1>9, EndStep DEF WQ!Next
<1>10. ASSUME NEW o \in Owner, NEW l \in Loop, NEW how \in {"returned", "threw"},
              WorkEnds(o, l, how)
       PROVE  UNCHANGED <<jobState, jobWorkers>>
    <2>1. loop' = [loop EXCEPT ![o][l] = [pc |-> how, job |-> loop[o][l].job]]
        BY <1>0, <1>10, LoopEnds DEF WorkEnds
    <2>2. [pc |-> how, job |-> loop[o][l].job] \in LoopState
        BY <1>0 DEF LoopState, LoopPc
    <2>3. \A p \in Owner, m \in Loop : \A i \in DOMAIN commands :
              WorksOn(p, m, i)' <=> WorksOn(p, m, i)
        BY <1>0, <1>10, <2>1, <2>2, LoopMoves DEF WorkEnds, ProcessEnds, WorksOn
    <2> QED
        BY <1>10, <2>3, StutterStep DEF WorkEnds
<1>11. ASSUME NEW o \in Owner, NEW l \in Loop, LoopExits(o, l)
       PROVE  UNCHANGED <<jobState, jobWorkers>>
    <2>1. \A p \in Owner, m \in Loop : \A i \in DOMAIN commands :
              WorksOn(p, m, i)' <=> WorksOn(p, m, i)
        BY <1>0, <1>11 DEF LoopExits, WorksOn, Idle, Exited
    <2> QED
        BY <1>11, <2>1, StutterStep DEF LoopExits
<1>12. CASE UNCHANGED coordinatorVars
    BY <1>12, StutterStep DEF coordinatorVars, WorksOn
<1> QED
    BY <1>1, <1>2, <1>3, <1>4, <1>6, <1>7, <1>8, <1>9, <1>10, <1>11, <1>12
    DEF CoordinatorNext, Crash, LeaseMain, LeaseCancel, LoopStep, LeaseLost, Loop

(* Leases, expiry, renewals, stops and crashes keep the promise of         *)
(* WorkQueue: a repeated request adds nothing, a command ends once, by a   *)
(* worker that began it, and is never begun again; and when no lease runs  *)
(* out under a live worker, it has at most one worker at a time.           *)
THEOREM Implements == CoordinatorSpec => ImplementsWorkQueue
<1>1. CoordinatorInit => WQ!Init
    BY RefinementInit
<1>2. RefinementInv /\ [CoordinatorNext]_coordinatorVars => [WQ!Next]_(WQ!queueVars)
    BY RefinementStep
<1> QED
    BY <1>1, <1>2, RefinementInvInit, RefinementInvStep, PTL
    DEF CoordinatorSpec, ImplementsWorkQueue, WQ!Spec
===============================================================================
