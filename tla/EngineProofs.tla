------------------------------ MODULE EngineProofs ------------------------------
(***************************************************************************)
(* Proofs about RunEngine, for any number of steps, requests, gates and    *)
(* processes, any commands of the operator and any faults.                 *)
(*                                                                         *)
(* The engine sees the command table through an instance of Coordinator,   *)
(* whose theorems are about Coordinator's own steps; what the table does   *)
(* under the steps of the engine is stated here in the first section.      *)
(***************************************************************************)
EXTENDS RunEngineProperties, SequenceTheorems, TLAPS

-------------------------------------------------------------------------------
(* The table. *)

LEMMA TableRows ==
    ASSUME StoreTypeOK
    PROVE  /\ DOMAIN commands = 1..Len(commands)
           /\ Len(commands) \in Nat
           /\ commands \in [DOMAIN commands -> Row]
    BY DEF StoreTypeOK

LEMMA RowsTable ==
    ASSUME StoreTypeOK, NEW t, t \in [DOMAIN commands -> Row]
    PROVE  t \in Seq(Row)
    BY TableRows, SeqDef

(* Enqueue keeps the rows, and appends a queued one if the key is new.     *)
LEMMA EnqueueRows ==
    ASSUME StoreTypeOK, NEW k \in EngineKey, Enqueue(k)
    PROVE  /\ StoreTypeOK'
           /\ DOMAIN commands \subseteq DOMAIN commands'
           /\ \A i \in DOMAIN commands : commands'[i] = commands[i]
           /\ \A i \in DOMAIN commands' : i \notin DOMAIN commands => commands'[i] = QueuedRow(k)
           /\ \/ \E i \in DOMAIN commands : commands[i].key = k
              \/ \E i \in DOMAIN commands' : i \notin DOMAIN commands
<1>1. CASE \E i \in DOMAIN commands : commands[i].key = k
    BY <1>1 DEF StoreTypeOK, Enqueue
<1>2. CASE ~\E i \in DOMAIN commands : commands[i].key = k
    <2>1. QueuedRow(k) \in Row
        BY DEF QueuedRow, Row, Status
    <2>2. commands' = Append(commands, QueuedRow(k))
        BY <1>2 DEF Enqueue
    <2>3. commands \in Seq(Row) /\ commands' \in Seq(Row)
        BY <2>1, <2>2 DEF StoreTypeOK
    <2>4. /\ DOMAIN commands' = 1..(Len(commands) + 1)
          /\ \A i \in 1..Len(commands) : commands'[i] = commands[i]
          /\ commands'[Len(commands) + 1] = QueuedRow(k)
        BY <2>1, <2>2, <2>3
    <2>5. StoreTypeOK'
        BY <2>3 DEF StoreTypeOK, Enqueue
    <2> QED
        BY <2>4, <2>5, TableRows
<1> QED
    BY <1>1, <1>2

(* A lease goes to one row that was queued or whose lease had expired; of  *)
(* the other rows only expired leases change, back into queued rows.       *)
LEMMA LeaseRows ==
    ASSUME StoreTypeOK, NEW o \in Owner, NEW i \in DOMAIN commands,
           LeaseNextCommand(o, i) \/ LeaseNextCancellation(o, i)
    PROVE  /\ StoreTypeOK'
           /\ DOMAIN commands' = DOMAIN commands
           /\ commands[i].status = "queued" \/ (commands[i].status = "leased" /\ commands[i].expired)
           /\ commands'[i] = LeasedRow(commands[i].key, o)
           /\ LeaseNextCancellation(o, i) => IsCancel(commands[i])
           /\ \A j \in DOMAIN commands : j # i =>
                 \/ commands'[j] = commands[j]
                 \/ /\ commands[j].status = "leased" /\ commands[j].expired
                    /\ commands'[j] = QueuedRow(commands[j].key)
<1>1. PICK onlyCancel \in BOOLEAN :
          /\ IsNext(Reclaimed(onlyCancel), onlyCancel, i)
          /\ LeaseNextCancellation(o, i) => onlyCancel \/ LeaseNextCommand(o, i)
          /\ commands' = [Reclaimed(onlyCancel) EXCEPT
                            ![i] = LeasedRow(Reclaimed(onlyCancel)[i].key, o)]
    BY DEF LeaseNextCommand, LeaseNextCancellation
<1> DEFINE table == Reclaimed(onlyCancel)
<1>2. /\ table \in [DOMAIN commands -> Row]
      /\ \A j \in DOMAIN commands :
            \/ table[j] = commands[j]
            \/ /\ commands[j].status = "leased" /\ commands[j].expired
               /\ table[j] = QueuedRow(commands[j].key)
    <2>1. \A j \in DOMAIN commands :
              commands[j] \in Row /\ QueuedRow(commands[j].key) \in Row
        BY TableRows DEF Row, QueuedRow, Status
    <2> QED
        BY <2>1 DEF Reclaimed
<1>3. table[i].status = "queued"
    BY <1>1 DEF IsNext
<1>4. table[i].key = commands[i].key /\ commands[i].key \in EngineKey
    BY <1>2, TableRows DEF QueuedRow, Row
<1>5. commands' = [table EXCEPT ![i] = LeasedRow(commands[i].key, o)]
    BY <1>1, <1>4
<1>6. LeasedRow(commands[i].key, o) \in Row
    BY <1>4 DEF LeasedRow, Row, Status
<1>c. LeaseNextCancellation(o, i) => IsCancel(commands[i])
    <2>1. ASSUME LeaseNextCancellation(o, i) PROVE IsCancel(Reclaimed(TRUE)[i])
        BY <2>1 DEF LeaseNextCancellation, IsNext
    <2>2. Reclaimed(TRUE)[i].key = commands[i].key
        BY DEF Reclaimed, QueuedRow
    <2> QED
        BY <2>1, <2>2 DEF IsCancel
<1> HIDE DEF table
<1>7. /\ commands' \in [DOMAIN commands -> Row]
      /\ commands'[i] = LeasedRow(commands[i].key, o)
      /\ \A j \in DOMAIN commands : j # i => commands'[j] = table[j]
    BY <1>2, <1>5, <1>6
<1>8. runLease' \in [{TheRun} -> Owner \cup {NoOwner}]
    <2>1. CASE UNCHANGED runLease
        BY <2>1 DEF StoreTypeOK
    <2>2. CASE \E r : runLease' = [runLease EXCEPT ![r] = o]
        BY <2>2 DEF StoreTypeOK
    <2> QED
        BY <2>1, <2>2 DEF LeaseNextCommand, LeaseNextCancellation
<1>9. StoreTypeOK'
    BY <1>7, <1>8, RowsTable DEF StoreTypeOK
<1>10. commands[i].status = "queued" \/ (commands[i].status = "leased" /\ commands[i].expired)
    BY <1>2, <1>3
<1> QED
    BY <1>2, <1>7, <1>9, <1>10, <1>c

(* Finishing closes one row, expiring changes its clock only.              *)
LEMMA FinishRows ==
    ASSUME StoreTypeOK, NEW o \in Owner, NEW i \in DOMAIN commands,
           NEW outcome \in {"completed", "failed"}, FinishCommand(o, i, outcome)
    PROVE  /\ StoreTypeOK'
           /\ DOMAIN commands' = DOMAIN commands
           /\ commands'[i] = ClosedRow(commands[i].key, outcome)
           /\ \A j \in DOMAIN commands : j # i => commands'[j] = commands[j]
<1>1. ClosedRow(commands[i].key, outcome) \in Row
    BY TableRows DEF ClosedRow, Row, Status
<1>2. commands' = [commands EXCEPT ![i] = ClosedRow(commands[i].key, outcome)]
    BY DEF FinishCommand
<1>3. commands' \in [DOMAIN commands -> Row]
    BY <1>1, <1>2, TableRows
<1>4. runLease' \in [{TheRun} -> Owner \cup {NoOwner}]
    BY DEF FinishCommand, StoreTypeOK
<1> QED
    BY <1>2, <1>3, <1>4, RowsTable DEF StoreTypeOK

LEMMA ExpireRows ==
    ASSUME StoreTypeOK, NEW i \in DOMAIN commands, LeaseExpires(i)
    PROVE  /\ StoreTypeOK'
           /\ DOMAIN commands' = DOMAIN commands
           /\ commands[i].status = "leased"
           /\ \A j \in DOMAIN commands :
                 /\ commands'[j].status = commands[j].status
                 /\ commands'[j].key = commands[j].key
                 /\ j # i => commands'[j] = commands[j]
<1>1. commands[i] \in Row
    BY TableRows
<1> DEFINE row == [commands[i] EXCEPT !.expired = TRUE]
<1>2. row \in Row /\ row.status = commands[i].status /\ row.key = commands[i].key
    BY <1>1 DEF Row
<1>3. commands' = [commands EXCEPT ![i] = row] /\ UNCHANGED runLease /\ commands[i].status = "leased"
    BY DEF LeaseExpires
<1> HIDE DEF row
<1>4. /\ commands' \in [DOMAIN commands -> Row]
      /\ commands'[i] = row
      /\ \A j \in DOMAIN commands : j # i => commands'[j] = commands[j]
    BY <1>2, <1>3, TableRows
<1>5. StoreTypeOK'
    BY <1>3, <1>4, RowsTable DEF StoreTypeOK
<1> QED
    BY <1>2, <1>3, <1>4, <1>5

-------------------------------------------------------------------------------
(* The inductive invariant. *)

(* Points at which a loop has read nothing of the run that it will use.    *)
Parked == {"none", "dispatch", "destroy"}

Busy(o, l) == loop[o][l].pc \in {"working", "returned", "threw"}

(* One process runs, and only its loops and its handler do anything.  The  *)
(* cancellation loop does nothing but cancel.                              *)
ThreadInv ==
    /\ \A o, p \in Owner : Running(o) /\ Running(p) => o = p
    /\ \A o \in Owner : ~Running(o) => ~api[o] /\ \A l \in Loop : loop[o][l].pc = "exited"
    /\ \A o \in Owner, l \in Loop : act[o][l].at # "none" => loop[o][l].pc = "working"
    /\ \A o \in Owner : act[o]["cancel"].at \in Parked

(* A loop has a row of its own, under a lease that has not expired.        *)
JobInv ==
    /\ \A o \in Owner, l \in Loop : Busy(o, l) =>
          /\ loop[o][l].job \in DOMAIN commands
          /\ HoldsLease(o, loop[o][l].job)
          /\ ~commands[loop[o][l].job].expired
    /\ \A o \in Owner : Busy(o, "cancel") =>
          /\ IsCancel(commands[loop[o]["cancel"].job])
          /\ Busy(o, "main") => loop[o]["main"].job # loop[o]["cancel"].job

(* The counter of a step numbers its requests and gates: none beyond it    *)
(* exists, and the one it waits for is the last.                           *)
StepInv ==
    \A s \in Steps :
        LET tr == rec[s].tr
        IN  /\ tr.type \in {"invoke-agent", "run-command", "await-user"} => tr.ord = rec[s].ord
            /\ tr.type \in {"none", "complete", "blocked"} => tr = Tr(tr.type, 0)
            /\ tr.corr => tr.type = "invoke-agent"
            /\ rec[s].output => tr.type = "complete"

IssuedInv ==
    /\ \A k \in CallKey : ext[k].stored /\ k.kind # "correction" => k.ord <= rec[k.step].ord
    /\ \A g \in Gate : gate[g] # "none" => g[2] <= rec[g[1]].ord

(* What a loop has read of the step is what the step still is.             *)
ActFits(a) ==
    LET r == rec[run.step]
    IN  /\ a.at \in {"call", "result", "artifact", "gate", "answered"} => a.step = run.step
        /\ a.at \in {"call", "result"} =>
              /\ a.tr = r.tr /\ a.tr.type \in {"invoke-agent", "run-command"}
              /\ ext[CallOf(run.step, a.tr)].stored <=> a.at = "result"
        /\ a.at = "artifact" => r.tr.type = "complete"
        /\ a.at = "gate" =>
              a.tr = r.tr /\ a.tr.type = "await-user" /\ gate[<<run.step, a.tr.ord>>] = "none"
        /\ a.at = "answered" =>
              /\ r.tr.type = "await-user" /\ gate[<<run.step, r.tr.ord>>] = "answered"
              /\ ~a.tr.corr
              /\ \/ a.tr.type \in {"invoke-agent", "run-command"} /\ a.tr.ord = r.ord + 1
                 \/ a.tr.type \in {"complete", "blocked"} /\ a.tr = Tr(a.tr.type, 0)

ActInv == \A o \in Owner, l \in Loop : ActFits(act[o][l])

(* The last step is left once: then the run is over for good.              *)
DoneInv ==
    rec[run.step].output =>
        /\ run.step = LastStep /\ Over
        /\ \A o \in Owner, l \in Loop : act[o][l].at \in Parked

(* The revisions of the wakeups queued so far lie below the one a loop     *)
(* will queue next.                                                        *)
WakeupsBelow(n) ==
    \A i \in DOMAIN commands : commands[i].key.kind = "continue" => commands[i].key.rev < n

RevisionFits(a) ==
    /\ a.at \in {"worktree", "retried"} => a.rev <= run.rev /\ WakeupsBelow(a.rev + 1)
    /\ a.at = "queue" => a.rev <= run.rev /\ WakeupsBelow(a.rev)
    /\ a.at = "answered" => a.rev <= run.rev + 1 /\ WakeupsBelow(a.rev)

RevisionInv ==
    /\ WakeupsBelow(run.rev + 1)
    /\ \A o \in Owner, l \in Loop : RevisionFits(act[o][l])

(* A run that should go on has a command that is not done with.            *)
GoesOn ==
    /\ run.status \in {"queued", "working"}
    /\ rec[run.step].tr.type \notin {"await-user", "blocked"}
    /\ \A i \in DOMAIN commands : commands[i].status # "failed"
    /\ \E i \in DOMAIN commands : commands[i].key.kind = "start-run"

Pending(i) ==
    /\ ~Finished(commands[i])
    /\ \A o \in Owner, l \in Loop : WorksOn(o, l, i) => loop[o][l].pc # "returned"

SilentInv ==
    /\ \A i \in DOMAIN commands : commands[i].key.kind = "start-run" => run.status # "absent"
    /\ \A o \in Owner : api[o] => run.status # "absent"
    /\ GoesOn => \E i \in DOMAIN commands : Pending(i)

SkeletonInv == EngineTypeOK /\ ThreadInv /\ JobInv

DataInv ==
    /\ StepInv /\ IssuedInv /\ StepsInOrder /\ OpenGateIsCurrent
    /\ ActInv /\ DoneInv /\ RevisionInv

EngineInv == SkeletonInv /\ DataInv /\ SilentInv

-------------------------------------------------------------------------------
(* Types. *)

LEMMA KeyFields ==
    ASSUME NEW k \in EngineKey
    PROVE  /\ k.kind = "submit-answers" => k.gate \in Gate
           /\ k.kind = "continue" => k.step \in Steps /\ k.rev \in Nat
    BY DEF EngineKey

(* The keys the engine and the API build are keys. *)
LEMMA BuiltKeys ==
    /\ [run |-> TheRun, kind |-> "start-run"] \in EngineKey
    /\ \A s \in Steps, rev \in Nat : ContinueKey(s, rev) \in EngineKey
    /\ \A g \in Gate, tag \in Tag :
          [run |-> TheRun, kind |-> "submit-answers", gate |-> g, tag |-> tag] \in EngineKey
    /\ \A kind \in {"retry-turn", "cancel-run", "publish-run"}, tag \in Tag :
          [run |-> TheRun, kind |-> kind, tag |-> tag] \in EngineKey
    BY DEF EngineKey, ContinueKey

LEMMA FirstAndLast ==
    /\ 1 \in Steps /\ LastStep \in Steps /\ LastStep \in Nat /\ MaxOrdinal \in Nat
    /\ 0 \in Ordinal /\ 1 \in Ordinal
    BY EngineAssumption DEF Steps, Ordinal

LEMMA NoActType ==
    /\ NoAct \in Activation /\ NoAct.at = "none"
    /\ NoTr \in Transition /\ NoTr.type = "none"
    BY FirstAndLast DEF NoAct, NoTr, Tr, Activation, Transition, Awaiting, Synchronous

(* What a workflow step may answer: a request that is new, or a state that *)
(* has none.                                                               *)
LEMMA OutcomeShape ==
    ASSUME EngineTypeOK, NEW s \in Steps,
           NEW types, types \subseteq {"invoke-agent", "run-command", "await-user",
                                      "complete", "blocked"},
           NEW tr \in Outcomes(s, types)
    PROVE  /\ tr \in Transition /\ tr.type \in types /\ ~tr.corr
           /\ tr.type \in {"invoke-agent", "run-command", "await-user"} =>
                  tr.ord = rec[s].ord + 1
           /\ tr.type \in {"complete", "blocked"} => tr = Tr(tr.type, 0)
<1>1. rec[s].ord \in 0..MaxOrdinal /\ MaxOrdinal \in Nat
    BY FirstAndLast DEF EngineTypeOK, Ordinal
<1>2. CASE \E type \in types \cap {"invoke-agent", "run-command", "await-user"} :
              rec[s].ord < MaxOrdinal /\ tr = Tr(type, rec[s].ord + 1)
    BY <1>1, <1>2 DEF Tr, Transition, Ordinal
<1>3. CASE \E type \in types \cap {"complete", "blocked"} : tr = Tr(type, 0)
    BY <1>1, <1>3 DEF Tr, Transition, Ordinal
<1> QED
    BY <1>2, <1>3 DEF Outcomes

LEMMA CallKeys ==
    ASSUME NEW s \in Steps, NEW tr \in Transition
    PROVE  /\ CallOf(s, tr) \in CallKey
           /\ CallOf(s, tr).step = s
           /\ CallOf(s, tr).kind # "correction" => ~tr.corr \/ tr.type = "run-command"
           /\ ~tr.corr => CallOf(s, tr).kind # "correction" /\ CallOf(s, tr).ord = tr.ord
<1>1. tr.ord \in 0..MaxOrdinal /\ RoleOf[tr.ord] \in 0..MaxOrdinal
    BY EngineAssumption DEF Transition, Ordinal
<1> QED
    BY <1>1 DEF CallOf, CallKey, Transition, Ordinal

LEMMA ActsAfter ==
    ASSUME EngineTypeOK, NEW o \in Owner, NEW l \in Loop, NEW b \in Activation,
           act' = [act EXCEPT ![o][l] = b]
    PROVE  /\ act' \in [Owner -> [Loop -> Activation]]
           /\ act'[o][l] = b
           /\ \A p \in Owner, m \in Loop : p # o \/ m # l => act'[p][m] = act[p][m]
    BY DEF EngineTypeOK

LEMMA LoopsAfter ==
    ASSUME EngineTypeOK, NEW o \in Owner, NEW l \in Loop, NEW w \in LoopState,
           loop' = [loop EXCEPT ![o][l] = w]
    PROVE  /\ loop' \in [Owner -> [Loop -> LoopState]]
           /\ loop'[o][l] = w
           /\ \A p \in Owner, m \in Loop : p # o \/ m # l => loop'[p][m] = loop[p][m]
    BY DEF EngineTypeOK, CoordinatorTypeOK

LEMMA EndsAfter ==
    ASSUME EngineTypeOK, NEW o \in Owner, NEW l \in Loop, NEW how \in {"returned", "threw"},
           ProcessEnds(o, l, how)
    PROVE  /\ loop' \in [Owner -> [Loop -> LoopState]]
           /\ loop[o][l].pc = "working"
           /\ loop'[o][l].pc = how /\ loop'[o][l].job = loop[o][l].job
           /\ \A p \in Owner, m \in Loop : p # o \/ m # l => loop'[p][m] = loop[p][m]
           /\ UNCHANGED proc
<1> DEFINE w == [loop[o][l] EXCEPT !.pc = how]
<1>0. loop[o][l] \in LoopState
    BY DEF EngineTypeOK, CoordinatorTypeOK
<1>1. w \in LoopState /\ w.pc = how /\ w.job = loop[o][l].job
    BY <1>0 DEF LoopState, LoopPc
<1>2. loop' = [loop EXCEPT ![o][l] = w]
    BY DEF ProcessEnds, EngineTypeOK, CoordinatorTypeOK
<1>3. loop[o][l].pc = "working" /\ UNCHANGED proc
    BY DEF ProcessEnds
<1> HIDE DEF w
<1>4. /\ loop' \in [Owner -> [Loop -> LoopState]]
      /\ loop'[o][l] = w
      /\ \A p \in Owner, m \in Loop : p # o \/ m # l => loop'[p][m] = loop[p][m]
    BY <1>1, <1>2, LoopsAfter
<1> QED
    BY <1>1, <1>3, <1>4

(* What every step of engine.process does to the loop that takes it: the   *)
(* loop goes on at another point, or is done with its command.             *)
Moves(o, l, b) ==
    /\ act[o][l].at # "none"
    /\ act' = [act EXCEPT ![o][l] = b]
    /\ UNCHANGED <<proc, api>>
    /\ \/ UNCHANGED <<commands, runLease, loop>> /\ b.at # "none"
       \/ /\ b = NoAct
          /\ \E how \in {"returned", "threw"} : ProcessEnds(o, l, how)
          /\ \/ UNCHANGED <<commands, runLease>>
             \/ /\ act[o][l].at = "queue"
                /\ Enqueue(ContinueKey(act[o][l].step, act[o][l].rev))

LEMMA GoesMoves ==
    ASSUME NEW o \in Owner, NEW l \in Loop, NEW b, act[o][l].at # "none", b.at # "none",
           Goes(o, l, b)
    PROVE  Moves(o, l, b)
    BY DEF Goes, Moves

LEMMA LeavesMoves ==
    ASSUME NEW o \in Owner, NEW l \in Loop, NEW how \in {"returned", "threw"},
           act[o][l].at # "none", Leaves(o, l, how)
    PROVE  Moves(o, l, NoAct)
    BY DEF Leaves, WorkEnds, ProcessEnds, Moves

LEMMA FollowsMoves ==
    ASSUME NEW o \in Owner, NEW l \in Loop, NEW s \in Steps, NEW tr \in Transition, NEW rev \in Nat,
           act[o][l].at # "none", Follows(o, l, s, tr, rev)
    PROVE  \E b \in Activation : Moves(o, l, b)
<1>1. CASE tr.type = "blocked"
    BY <1>1, LeavesMoves, NoActType DEF Follows
<1>2. CASE tr.type # "blocked"
    <2> DEFINE point == CASE tr.type = "await-user" -> "gate"
                          [] tr.type = "complete" -> "artifact"
                          [] OTHER -> "queue"
               b == [at |-> point, rev |-> rev, step |-> s, tr |-> tr]
    <2>1. point \in {"gate", "artifact", "queue"}
        OBVIOUS
    <2>2. b \in Activation /\ b.at # "none"
        BY <2>1 DEF Activation, Awaiting, Synchronous
    <2>3. Goes(o, l, b)
        BY <1>2 DEF Follows
    <2> HIDE DEF b
    <2> QED
        BY <2>2, <2>3, GoesMoves
<1> QED
    BY <1>1, <1>2

(* The rows of the run, its steps, gates and calls have their types.       *)
DataTypeOK ==
    /\ run \in [status : RunStatus, rev : Nat, step : Steps]
    /\ rec \in [Steps -> [tr : Transition, ord : Ordinal, output : BOOLEAN]]
    /\ gate \in [Gate -> {"none", "open", "answered"}]
    /\ ext \in [CallKey -> Result]

LEMMA RunFields ==
    ASSUME EngineTypeOK
    PROVE  run.rev \in Nat /\ run.step \in Steps /\ run.status \in RunStatus
    BY DEF EngineTypeOK

LEMMA RecFields ==
    ASSUME EngineTypeOK, NEW s \in Steps
    PROVE  /\ rec[s].tr \in Transition /\ rec[s].ord \in Ordinal /\ rec[s].ord \in Nat
           /\ rec[s].output \in BOOLEAN
<1>1. rec[s].tr \in Transition /\ rec[s].ord \in Ordinal /\ rec[s].output \in BOOLEAN
    BY DEF EngineTypeOK
<1> QED
    BY <1>1, FirstAndLast DEF Ordinal

LEMMA StatusTypes ==
    ASSUME EngineTypeOK, NEW status \in RunStatus, SetRunStatus(status)
    PROVE  /\ run' \in [status : RunStatus, rev : Nat, step : Steps]
           /\ run'.status = status /\ run'.rev = run.rev + 1 /\ run'.step = run.step
<1>1. run \in [status : RunStatus, rev : Nat, step : Steps]
    BY DEF EngineTypeOK
<1>2. run' = [status |-> status, rev |-> run.rev + 1, step |-> run.step]
    BY <1>1 DEF SetRunStatus
<1> QED
    BY <1>2, RunFields

LEMMA SaveTypes ==
    ASSUME EngineTypeOK, NEW s \in Steps, NEW tr \in Transition, SaveTransition(s, tr)
    PROVE  /\ run' \in [status : RunStatus, rev : Nat, step : Steps]
           /\ run'.status = StatusOf(tr) /\ run'.rev = run.rev + 1 /\ run'.step = run.step
           /\ rec' \in [Steps -> [tr : Transition, ord : Ordinal, output : BOOLEAN]]
           /\ rec'[s].tr = tr /\ rec'[s].output = rec[s].output
           /\ rec'[s].ord = IF tr.type \in {"complete", "blocked"} THEN rec[s].ord ELSE tr.ord
           /\ \A r \in Steps : r # s => rec'[r] = rec[r]
<1>1. StatusOf(tr) \in RunStatus
    BY DEF StatusOf, RunStatus
<1>2. SetRunStatus(StatusOf(tr))
    BY DEF SaveTransition
<1>3. tr.ord \in Ordinal /\ rec \in [Steps -> [tr : Transition, ord : Ordinal, output : BOOLEAN]]
    BY DEF Transition, EngineTypeOK
<1>4. rec' = [rec EXCEPT ![s].tr = tr,
                         ![s].ord = IF tr.type \in {"complete", "blocked"} THEN @ ELSE tr.ord]
    BY DEF SaveTransition
<1>5. /\ rec' \in [Steps -> [tr : Transition, ord : Ordinal, output : BOOLEAN]]
      /\ rec'[s].tr = tr /\ rec'[s].output = rec[s].output
      /\ rec'[s].ord = IF tr.type \in {"complete", "blocked"} THEN rec[s].ord ELSE tr.ord
      /\ \A r \in Steps : r # s => rec'[r] = rec[r]
    BY <1>3, <1>4
<1> QED
    BY <1>1, <1>2, <1>5, StatusTypes

LEMMA CompleteTypes ==
    ASSUME EngineTypeOK, NEW s \in Steps, CompleteStep(s)
    PROVE  /\ run' \in [status : RunStatus, rev : Nat, step : Steps]
           /\ run'.status = IF s < LastStep THEN "queued" ELSE "completed"
           /\ run'.rev = run.rev + 1
           /\ run'.step = IF s < LastStep THEN s + 1 ELSE s
           /\ rec' \in [Steps -> [tr : Transition, ord : Ordinal, output : BOOLEAN]]
           /\ rec'[s].tr = Tr("complete", 0) /\ rec'[s].output /\ rec'[s].ord = rec[s].ord
           /\ \A r \in Steps : r # s => rec'[r] = rec[r]
<1>1. Tr("complete", 0) \in Transition
    BY FirstAndLast DEF Tr, Transition
<1>2. rec \in [Steps -> [tr : Transition, ord : Ordinal, output : BOOLEAN]]
    BY DEF EngineTypeOK
<1>3. rec' = [rec EXCEPT ![s].tr = Tr("complete", 0), ![s].output = TRUE]
    BY DEF CompleteStep
<1>4. /\ rec' \in [Steps -> [tr : Transition, ord : Ordinal, output : BOOLEAN]]
      /\ rec'[s].tr = Tr("complete", 0) /\ rec'[s].output /\ rec'[s].ord = rec[s].ord
      /\ \A r \in Steps : r # s => rec'[r] = rec[r]
    BY <1>1, <1>2, <1>3
<1>5. /\ s \in 1..LastStep /\ LastStep \in Nat
      /\ run \in [status : RunStatus, rev : Nat, step : 1..LastStep]
    BY FirstAndLast DEF EngineTypeOK, Steps
<1>6. /\ run' \in [status : RunStatus, rev : Nat, step : 1..LastStep]
      /\ run'.status = IF s < LastStep THEN "queued" ELSE "completed"
      /\ run'.rev = run.rev + 1
      /\ run'.step = IF s < LastStep THEN s + 1 ELSE s
    <2>1. CASE s < LastStep
        <3>1. run' = [status |-> "queued", rev |-> run.rev + 1, step |-> s + 1]
            BY <1>5, <2>1 DEF CompleteStep
        <3> QED
            BY <1>5, <2>1, <3>1 DEF RunStatus
    <2>2. CASE ~(s < LastStep)
        <3>1. run' = [status |-> "completed", rev |-> run.rev + 1, step |-> s]
            BY <1>5, <2>2 DEF CompleteStep
        <3> QED
            BY <1>5, <2>2, <3>1 DEF RunStatus
    <2> QED
        BY <2>1, <2>2
<1> QED
    BY <1>4, <1>6 DEF Steps

LEMMA AtPoint ==
    ASSUME NEW o \in Owner, NEW l \in Loop
    PROVE  /\ \A point : At(o, l, point) => act[o][l].at = point
           /\ \A kinds : Dispatches(o, l, kinds) =>
                  act[o][l].at = "dispatch" /\ ~Over /\ Command(o, l).kind \in kinds
           /\ Ready(o, l) =>
                  \/ act[o][l].at = "retried"
                  \/ /\ act[o][l].at = "dispatch" /\ ~Over
                     /\ Command(o, l).kind \in {"continue", "publish-run"}
    BY DEF At, Dispatches, Ready

LEMMA ActNextRevision ==
    ASSUME NEW a \in Activation
    PROVE  LET b == [a EXCEPT !.at = "queue", !.rev = @ + 1]
           IN  /\ b \in Activation
               /\ b.at = "queue" /\ b.rev = a.rev + 1 /\ b.step = a.step /\ b.tr = a.tr
<1> DEFINE n == a.rev + 1
<1>1. n \in Nat
    BY DEF Activation
<1> HIDE DEF n
<1>2. LET b == [a EXCEPT !.at = "queue", !.rev = n]
      IN  b \in Activation /\ b.at = "queue" /\ b.rev = n /\ b.step = a.step /\ b.tr = a.tr
    BY <1>1 DEF Activation, Synchronous
<1> QED
    BY <1>2 DEF n

(* Every step of engine.process is a move of its loop, and keeps the types. *)
LEMMA ProcessMoves ==
    ASSUME EngineTypeOK, JobInv, ThreadInv, NEW o \in Owner, NEW l \in Loop, Process(o, l)
    PROVE  DataTypeOK' /\ \E b \in Activation : Moves(o, l, b)
<1> USE AtPoint, RunFields
<1>t. DataTypeOK /\ act[o][l] \in Activation
    BY DEF EngineTypeOK, DataTypeOK
<1>c. act[o][l].at = "dispatch" => Command(o, l) \in EngineKey
    <2>1. ASSUME act[o][l].at = "dispatch" PROVE loop[o][l].job \in DOMAIN commands
        BY <2>1 DEF ThreadInv, JobInv, Busy
    <2> QED
        BY <2>1, TableRows DEF EngineTypeOK, CoordinatorTypeOK, Command, Row
<1>u. UNCHANGED <<run, rec, gate, ext>> => DataTypeOK'
    BY <1>t DEF DataTypeOK
<1>1. CASE BeginStart(o, l)
    <2> DEFINE b == [at |-> "worktree", rev |-> run.rev, step |-> run.step, tr |-> NoTr]
    <2>1. b \in Activation /\ b.at # "none"
        BY NoActType DEF Activation, Awaiting
    <2>2. Goes(o, l, b) /\ act[o][l].at # "none" /\ UNCHANGED <<run, rec, gate, ext>>
        BY <1>1 DEF BeginStart
    <2> HIDE DEF b
    <2> QED
        BY <1>u, <2>1, <2>2, GoesMoves
<1>2. CASE WorktreeReady(o, l)
    <2> DEFINE b == [act[o][l] EXCEPT !.at = "queue", !.rev = @ + 1]
    <2>1. b \in Activation /\ b.at # "none"
        BY <1>t, ActNextRevision
    <2>2. /\ Goes(o, l, b) /\ act[o][l].at # "none"
          /\ SetRunStatus("queued") /\ UNCHANGED <<rec, gate, ext>>
        BY <1>2 DEF WorktreeReady
    <2>3. DataTypeOK'
        BY <1>t, <2>2, StatusTypes DEF DataTypeOK, RunStatus
    <2> HIDE DEF b
    <2> QED
        BY <2>1, <2>2, <2>3, GoesMoves
<1>3. CASE BeginCancel(o, l)
    <2> DEFINE b == [NoAct EXCEPT !.at = "destroy"]
    <2>1. b \in Activation /\ b.at # "none"
        BY NoActType DEF Activation, Awaiting
    <2>2. Goes(o, l, b) /\ act[o][l].at # "none" /\ UNCHANGED <<run, rec, gate, ext>>
        BY <1>3 DEF BeginCancel
    <2> HIDE DEF b
    <2> QED
        BY <1>u, <2>1, <2>2, GoesMoves
<1>4. CASE Cancelled(o, l)
    <2>1. /\ Leaves(o, l, "returned") /\ act[o][l].at # "none"
          /\ SetRunStatus("cancelled") /\ UNCHANGED <<rec, gate, ext>>
        BY <1>4 DEF Cancelled
    <2>2. DataTypeOK'
        BY <1>t, <2>1, StatusTypes DEF DataTypeOK, RunStatus
    <2> QED
        BY <2>1, <2>2, LeavesMoves, NoActType
<1>5. CASE AnswerGate(o, l)
    <2>1. /\ act[o][l].at = "dispatch" /\ Command(o, l).kind = "submit-answers"
          /\ CloseGate(Command(o, l).gate) /\ UNCHANGED <<run, rec, ext>>
        BY <1>5 DEF AnswerGate
    <2>2. Command(o, l).gate \in Gate
        BY <1>c, <2>1, KeyFields
    <2>3. DataTypeOK'
        BY <1>t, <2>1, <2>2 DEF DataTypeOK, CloseGate
    <2>4. ASSUME NEW tr \in Outcomes(run.step, {"invoke-agent", "run-command", "complete", "blocked"}),
                 Goes(o, l, [at |-> "answered", rev |-> run.rev + 1, step |-> run.step, tr |-> tr])
          PROVE  \E b \in Activation : Moves(o, l, b)
        <3> DEFINE b == [at |-> "answered", rev |-> run.rev + 1, step |-> run.step, tr |-> tr]
        <3>1. b \in Activation /\ b.at # "none"
            BY OutcomeShape DEF Activation, Synchronous
        <3>2. Goes(o, l, b)
            BY <2>4
        <3> HIDE DEF b
        <3> QED
            BY <2>1, <3>1, <3>2, GoesMoves
    <2>5. CASE Leaves(o, l, "threw")
        BY <2>1, <2>3, <2>5, LeavesMoves, NoActType
    <2> QED
        BY <1>5, <2>3, <2>4, <2>5 DEF AnswerGate
<1>6. CASE PersistAnswer(o, l)
    <2> DEFINE b == [act[o][l] EXCEPT !.at = "queue"]
    <2>1. /\ b \in Activation /\ b.at # "none"
          /\ act[o][l].step \in Steps /\ act[o][l].tr \in Transition
        BY <1>t DEF Activation, Synchronous
    <2>2. /\ Goes(o, l, b) /\ act[o][l].at # "none"
          /\ SaveTransition(act[o][l].step, act[o][l].tr) /\ UNCHANGED <<gate, ext>>
        BY <1>6 DEF PersistAnswer
    <2>3. DataTypeOK'
        BY <1>t, <2>1, <2>2, SaveTypes DEF DataTypeOK
    <2> HIDE DEF b
    <2> QED
        BY <2>1, <2>2, <2>3, GoesMoves
<1>7. CASE BeginRetry(o, l)
    <2> DEFINE b == [at |-> "retried", rev |-> run.rev, step |-> run.step, tr |-> NoTr]
    <2>1. b \in Activation /\ b.at # "none"
        BY NoActType DEF Activation, Synchronous
    <2>2. /\ Goes(o, l, b) /\ act[o][l].at # "none"
          /\ SetRunStatus("queued") /\ UNCHANGED <<rec, gate, ext>>
        BY <1>7 DEF BeginRetry
    <2>3. DataTypeOK'
        BY <1>t, <2>2, StatusTypes DEF DataTypeOK, RunStatus
    <2> HIDE DEF b
    <2> QED
        BY <2>1, <2>2, <2>3, GoesMoves
<1>8. CASE StartStep(o, l)
    <2>1. PICK tr \in Outcomes(run.step, {"invoke-agent", "run-command", "blocked"}) :
              /\ SaveTransition(run.step, tr)
              /\ Follows(o, l, run.step, tr, RevisionRead(o, l) + 1)
        BY <1>8 DEF StartStep
    <2>2. act[o][l].at # "none" /\ UNCHANGED <<gate, ext>>
        BY <1>8 DEF StartStep
    <2>3. tr \in Transition /\ RevisionRead(o, l) + 1 \in Nat
        BY <1>t, OutcomeShape DEF RevisionRead, Activation
    <2>4. DataTypeOK'
        BY <1>t, <2>1, <2>2, <2>3, SaveTypes DEF DataTypeOK
    <2> QED
        BY <2>1, <2>2, <2>3, <2>4, FollowsMoves
<1>9. CASE BeginCall(o, l)
    <2> DEFINE b == [at |-> IF HasResult(CallOf(run.step, rec[run.step].tr)) THEN "result" ELSE "call",
                     rev |-> 0, step |-> run.step, tr |-> rec[run.step].tr]
    <2>1. b \in Activation /\ b.at # "none"
        BY <1>t DEF DataTypeOK, Activation, Synchronous, Awaiting
    <2>2. Goes(o, l, b) /\ act[o][l].at # "none" /\ UNCHANGED <<run, rec, gate, ext>>
        BY <1>9 DEF BeginCall
    <2> HIDE DEF b
    <2> QED
        BY <1>u, <2>1, <2>2, GoesMoves
<1>10. CASE BeginComplete(o, l)
    <2> DEFINE b == [NoAct EXCEPT !.at = "artifact", !.step = run.step]
    <2>1. b \in Activation /\ b.at # "none"
        BY NoActType DEF Activation, Awaiting
    <2>2. Goes(o, l, b) /\ act[o][l].at # "none" /\ UNCHANGED <<run, rec, gate, ext>>
        BY <1>10 DEF BeginComplete
    <2> HIDE DEF b
    <2> QED
        BY <1>u, <2>1, <2>2, GoesMoves
<1>11. CASE CallReturns(o, l)
    <2> DEFINE b == [act[o][l] EXCEPT !.at = "result"]
    <2>1. /\ b \in Activation /\ b.at # "none"
          /\ act[o][l].step \in Steps /\ act[o][l].tr \in Transition
        BY <1>t DEF Activation, Synchronous
    <2>2. Goes(o, l, b) /\ act[o][l].at # "none" /\ UNCHANGED <<run, rec, gate>>
        BY <1>11 DEF CallReturns
    <2>3. PICK valid \in BOOLEAN :
              ext' = [ext EXCEPT ![CallOf(act[o][l].step, act[o][l].tr)] =
                         [stored |-> TRUE, valid |-> valid]]
        BY <1>11 DEF CallReturns
    <2>4. DataTypeOK'
        BY <1>t, <2>1, <2>2, <2>3, CallKeys DEF DataTypeOK, Result
    <2> HIDE DEF b
    <2> QED
        BY <2>1, <2>2, <2>4, GoesMoves
<1>12. CASE CallFails(o, l)
    <2>1. /\ Leaves(o, l, "threw") /\ act[o][l].at # "none" /\ UNCHANGED <<rec, gate, ext>>
          /\ UNCHANGED run \/ SetRunStatus("stalled") \/ SetRunStatus("blocked")
        BY <1>12 DEF CallFails
    <2>2. DataTypeOK'
        BY <1>t, <2>1, StatusTypes DEF DataTypeOK, RunStatus
    <2> QED
        BY <2>1, <2>2, LeavesMoves, NoActType
<1>13. CASE ScheduleCorrection(o, l)
    <2> DEFINE s == act[o][l].step
               tr == IF act[o][l].tr.corr THEN Tr("blocked", 0)
                     ELSE [act[o][l].tr EXCEPT !.corr = TRUE]
    <2>1. /\ SaveTransition(s, tr) /\ Follows(o, l, s, tr, run.rev + 1)
          /\ act[o][l].at # "none" /\ UNCHANGED <<gate, ext>>
        BY <1>13 DEF ScheduleCorrection
    <2>2. s \in Steps /\ tr \in Transition
        BY <1>t, FirstAndLast DEF Activation, Transition, Tr
    <2>3. DataTypeOK'
        BY <1>t, <2>1, <2>2, SaveTypes DEF DataTypeOK
    <2> HIDE DEF s, tr
    <2> QED
        BY <2>1, <2>2, <2>3, FollowsMoves
<1>14. CASE ApplyResult(o, l)
    <2> DEFINE s == act[o][l].step
    <2>1. PICK tr \in Outcomes(s, {"invoke-agent", "run-command", "await-user", "complete",
                                   "blocked"}) :
              SaveTransition(s, tr) /\ Follows(o, l, s, tr, run.rev + 1)
        BY <1>14 DEF ApplyResult
    <2>2. act[o][l].at # "none" /\ UNCHANGED <<gate, ext>>
        BY <1>14 DEF ApplyResult
    <2>3. s \in Steps
        BY <1>t DEF Activation
    <2> HIDE DEF s
    <2>4. tr \in Transition
        BY <2>3, OutcomeShape
    <2>5. DataTypeOK'
        BY <1>t, <2>1, <2>2, <2>3, <2>4, SaveTypes DEF DataTypeOK
    <2> QED
        BY <2>1, <2>2, <2>3, <2>4, <2>5, FollowsMoves
<1>15. CASE SaveGate(o, l)
    <2>1. /\ Leaves(o, l, "returned") /\ act[o][l].at # "none" /\ UNCHANGED <<run, rec, ext>>
          /\ OpenGate(<<act[o][l].step, act[o][l].tr.ord>>)
        BY <1>15 DEF SaveGate
    <2>2. DataTypeOK'
        BY <1>t, <2>1 DEF DataTypeOK, OpenGate
    <2> QED
        BY <2>1, <2>2, LeavesMoves, NoActType
<1>16. CASE ArtifactWritten(o, l)
    <2> DEFINE s == act[o][l].step
    <2>1. s \in Steps /\ LastStep \in Nat
        BY <1>t, FirstAndLast DEF Activation
    <2>2. CompleteStep(s) /\ act[o][l].at # "none" /\ UNCHANGED <<gate, ext>>
        BY <1>16 DEF ArtifactWritten
    <2>3. DataTypeOK'
        BY <1>t, <2>1, <2>2, CompleteTypes DEF DataTypeOK
    <2>4. CASE s = LastStep
        BY <1>16, <2>2, <2>3, <2>4, LeavesMoves, NoActType DEF ArtifactWritten
    <2>5. CASE s # LastStep
        <3> DEFINE b == [at |-> "queue", rev |-> run.rev + 1, step |-> s + 1, tr |-> NoTr]
        <3>1. b \in Activation /\ b.at # "none"
            BY <2>1, <2>5, NoActType DEF Activation, Synchronous, Steps
        <3>2. Goes(o, l, b)
            BY <1>16, <2>5 DEF ArtifactWritten
        <3> HIDE DEF b
        <3> QED
            BY <2>2, <2>3, <3>1, <3>2, GoesMoves
    <2> QED
        BY <2>4, <2>5
<1>17. CASE QueueContinue(o, l)
    <2>1. DataTypeOK'
        BY <1>u, <1>17 DEF QueueContinue
    <2> QED
        BY <1>17, <2>1, NoActType DEF QueueContinue, Moves, ProcessEnds
<1>18. CASE NothingToDo(o, l)
    <2>1. Leaves(o, l, "returned") /\ act[o][l].at # "none" /\ UNCHANGED <<run, rec, gate, ext>>
        BY <1>18 DEF NothingToDo
    <2> QED
        BY <1>u, <2>1, LeavesMoves, NoActType
<1>19. CASE Throws(o, l)
    <2>1. Leaves(o, l, "threw") /\ act[o][l].at # "none" /\ UNCHANGED <<run, rec, gate, ext>>
        BY <1>19 DEF Throws
    <2> QED
        BY <1>u, <2>1, LeavesMoves, NoActType
<1> QED
    BY <1>1, <1>2, <1>3, <1>4, <1>5, <1>6, <1>7, <1>8, <1>9, <1>10, <1>11, <1>12, <1>13, <1>14,
       <1>15, <1>16, <1>17, <1>18, <1>19 DEF Process

-------------------------------------------------------------------------------
(* Loops and their rows. *)

(* A loop that has read something of the run, or is about to process a     *)
(* command other than a cancellation, is the main loop of the one process, *)
(* and no other loop has read anything.                                    *)
LEMMA Alone ==
    ASSUME EngineTypeOK, ThreadInv, JobInv, NEW o \in Owner, NEW l \in Loop,
           \/ act[o][l].at \notin Parked
           \/ act[o][l].at = "dispatch" /\ Command(o, l).kind # "cancel-run"
    PROVE  /\ l = "main" /\ Running(o)
           /\ \A p \in Owner, m \in Loop : p # o \/ m # l => act[p][m].at \in Parked
<1>1. act[o][l].at # "none"
    BY DEF Parked
<1>2. l = "main"
    <2>1. l # "cancel"
        BY <1>1 DEF ThreadInv, JobInv, Busy, IsCancel, Command
    <2> QED
        BY <2>1 DEF Loop
<1>3. \A p \in Owner, m \in Loop : act[p][m].at # "none" => Running(p)
    BY DEF ThreadInv
<1>4. ASSUME NEW p \in Owner, NEW m \in Loop, act[p][m].at \notin Parked
      PROVE  p = o /\ m = l
    <2>1. act[p][m].at # "none"
        BY <1>4 DEF Parked
    <2>2. p = o
        BY <1>1, <1>3, <2>1 DEF ThreadInv
    <2>3. m # "cancel"
        BY <1>4 DEF ThreadInv
    <2> QED
        BY <1>2, <2>2, <2>3 DEF Loop
<1> QED
    BY <1>1, <1>2, <1>3, <1>4

(* The cancellation loop, which only leases cancellations, does only these. *)
LEMMA CancelLoop ==
    ASSUME EngineTypeOK, ThreadInv, JobInv, NEW o \in Owner, Process(o, "cancel")
    PROVE  act'[o]["cancel"].at \in Parked
<1> USE AtPoint DEF Loop
<1>1. act[o]["cancel"].at \in Parked
    BY DEF ThreadInv
<1>2. act[o]["cancel"].at = "dispatch" => Command(o, "cancel").kind = "cancel-run"
    BY Alone
<1>3. \A b \in Activation : act' = [act EXCEPT ![o]["cancel"] = b] => act'[o]["cancel"] = b
    BY ActsAfter
<1>4. CASE BeginCancel(o, "cancel")
    <2>1. act' = [act EXCEPT ![o]["cancel"] = [NoAct EXCEPT !.at = "destroy"]]
        BY <1>4 DEF BeginCancel, Goes
    <2>2. [NoAct EXCEPT !.at = "destroy"] \in Activation
        BY NoActType DEF Activation, Awaiting
    <2>3. [NoAct EXCEPT !.at = "destroy"].at = "destroy"
        BY NoActType DEF Activation, Awaiting
    <2> QED
        BY <1>3, <2>1, <2>2, <2>3 DEF Parked
<1>5. CASE \E how : Leaves(o, "cancel", how)
    BY <1>3, <1>5, NoActType DEF Leaves, Parked
<1>6. CASE Cancelled(o, "cancel")
    BY <1>5, <1>6 DEF Cancelled
<1>7. CASE NothingToDo(o, "cancel") \/ Throws(o, "cancel")
    BY <1>5, <1>7 DEF NothingToDo, Throws
<1>8. BeginCancel(o, "cancel") \/ Cancelled(o, "cancel") \/ NothingToDo(o, "cancel")
         \/ Throws(o, "cancel")
    BY <1>1, <1>2 DEF Process, Parked, BeginStart, WorktreeReady, AnswerGate, PersistAnswer,
       BeginRetry, StartStep, BeginCall, BeginComplete, CallReturns, CallFails,
       ScheduleCorrection, ApplyResult, SaveGate, ArtifactWritten, QueueContinue
<1> QED
    BY <1>4, <1>6, <1>7, <1>8

(* Loops that keep working keep their rows. *)
LEMMA JobsKept ==
    ASSUME JobInv, DOMAIN commands \subseteq DOMAIN commands',
           \A o \in Owner, l \in Loop : Busy(o, l)' =>
              /\ Busy(o, l) /\ loop'[o][l].job = loop[o][l].job
              /\ commands'[loop[o][l].job] = commands[loop[o][l].job]
    PROVE  JobInv'
    BY DEF JobInv, HoldsLease, IsCancel, Loop

LEMMA TypeParts ==
    EngineTypeOK <=>
        /\ StoreTypeOK /\ DataTypeOK
        /\ proc \in [Owner -> ProcState] /\ loop \in [Owner -> [Loop -> LoopState]]
        /\ act \in [Owner -> [Loop -> Activation]] /\ api \in [Owner -> BOOLEAN]
    BY DEF EngineTypeOK, CoordinatorTypeOK, DataTypeOK

LEMMA SkeletonInit == Init => SkeletonInv
<1> SUFFICES ASSUME Init PROVE SkeletonInv
    OBVIOUS
<1> USE DEF Init, CoordinatorInit
<1>1. StoreTypeOK
    BY DEF StoreInit, StoreTypeOK
<1>2. DataTypeOK
    BY FirstAndLast, NoActType DEF DataTypeOK, RunStatus, NoResult, Result
<1>3. /\ proc \in [Owner -> ProcState] /\ loop \in [Owner -> [Loop -> LoopState]]
      /\ act \in [Owner -> [Loop -> Activation]] /\ api \in [Owner -> BOOLEAN]
    BY NoActType DEF ProcState, Exited, LoopState, LoopPc
<1>4. ThreadInv
    BY NoActType DEF ThreadInv, Running, Exited, Parked, Loop
<1>5. JobInv
    BY DEF JobInv, Busy, Exited, Loop
<1> QED
    BY <1>1, <1>2, <1>3, <1>4, <1>5, TypeParts DEF SkeletonInv

LEMMA SkeletonProcess ==
    ASSUME SkeletonInv, NEW o \in Owner, NEW l \in Loop, Process(o, l)
    PROVE  SkeletonInv'
<1> USE DEF SkeletonInv
<1>1. DataTypeOK' /\ \E b \in Activation : Moves(o, l, b)
    BY ProcessMoves
<1>2. PICK b \in Activation : Moves(o, l, b)
    BY <1>1
<1>3. /\ act' \in [Owner -> [Loop -> Activation]] /\ act'[o][l] = b
      /\ \A p \in Owner, m \in Loop : p # o \/ m # l => act'[p][m] = act[p][m]
      /\ UNCHANGED <<proc, api>> /\ act[o][l].at # "none"
    BY <1>2, ActsAfter DEF Moves
<1>4. /\ loop' \in [Owner -> [Loop -> LoopState]]
      /\ \A p \in Owner, m \in Loop :
            \/ loop'[p][m] = loop[p][m]
            \/ /\ p = o /\ m = l /\ loop[p][m].pc = "working"
               /\ loop'[p][m].pc \in {"returned", "threw"}
               /\ loop'[p][m].job = loop[p][m].job
      /\ loop'[o][l].pc = "working" \/ b.at = "none"
    <2>1. CASE UNCHANGED loop
        BY <1>3, <2>1, TypeParts DEF ThreadInv
    <2>2. CASE b = NoAct /\ \E how \in {"returned", "threw"} : ProcessEnds(o, l, how)
        BY <2>2, EndsAfter, NoActType
    <2> QED
        BY <1>2, <2>1, <2>2 DEF Moves
<1>5. /\ StoreTypeOK' /\ DOMAIN commands \subseteq DOMAIN commands'
      /\ \A i \in DOMAIN commands : commands'[i] = commands[i]
    <2>1. CASE UNCHANGED <<commands, runLease>>
        BY <2>1, TypeParts DEF StoreTypeOK
    <2>2. CASE Enqueue(ContinueKey(act[o][l].step, act[o][l].rev))
        <3>1. act[o][l].step \in Steps /\ act[o][l].rev \in Nat
            BY TypeParts DEF Activation
        <3> QED
            BY <2>2, <3>1, BuiltKeys, EnqueueRows, TypeParts
    <2> QED
        BY <1>2, <2>1, <2>2 DEF Moves
<1>6. EngineTypeOK'
    BY <1>1, <1>3, <1>4, <1>5, TypeParts DEF EngineTypeOK, CoordinatorTypeOK, DataTypeOK
<1>7. ThreadInv'
    <2>1. \A p, q \in Owner : Running(p)' /\ Running(q)' => p = q
        BY <1>3 DEF ThreadInv, Running
    <2>2. \A p \in Owner :
              ~Running(p)' => ~api'[p] /\ \A m \in Loop : loop'[p][m].pc = "exited"
        BY <1>3, <1>4 DEF ThreadInv, Running
    <2>3. \A p \in Owner, m \in Loop : act'[p][m].at # "none" => loop'[p][m].pc = "working"
        BY <1>3, <1>4 DEF ThreadInv
    <2>4. \A p \in Owner : act'[p]["cancel"].at \in Parked
        <3>1. CASE l = "cancel"
            BY <1>3, <3>1, CancelLoop DEF ThreadInv, Loop
        <3>2. CASE l # "cancel"
            BY <1>3, <3>2 DEF ThreadInv, Loop
        <3> QED
            BY <3>1, <3>2
    <2> QED
        BY <2>1, <2>2, <2>3, <2>4 DEF ThreadInv
<1>8. JobInv'
    <2>1. \A p \in Owner, m \in Loop : Busy(p, m)' =>
              /\ Busy(p, m) /\ loop'[p][m].job = loop[p][m].job
              /\ commands'[loop[p][m].job] = commands[loop[p][m].job]
        BY <1>4, <1>5 DEF Busy, JobInv
    <2> QED
        BY <1>5, <2>1, JobsKept
<1> QED
    BY <1>6, <1>7, <1>8

(* Steps that do not touch what the loops are at. *)
LEMMA SkeletonSubmit ==
    ASSUME SkeletonInv, NEW k \in EngineKey, Submit(k), DataTypeOK', UNCHANGED act,
           api' \in [Owner -> BOOLEAN], \A o \in Owner : api'[o] => Running(o)
    PROVE  SkeletonInv'
<1> USE DEF SkeletonInv
<1>1. /\ StoreTypeOK' /\ DOMAIN commands \subseteq DOMAIN commands'
      /\ \A i \in DOMAIN commands : commands'[i] = commands[i]
    BY EnqueueRows, TypeParts DEF Submit
<1>2. UNCHANGED <<proc, loop>>
    BY DEF Submit
<1>3. EngineTypeOK'
    BY <1>1, <1>2, TypeParts DEF EngineTypeOK, CoordinatorTypeOK, DataTypeOK
<1>4. ThreadInv'
    BY <1>2 DEF ThreadInv, Running
<1>5. \A p \in Owner, m \in Loop : Busy(p, m)' =>
          /\ Busy(p, m) /\ loop'[p][m].job = loop[p][m].job
          /\ commands'[loop[p][m].job] = commands[loop[p][m].job]
    BY <1>1, <1>2 DEF Busy, JobInv
<1> QED
    BY <1>1, <1>3, <1>4, <1>5, JobsKept

LEMMA SkeletonLease ==
    ASSUME SkeletonInv, NEW o \in Owner, NEW l \in Loop, NEW i \in DOMAIN commands,
           EngineLease(o, l, i)
    PROVE  SkeletonInv'
<1> USE DEF SkeletonInv
<1>1. /\ proc[o] = "up" /\ loop[o][l] = Idle /\ UNCHANGED proc
      /\ LeaseNextCommand(o, i) \/ LeaseNextCancellation(o, i)
      /\ l = "cancel" => LeaseNextCancellation(o, i)
      /\ loop' = [loop EXCEPT ![o][l] = [pc |-> "working", job |-> i]]
    BY DEF EngineLease, LeaseMain, LeaseCancel
<1>2. /\ StoreTypeOK' /\ DOMAIN commands' = DOMAIN commands
      /\ commands[i].status = "queued" \/ (commands[i].status = "leased" /\ commands[i].expired)
      /\ commands'[i] = LeasedRow(commands[i].key, o)
      /\ l = "cancel" => IsCancel(commands[i])
      /\ \A j \in DOMAIN commands : j # i =>
            \/ commands'[j] = commands[j]
            \/ commands[j].status = "leased" /\ commands[j].expired
    BY <1>1, LeaseRows, TypeParts
<1>3. [pc |-> "working", job |-> i] \in LoopState
    BY TableRows, TypeParts DEF LoopState, LoopPc
<1>4. /\ loop' \in [Owner -> [Loop -> LoopState]]
      /\ loop'[o][l] = [pc |-> "working", job |-> i]
      /\ \A p \in Owner, m \in Loop : p # o \/ m # l => loop'[p][m] = loop[p][m]
    BY <1>1, <1>3, LoopsAfter
<1>5. /\ act' \in [Owner -> [Loop -> Activation]] /\ act'[o][l].at = "dispatch"
      /\ \A p \in Owner, m \in Loop : p # o \/ m # l => act'[p][m] = act[p][m]
    <2> DEFINE b == [act[o][l] EXCEPT !.at = "dispatch"]
    <2>0. act[o][l] \in Activation
        BY TypeParts
    <2>1. b \in Activation /\ b.at = "dispatch"
        BY <2>0 DEF Activation, Synchronous
    <2>2. act' = [act EXCEPT ![o][l] = b]
        BY TypeParts DEF EngineLease
    <2> HIDE DEF b
    <2> QED
        BY <2>1, <2>2, ActsAfter
<1>6. DataTypeOK' /\ UNCHANGED api
    BY TypeParts DEF EngineLease, DataTypeOK
<1>7. EngineTypeOK'
    BY <1>1, <1>2, <1>4, <1>5, <1>6, TypeParts DEF EngineTypeOK, CoordinatorTypeOK, DataTypeOK
<1>8. ThreadInv'
    <2>1. \A p, q \in Owner : Running(p)' /\ Running(q)' => p = q
        BY <1>1 DEF ThreadInv, Running
    <2>2. \A p \in Owner :
              ~Running(p)' => ~api'[p] /\ \A m \in Loop : loop'[p][m].pc = "exited"
        BY <1>1, <1>4, <1>6 DEF ThreadInv, Running
    <2>3. \A p \in Owner, m \in Loop : act'[p][m].at # "none" => loop'[p][m].pc = "working"
        BY <1>4, <1>5 DEF ThreadInv
    <2>4. \A p \in Owner : act'[p]["cancel"].at \in Parked
        BY <1>5 DEF ThreadInv, Parked, Loop
    <2> QED
        BY <2>1, <2>2, <2>3, <2>4 DEF ThreadInv
<1>9. JobInv'
    <2>1. ASSUME NEW p \in Owner, NEW m \in Loop, Busy(p, m), p # o \/ m # l
          PROVE  /\ loop[p][m].job # i
                 /\ commands'[loop[p][m].job] = commands[loop[p][m].job]
        BY <1>2, <2>1 DEF JobInv, HoldsLease
    <2>2. \A p \in Owner, m \in Loop : p # o \/ m # l => (Busy(p, m)' <=> Busy(p, m))
        BY <1>4 DEF Busy
    <2>3. ASSUME NEW p \in Owner, NEW m \in Loop, Busy(p, m)'
          PROVE  /\ loop'[p][m].job \in DOMAIN commands'
                 /\ HoldsLease(p, loop[p][m].job)'
                 /\ ~commands'[loop'[p][m].job].expired
        <3>1. CASE p = o /\ m = l
            BY <1>2, <1>4, <3>1 DEF HoldsLease, LeasedRow
        <3>2. CASE p # o \/ m # l
            BY <1>2, <1>4, <2>1, <2>2, <2>3, <3>2 DEF JobInv, HoldsLease
        <3> QED
            BY <3>1, <3>2
    <2>4. ASSUME NEW p \in Owner, Busy(p, "cancel")'
          PROVE  /\ IsCancel(commands[loop[p]["cancel"].job])'
                 /\ Busy(p, "main")' => loop'[p]["main"].job # loop'[p]["cancel"].job
        <3>1. CASE p = o /\ l = "cancel"
            <4>1. IsCancel(commands'[i])
                BY <1>2, <3>1 DEF IsCancel, LeasedRow
            <4>2. loop'[o]["cancel"].job = i
                BY <1>4, <3>1
            <4>3. Busy(o, "main")' => loop'[o]["main"].job # i
                BY <1>4, <2>1, <2>2, <3>1 DEF Loop
            <4> QED
                BY <3>1, <4>1, <4>2, <4>3
        <3>2. CASE p = o /\ l = "main"
            <4>1. Busy(o, "cancel") /\ loop'[o]["cancel"] = loop[o]["cancel"]
                BY <1>4, <2>2, <2>4, <3>2 DEF Loop
            <4>2. /\ loop[o]["cancel"].job # i
                  /\ commands'[loop[o]["cancel"].job] = commands[loop[o]["cancel"].job]
                BY <2>1, <3>2, <4>1 DEF Loop
            <4>3. IsCancel(commands[loop[o]["cancel"].job])
                BY <4>1 DEF JobInv
            <4>4. loop'[o]["main"].job = i
                BY <1>4, <3>2
            <4> QED
                BY <3>2, <4>1, <4>2, <4>3, <4>4 DEF IsCancel
        <3>3. CASE p # o
            BY <1>2, <1>4, <2>1, <2>2, <2>4, <3>3 DEF IsCancel, JobInv, Loop
        <3> QED
            BY <3>1, <3>2, <3>3 DEF Loop
    <2> QED
        BY <2>3, <2>4 DEF JobInv
<1> QED
    BY <1>7, <1>8, <1>9

LEMMA SkeletonFinish ==
    ASSUME SkeletonInv, NEW o \in Owner, NEW l \in Loop, EngineFinish(o, l)
    PROVE  SkeletonInv'
<1> USE DEF SkeletonInv
<1>1. /\ loop[o][l].pc \in {"returned", "threw"}
      /\ FinishCommand(o, loop[o][l].job, Outcome(loop[o][l].pc))
      /\ loop' = [loop EXCEPT ![o][l] = Idle]
      /\ UNCHANGED <<proc, run, rec, gate, ext, act, api>>
    BY DEF EngineFinish, Finish, engineVars
<1>2. loop[o][l].job \in DOMAIN commands /\ Outcome(loop[o][l].pc) \in {"completed", "failed"}
    BY <1>1 DEF JobInv, Busy, Outcome
<1>3. /\ StoreTypeOK' /\ DOMAIN commands' = DOMAIN commands
      /\ \A j \in DOMAIN commands : j # loop[o][l].job => commands'[j] = commands[j]
    BY <1>1, <1>2, FinishRows, TypeParts
<1>4. /\ loop' \in [Owner -> [Loop -> LoopState]] /\ loop'[o][l] = Idle
      /\ \A p \in Owner, m \in Loop : p # o \/ m # l => loop'[p][m] = loop[p][m]
    BY <1>1, LoopsAfter DEF Idle, LoopState, LoopPc
<1>5. act[o][l].at = "none" /\ Running(o)
    BY <1>1 DEF ThreadInv
<1>6. EngineTypeOK'
    BY <1>1, <1>3, <1>4, TypeParts DEF EngineTypeOK, CoordinatorTypeOK, DataTypeOK
<1>7. ThreadInv'
    BY <1>1, <1>4, <1>5 DEF ThreadInv, Running
<1>8. ASSUME NEW p \in Owner, NEW m \in Loop, Busy(p, m), p # o \/ m # l
      PROVE  loop[p][m].job # loop[o][l].job
    <2>1. Busy(o, l)
        BY <1>1 DEF Busy
    <2>2. CASE p # o
        BY <1>8, <2>1, <2>2 DEF JobInv, HoldsLease
    <2>3. CASE p = o /\ m # l
        BY <1>8, <2>1, <2>3 DEF JobInv, Loop
    <2> QED
        BY <1>8, <2>2, <2>3
<1>9. \A p \in Owner, m \in Loop : Busy(p, m)' =>
          /\ Busy(p, m) /\ loop'[p][m].job = loop[p][m].job
          /\ commands'[loop[p][m].job] = commands[loop[p][m].job]
    BY <1>3, <1>4, <1>8 DEF Busy, Idle, JobInv
<1> QED
    BY <1>3, <1>6, <1>7, <1>9, JobsKept

LEMMA SkeletonStart ==
    ASSUME SkeletonInv, NEW o \in Owner, EngineStart(o)
    PROVE  SkeletonInv'
<1> USE DEF SkeletonInv
<1>1. /\ proc[o] = "new" /\ \A p \in Owner : ~Running(p)
      /\ proc' = [proc EXCEPT ![o] = "up"]
      /\ loop' = [loop EXCEPT ![o] = [l \in Loop |-> Idle]]
      /\ UNCHANGED <<commands, runLease, rec, gate, ext, act, api>>
    BY DEF EngineStart, Start
<1>2. /\ proc' \in [Owner -> ProcState] /\ proc'[o] = "up"
      /\ \A p \in Owner : p # o => proc'[p] = proc[p]
    BY <1>1, TypeParts DEF ProcState
<1>3. /\ loop' \in [Owner -> [Loop -> LoopState]] /\ \A l \in Loop : loop'[o][l] = Idle
      /\ \A p \in Owner : p # o => loop'[p] = loop[p]
    BY <1>1, TypeParts DEF Idle, LoopState, LoopPc
<1>4. DataTypeOK'
    BY <1>1, TypeParts, StatusTypes DEF EngineStart, Recovers, DataTypeOK, RunStatus
<1>5. EngineTypeOK'
    BY <1>1, <1>2, <1>3, <1>4, TypeParts
       DEF EngineTypeOK, CoordinatorTypeOK, DataTypeOK, StoreTypeOK
<1>6. ThreadInv'
    BY <1>1, <1>2, <1>3 DEF ThreadInv, Running
<1>7. \A p \in Owner, m \in Loop : Busy(p, m)' =>
          /\ Busy(p, m) /\ loop'[p][m].job = loop[p][m].job
          /\ commands'[loop[p][m].job] = commands[loop[p][m].job]
    BY <1>1, <1>3 DEF Busy, Idle
<1> QED
    BY <1>1, <1>5, <1>6, <1>7, JobsKept

LEMMA SkeletonCrash ==
    ASSUME SkeletonInv, NEW o \in Owner, EngineCrash(o)
    PROVE  SkeletonInv'
<1> USE DEF SkeletonInv
<1>1. /\ proc' = [proc EXCEPT ![o] = "down"]
      /\ loop' = [loop EXCEPT ![o] = [l \in Loop |-> Exited]]
      /\ act' = [act EXCEPT ![o] = [l \in Loop |-> NoAct]]
      /\ api' = [api EXCEPT ![o] = FALSE]
      /\ UNCHANGED <<commands, runLease, run, rec, gate, ext>>
    BY DEF EngineCrash, Crash, Die
<1>2. /\ proc' \in [Owner -> ProcState] /\ proc'[o] = "down"
      /\ \A p \in Owner : p # o => proc'[p] = proc[p]
    BY <1>1, TypeParts DEF ProcState
<1>3. /\ loop' \in [Owner -> [Loop -> LoopState]] /\ \A l \in Loop : loop'[o][l] = Exited
      /\ \A p \in Owner : p # o => loop'[p] = loop[p]
    BY <1>1, TypeParts DEF Exited, LoopState, LoopPc
<1>4. /\ act' \in [Owner -> [Loop -> Activation]] /\ \A l \in Loop : act'[o][l] = NoAct
      /\ \A p \in Owner : p # o => act'[p] = act[p]
    BY <1>1, NoActType, TypeParts
<1>5. api' \in [Owner -> BOOLEAN] /\ ~api'[o] /\ \A p \in Owner : p # o => api'[p] = api[p]
    BY <1>1, TypeParts
<1>6. EngineTypeOK'
    BY <1>1, <1>2, <1>3, <1>4, <1>5, TypeParts
       DEF EngineTypeOK, CoordinatorTypeOK, DataTypeOK, StoreTypeOK
<1>7. ThreadInv'
    <2>1. \A p, q \in Owner : Running(p)' /\ Running(q)' => p = q
        BY <1>2 DEF ThreadInv, Running
    <2>2. \A p \in Owner :
              ~Running(p)' => ~api'[p] /\ \A m \in Loop : loop'[p][m].pc = "exited"
        BY <1>2, <1>3, <1>5 DEF ThreadInv, Running, Exited
    <2>3. \A p \in Owner, m \in Loop : act'[p][m].at # "none" => loop'[p][m].pc = "working"
        BY <1>3, <1>4, NoActType DEF ThreadInv
    <2>4. \A p \in Owner : act'[p]["cancel"].at \in Parked
        BY <1>4, NoActType DEF ThreadInv, Parked, Loop
    <2> QED
        BY <2>1, <2>2, <2>3, <2>4 DEF ThreadInv
<1>8. \A p \in Owner, m \in Loop : Busy(p, m)' =>
          /\ Busy(p, m) /\ loop'[p][m].job = loop[p][m].job
          /\ commands'[loop[p][m].job] = commands[loop[p][m].job]
    BY <1>1, <1>3 DEF Busy, Exited
<1> QED
    BY <1>1, <1>6, <1>7, <1>8, JobsKept

LEMMA SkeletonLapse ==
    ASSUME SkeletonInv, NEW i \in DOMAIN commands, EngineLapse(i)
    PROVE  SkeletonInv'
<1> USE DEF SkeletonInv
<1>1. /\ \A o \in Owner, l \in Loop : ~WorksOn(o, l, i)
      /\ LeaseExpires(i) /\ UNCHANGED <<proc, loop, run, rec, gate, ext, act, api>>
    BY DEF EngineLapse, Lapse, engineVars
<1>2. /\ StoreTypeOK' /\ DOMAIN commands' = DOMAIN commands
      /\ \A j \in DOMAIN commands : j # i => commands'[j] = commands[j]
    BY <1>1, ExpireRows, TypeParts
<1>3. EngineTypeOK'
    BY <1>1, <1>2, TypeParts DEF EngineTypeOK, CoordinatorTypeOK, DataTypeOK
<1>4. ThreadInv'
    BY <1>1 DEF ThreadInv, Running
<1>5. \A p \in Owner, m \in Loop : Busy(p, m)' =>
          /\ Busy(p, m) /\ loop'[p][m].job = loop[p][m].job
          /\ commands'[loop[p][m].job] = commands[loop[p][m].job]
    BY <1>1, <1>2 DEF Busy, WorksOn, JobInv
<1> QED
    BY <1>2, <1>3, <1>4, <1>5, JobsKept

(* The kinds of step, as the proofs below take them. *)
LEMMA NextCases ==
    ASSUME SkeletonInv, Next
    PROVE  \/ \E o \in Owner : CreateRun(o)
           \/ \E o \in Owner : EnqueueStart(o)
           \/ \E o \in Owner, kind \in Operator, tag \in Tag : OperatorCommand(o, kind, tag)
           \/ \E o \in Owner : EngineStart(o)
           \/ \E o \in Owner : EngineCrash(o)
           \/ \E o \in Owner, l \in Loop, i \in DOMAIN commands : EngineLease(o, l, i)
           \/ \E o \in Owner, l \in Loop : Process(o, l)
           \/ \E o \in Owner, l \in Loop : EngineFinish(o, l)
           \/ \E i \in DOMAIN commands : EngineLapse(i)
    BY DEF Next, EngineLoopStep

LEMMA SubmittedKey ==
    ASSUME SkeletonInv, NEW o \in Owner, NEW kind \in Operator, NEW tag \in Tag,
           OperatorCommand(o, kind, tag)
    PROVE  \E k \in EngineKey : Submit(k) /\ k.kind = kind
<1>1. kind \in {"submit-answers", "retry-turn", "cancel-run", "publish-run"}
    BY EngineAssumption
<1>2. CASE kind = "submit-answers"
    <2>1. PICK g \in Gate : Submit([run |-> TheRun, kind |-> kind, gate |-> g, tag |-> tag])
        BY <1>2 DEF OperatorCommand
    <2> QED
        BY <1>2, <2>1, BuiltKeys
<1>3. CASE kind # "submit-answers"
    <2>1. Submit([run |-> TheRun, kind |-> kind, tag |-> tag])
        BY <1>3 DEF OperatorCommand
    <2> QED
        BY <1>1, <1>3, <2>1, BuiltKeys
<1> QED
    BY <1>2, <1>3

LEMMA SkeletonStep == SkeletonInv /\ [Next]_vars => SkeletonInv'
<1> SUFFICES ASSUME SkeletonInv, [Next]_vars PROVE SkeletonInv'
    OBVIOUS
<1>1. ASSUME NEW o \in Owner, CreateRun(o) PROVE SkeletonInv'
    <2>1. /\ proc[o] = "up" /\ api' = [api EXCEPT ![o] = TRUE]
          /\ UNCHANGED <<commands, runLease, proc, loop, rec, gate, ext, act>>
        BY <1>1 DEF CreateRun
    <2>2. DataTypeOK'
        <3>1. run' = [run EXCEPT !.status = "queued"]
            BY <1>1 DEF CreateRun
        <3> QED
            BY <2>1, <3>1, TypeParts DEF SkeletonInv, DataTypeOK, RunStatus
    <2>3. EngineTypeOK'
        BY <2>1, <2>2, TypeParts
           DEF SkeletonInv, EngineTypeOK, CoordinatorTypeOK, DataTypeOK, StoreTypeOK
    <2>4. ThreadInv'
        BY <2>1, TypeParts DEF SkeletonInv, ThreadInv, Running
    <2>5. JobInv'
        BY <2>1 DEF SkeletonInv, JobInv, Busy, HoldsLease
    <2> QED
        BY <2>3, <2>4, <2>5 DEF SkeletonInv
<1>2. ASSUME NEW o \in Owner, EnqueueStart(o) PROVE SkeletonInv'
    <2>1. /\ Submit([run |-> TheRun, kind |-> "start-run"]) /\ api' = [api EXCEPT ![o] = FALSE]
          /\ UNCHANGED <<run, rec, gate, ext, act>>
        BY <1>2 DEF EnqueueStart
    <2>2. DataTypeOK'
        BY <2>1, TypeParts DEF SkeletonInv, DataTypeOK
    <2>3. api' \in [Owner -> BOOLEAN] /\ \A p \in Owner : api'[p] => Running(p)
        BY <2>1, TypeParts DEF SkeletonInv, ThreadInv
    <2> QED
        BY <2>1, <2>2, <2>3, BuiltKeys, SkeletonSubmit
<1>3. ASSUME NEW o \in Owner, NEW kind \in Operator, NEW tag \in Tag, OperatorCommand(o, kind, tag)
      PROVE  SkeletonInv'
    <2>1. UNCHANGED <<run, rec, gate, ext, act, api>>
        BY <1>3 DEF OperatorCommand, engineVars
    <2>2. DataTypeOK'
        BY <2>1, TypeParts DEF SkeletonInv, DataTypeOK
    <2>3. api' \in [Owner -> BOOLEAN] /\ \A p \in Owner : api'[p] => Running(p)
        BY <2>1, TypeParts DEF SkeletonInv, ThreadInv
    <2> QED
        BY <1>3, <2>1, <2>2, <2>3, SubmittedKey, SkeletonSubmit
<1>4. CASE UNCHANGED vars
    BY <1>4 DEF vars, SkeletonInv, EngineTypeOK, CoordinatorTypeOK, StoreTypeOK, ThreadInv, Running,
       JobInv, Busy, HoldsLease
<1> QED
    BY <1>1, <1>2, <1>3, <1>4, NextCases, SkeletonStart, SkeletonCrash, SkeletonLease,
       SkeletonProcess, SkeletonFinish, SkeletonLapse

(* Every variable of the engine stays in its type. *)
THEOREM EngineTypes == Spec => []EngineTypeOK
<1>1. SkeletonInv => EngineTypeOK
    BY DEF SkeletonInv
<1> QED
    BY <1>1, SkeletonInit, SkeletonStep, PTL DEF Spec

-------------------------------------------------------------------------------
(* The step and what it waits for. *)

(* The same step with the same requests, gates and results: only the       *)
(* status and the revision of the run may change.                          *)
StepUntouched ==
    /\ UNCHANGED <<rec, gate, ext>>
    /\ run'.step = run.step /\ run'.rev >= run.rev
    /\ run'.status = "completed" => run.status = "completed"

NoNewWakeup ==
    \A i \in DOMAIN commands' :
        commands'[i].key.kind = "continue" =>
            i \in DOMAIN commands /\ commands'[i].key = commands[i].key

(* Steps of which the work on the current step notices nothing.            *)
Quiet ==
    /\ StepUntouched /\ NoNewWakeup
    /\ rec[run.step].output => Over'
    /\ \A o \in Owner, l \in Loop : act'[o][l] = act[o][l] \/ act'[o][l].at \in Parked

LEMMA WakeupsStayBelow ==
    ASSUME NEW n \in Nat, NEW m \in Nat, n <= m, SkeletonInv, WakeupsBelow(n), NoNewWakeup
    PROVE  WakeupsBelow(m)'
<1>1. ASSUME NEW i \in DOMAIN commands, commands[i].key.kind = "continue"
      PROVE  commands[i].key.rev \in Nat
    BY <1>1, TableRows, TypeParts, KeyFields DEF SkeletonInv, Row
<1> QED
    BY <1>1 DEF WakeupsBelow, NoNewWakeup

LEMMA StepKept ==
    ASSUME DataInv, StepUntouched
    PROVE  StepInv' /\ IssuedInv' /\ StepsInOrder' /\ OpenGateIsCurrent'
<1>1. StepInv' /\ IssuedInv'
    BY DEF DataInv, StepUntouched, StepInv, IssuedInv
<1>2. StepsInOrder' /\ OpenGateIsCurrent'
    BY DEF DataInv, StepUntouched, StepsInOrder, OpenGateIsCurrent
<1> QED
    BY <1>1, <1>2

LEMMA QuietKeeps ==
    ASSUME SkeletonInv, SkeletonInv', DataInv, Quiet
    PROVE  DataInv'
<1>1. StepInv' /\ IssuedInv' /\ StepsInOrder' /\ OpenGateIsCurrent'
    BY StepKept DEF Quiet
<1>t. /\ run.rev \in Nat /\ run'.rev \in Nat /\ run'.rev >= run.rev
      /\ \A o \in Owner, l \in Loop : act[o][l].rev \in Nat
    BY TypeParts DEF SkeletonInv, Quiet, StepUntouched, EngineTypeOK, DataTypeOK, Activation
<1>2. ActInv'
    <2>1. ASSUME NEW o \in Owner, NEW l \in Loop PROVE ActFits(act[o][l])'
        <3>1. CASE act'[o][l].at \in Parked
            BY <3>1 DEF ActFits, Parked
        <3>2. CASE act'[o][l] = act[o][l]
            <4>1. ActFits(act[o][l])
                BY DEF DataInv, ActInv
            <4> QED
                BY <3>2, <4>1 DEF ActFits, Quiet, StepUntouched
        <3> QED
            BY <3>1, <3>2 DEF Quiet
    <2> QED
        BY <2>1 DEF ActInv
<1>3. DoneInv'
    BY DEF DataInv, DoneInv, Quiet, StepUntouched
<1>4. RevisionInv'
    <2>1. WakeupsBelow(run.rev + 1)'
        BY <1>t, WakeupsStayBelow DEF DataInv, RevisionInv, Quiet
    <2>2. ASSUME NEW o \in Owner, NEW l \in Loop PROVE RevisionFits(act[o][l])'
        <3>1. CASE act'[o][l].at \in Parked
            BY <3>1 DEF RevisionFits, Parked
        <3>2. CASE act'[o][l] = act[o][l]
            <4>1. RevisionFits(act[o][l])
                BY DEF DataInv, RevisionInv
            <4>2. /\ WakeupsBelow(act[o][l].rev) => WakeupsBelow(act[o][l].rev)'
                  /\ WakeupsBelow(act[o][l].rev + 1) => WakeupsBelow(act[o][l].rev + 1)'
                BY <1>t, <3>2, WakeupsStayBelow DEF Quiet
            <4> QED
                BY <1>t, <3>2, <4>1, <4>2 DEF RevisionFits
        <3> QED
            BY <3>1, <3>2 DEF Quiet
    <2> QED
        BY <2>1, <2>2 DEF RevisionInv
<1> QED
    BY <1>1, <1>2, <1>3, <1>4 DEF DataInv

LEMMA QuietSubmit ==
    ASSUME SkeletonInv, DataInv, NEW k \in EngineKey, k.kind # "continue", Submit(k),
           UNCHANGED <<run, rec, gate, ext, act>>
    PROVE  Quiet
<1>1. NoNewWakeup
    <2>1. /\ \A i \in DOMAIN commands : commands'[i] = commands[i]
          /\ \A i \in DOMAIN commands' : i \notin DOMAIN commands => commands'[i] = QueuedRow(k)
        BY EnqueueRows, TypeParts DEF SkeletonInv, Submit
    <2> QED
        BY <2>1 DEF NoNewWakeup, QueuedRow
<1>2. run.rev >= run.rev
    BY RunFields DEF SkeletonInv
<1> QED
    BY <1>1, <1>2 DEF Quiet, StepUntouched, DataInv, DoneInv, Over

(* A loop that leaves a command behind.                                    *)
LEMMA QuietLeave ==
    ASSUME SkeletonInv, DataInv, NEW o \in Owner, NEW l \in Loop, NEW how,
           how \in {"returned", "threw"}, Leaves(o, l, how), UNCHANGED <<rec, gate, ext>>,
           run'.step = run.step, run'.rev >= run.rev,
           run'.status = "completed" => run.status = "completed",
           rec[run.step].output => Over'
    PROVE  Quiet
<1>1. UNCHANGED commands /\ act' = [act EXCEPT ![o][l] = NoAct]
    BY DEF Leaves, WorkEnds
<1>2. \A p \in Owner, m \in Loop : act'[p][m] = act[p][m] \/ act'[p][m].at \in Parked
    BY <1>1, ActsAfter, NoActType DEF SkeletonInv, Parked
<1> QED
    BY <1>1, <1>2 DEF Quiet, StepUntouched, NoNewWakeup

(* No work of the main loop finds the run at its end.                      *)
LEMMA NotDone ==
    ASSUME DataInv, NEW o \in Owner, NEW l \in Loop,
           act[o][l].at \notin Parked \/ ~Over
    PROVE  ~rec[run.step].output
    BY DEF DataInv, DoneInv

LEMMA QuietSteps ==
    ASSUME SkeletonInv, DataInv, [Next]_vars
    PROVE  \/ Quiet
           \/ \E o \in Owner, l \in Loop :
                 \/ BeginStart(o, l) \/ WorktreeReady(o, l) \/ AnswerGate(o, l)
                 \/ PersistAnswer(o, l) \/ BeginRetry(o, l) \/ StartStep(o, l)
                 \/ BeginCall(o, l) \/ BeginComplete(o, l) \/ CallReturns(o, l)
                 \/ ScheduleCorrection(o, l) \/ ApplyResult(o, l) \/ SaveGate(o, l)
                 \/ ArtifactWritten(o, l) \/ QueueContinue(o, l)
<1> USE DEF SkeletonInv
<1>r. run.rev \in Nat /\ run.rev >= run.rev /\ run.rev + 1 >= run.rev /\ run.status \in RunStatus
    BY RunFields
<1>d. rec[run.step].output => Over
    BY DEF DataInv, DoneInv
<1>1. ASSUME NEW o \in Owner, CreateRun(o) PROVE Quiet
    <2>1. /\ run.status = "absent" /\ run' = [run EXCEPT !.status = "queued"]
          /\ UNCHANGED <<commands, rec, gate, ext, act>>
        BY <1>1 DEF CreateRun
    <2>2. run'.step = run.step /\ run'.rev = run.rev /\ run'.status = "queued"
        BY <2>1, TypeParts DEF DataTypeOK
    <2>3. ~rec[run.step].output
        BY <1>d, <2>1 DEF Over
    <2> QED
        BY <1>r, <2>1, <2>2, <2>3 DEF Quiet, StepUntouched, NoNewWakeup
<1>2. ASSUME NEW o \in Owner, EnqueueStart(o) PROVE Quiet
    BY <1>2, QuietSubmit, BuiltKeys DEF EnqueueStart
<1>3. ASSUME NEW o \in Owner, NEW kind \in Operator, NEW tag \in Tag, OperatorCommand(o, kind, tag)
      PROVE  Quiet
    <2>1. kind # "continue" /\ UNCHANGED <<run, rec, gate, ext, act>>
        BY <1>3, EngineAssumption DEF OperatorCommand, engineVars
    <2> QED
        BY <1>3, <2>1, SubmittedKey, QuietSubmit
<1>4. ASSUME NEW o \in Owner, EngineStart(o) PROVE Quiet
    <2>1. UNCHANGED <<commands, rec, gate, ext, act>> /\ Recovers
        BY <1>4 DEF EngineStart, Start
    <2>2. CASE UNCHANGED run
        BY <1>d, <1>r, <2>1, <2>2 DEF Quiet, StepUntouched, NoNewWakeup, Over
    <2>3. CASE ~Over /\ SetRunStatus("blocked")
        BY <1>d, <1>r, <2>1, <2>3, StatusTypes DEF Quiet, StepUntouched, NoNewWakeup, RunStatus
    <2> QED
        BY <2>1, <2>2, <2>3 DEF Recovers
<1>5. ASSUME NEW o \in Owner, EngineCrash(o) PROVE Quiet
    <2>1. /\ UNCHANGED <<commands, run, rec, gate, ext>>
          /\ act' = [act EXCEPT ![o] = [l \in Loop |-> NoAct]]
        BY <1>5 DEF EngineCrash, Crash
    <2>2. \A p \in Owner, m \in Loop : act'[p][m] = act[p][m] \/ act'[p][m].at \in Parked
        BY <2>1, TypeParts, NoActType DEF Parked
    <2> QED
        BY <1>d, <1>r, <2>1, <2>2 DEF Quiet, StepUntouched, NoNewWakeup, Over
<1>6. ASSUME NEW o \in Owner, NEW l \in Loop, NEW i \in DOMAIN commands, EngineLease(o, l, i)
      PROVE  Quiet
    <2>1. /\ LeaseNextCommand(o, i) \/ LeaseNextCancellation(o, i)
          /\ act' = [act EXCEPT ![o][l].at = "dispatch"] /\ UNCHANGED <<run, rec, gate, ext>>
        BY <1>6 DEF EngineLease, LeaseMain, LeaseCancel
    <2>2. NoNewWakeup
        <3>1. StoreTypeOK
            BY TypeParts
        <3>2. /\ DOMAIN commands' = DOMAIN commands
              /\ \A j \in DOMAIN commands :
                    \/ commands'[j] = commands[j]
                    \/ commands'[j] = QueuedRow(commands[j].key)
                    \/ commands'[j] = LeasedRow(commands[j].key, o)
            BY <2>1, <3>1, LeaseRows
        <3> QED
            BY <3>2 DEF NoNewWakeup, LeasedRow, QueuedRow
    <2>3. \A p \in Owner, m \in Loop : act'[p][m] = act[p][m] \/ act'[p][m].at \in Parked
        <3>1. act[o][l] \in Activation
            BY TypeParts
        <3>2. [act[o][l] EXCEPT !.at = "dispatch"].at = "dispatch"
            BY <3>1 DEF Activation
        <3> QED
            BY <2>1, <3>2, TypeParts DEF Parked
    <2> QED
        BY <1>d, <1>r, <2>1, <2>2, <2>3 DEF Quiet, StepUntouched, Over
<1>7. ASSUME NEW o \in Owner, NEW l \in Loop, EngineFinish(o, l) PROVE Quiet
    <2>1. /\ loop[o][l].job \in DOMAIN commands
          /\ FinishCommand(o, loop[o][l].job, Outcome(loop[o][l].pc))
          /\ Outcome(loop[o][l].pc) \in {"completed", "failed"}
          /\ UNCHANGED <<run, rec, gate, ext, act>>
        BY <1>7 DEF EngineFinish, Finish, JobInv, Busy, Outcome, engineVars
    <2>2. NoNewWakeup
        <3> DEFINE i == loop[o][l].job
                   outcome == Outcome(loop[o][l].pc)
        <3>1. StoreTypeOK
            BY TypeParts
        <3> HIDE DEF i, outcome
        <3>2. /\ DOMAIN commands' = DOMAIN commands
              /\ commands'[i] = ClosedRow(commands[i].key, outcome)
              /\ \A j \in DOMAIN commands : j # i => commands'[j] = commands[j]
            BY <2>1, <3>1, FinishRows DEF i, outcome
        <3>3. commands'[i].key = commands[i].key
            BY <3>2 DEF ClosedRow
        <3> QED
            BY <3>2, <3>3 DEF NoNewWakeup
    <2> QED
        BY <1>d, <1>r, <2>1, <2>2 DEF Quiet, StepUntouched, Over
<1>8. ASSUME NEW i \in DOMAIN commands, EngineLapse(i) PROVE Quiet
    <2>1. LeaseExpires(i) /\ UNCHANGED <<run, rec, gate, ext, act>>
        BY <1>8 DEF EngineLapse, Lapse, engineVars
    <2>2. NoNewWakeup
        BY <2>1, ExpireRows, TypeParts DEF NoNewWakeup
    <2> QED
        BY <1>d, <1>r, <2>1, <2>2 DEF Quiet, StepUntouched, Over
<1>9. CASE UNCHANGED vars
    BY <1>9, <1>d, <1>r DEF Quiet, StepUntouched, NoNewWakeup, Over, vars
<1>10. ASSUME NEW o \in Owner, NEW l \in Loop, BeginCancel(o, l) PROVE Quiet
    <2>1. /\ act' = [act EXCEPT ![o][l] = [NoAct EXCEPT !.at = "destroy"]]
          /\ UNCHANGED <<commands, run, rec, gate, ext>>
        BY <1>10 DEF BeginCancel, Goes
    <2>2. [NoAct EXCEPT !.at = "destroy"] \in Activation /\ [NoAct EXCEPT !.at = "destroy"].at = "destroy"
        BY NoActType DEF Activation, Awaiting
    <2>3. \A p \in Owner, m \in Loop : act'[p][m] = act[p][m] \/ act'[p][m].at \in Parked
        BY <2>1, <2>2, ActsAfter DEF Parked
    <2> QED
        BY <1>d, <1>r, <2>1, <2>3 DEF Quiet, StepUntouched, NoNewWakeup, Over
<1>11. ASSUME NEW o \in Owner, NEW l \in Loop, Cancelled(o, l) PROVE Quiet
    BY <1>11, <1>r, StatusTypes, QuietLeave DEF Cancelled, RunStatus, Over
<1>12. ASSUME NEW o \in Owner, NEW l \in Loop, NothingToDo(o, l) \/ Throws(o, l) PROVE Quiet
    <2>1. UNCHANGED <<run, rec, gate, ext>> /\ (Leaves(o, l, "returned") \/ Leaves(o, l, "threw"))
        BY <1>12 DEF NothingToDo, Throws
    <2> QED
        BY <1>d, <1>r, <2>1, QuietLeave DEF Over
<1>13. ASSUME NEW o \in Owner, NEW l \in Loop, CallFails(o, l) PROVE Quiet
    <2>1. /\ Leaves(o, l, "threw") /\ act[o][l].at = "call" /\ UNCHANGED <<rec, gate, ext>>
          /\ UNCHANGED run \/ SetRunStatus("stalled") \/ SetRunStatus("blocked")
        BY <1>13, AtPoint DEF CallFails
    <2>2. ~rec[run.step].output
        BY <2>1, NotDone DEF Parked
    <2> QED
        BY <1>r, <2>1, <2>2, StatusTypes, QuietLeave DEF RunStatus
<1> QED
    BY <1>1, <1>2, <1>3, <1>4, <1>5, <1>6, <1>7, <1>8, <1>9, <1>10, <1>11, <1>12, <1>13,
       NextCases DEF Process

(* What a loop that works on the step leaves the others with. *)
LEMMA MainAct ==
    ASSUME SkeletonInv, NEW o \in Owner, NEW l \in Loop, NEW b \in Activation,
           \/ act[o][l].at \notin Parked
           \/ act[o][l].at = "dispatch" /\ Command(o, l).kind # "cancel-run",
           act' = [act EXCEPT ![o][l] = b]
    PROVE  /\ act'[o][l] = b
           /\ \A p \in Owner, m \in Loop : p # o \/ m # l => act'[p][m].at \in Parked
<1>1. \A p \in Owner, m \in Loop : p # o \/ m # l => act[p][m].at \in Parked
    BY Alone DEF SkeletonInv
<1>2. /\ act'[o][l] = b
      /\ \A p \in Owner, m \in Loop : p # o \/ m # l => act'[p][m] = act[p][m]
    BY ActsAfter DEF SkeletonInv
<1> QED
    BY <1>1, <1>2

LEMMA OneActor ==
    ASSUME NEW o \in Owner, NEW l \in Loop,
           \A p \in Owner, m \in Loop : p # o \/ m # l => act'[p][m].at \in Parked,
           StepInv', IssuedInv', StepsInOrder', OpenGateIsCurrent', DoneInv',
           WakeupsBelow(run.rev + 1)', ActFits(act[o][l])', RevisionFits(act[o][l])'
    PROVE  DataInv'
<1>1. ASSUME NEW p \in Owner, NEW m \in Loop PROVE ActFits(act[p][m])' /\ RevisionFits(act[p][m])'
    BY DEF ActFits, RevisionFits, Parked
<1> QED
    BY <1>1 DEF DataInv, ActInv, RevisionInv

LEMMA UntouchedKeeps ==
    ASSUME DataInv, StepUntouched, ~rec[run.step].output, NEW o \in Owner, NEW l \in Loop,
           \A p \in Owner, m \in Loop : p # o \/ m # l => act'[p][m].at \in Parked,
           WakeupsBelow(run.rev + 1)', ActFits(act[o][l])', RevisionFits(act[o][l])'
    PROVE  DataInv'
<1>1. DoneInv'
    BY DEF StepUntouched, DoneInv
<1> QED
    BY <1>1, StepKept, OneActor

LEMMA BeginStartKeeps ==
    ASSUME SkeletonInv, DataInv, NEW o \in Owner, NEW l \in Loop, BeginStart(o, l)
    PROVE  DataInv'
<1> DEFINE b == [at |-> "worktree", rev |-> run.rev, step |-> run.step, tr |-> NoTr]
<1>1. /\ act[o][l].at = "dispatch" /\ ~Over /\ Command(o, l).kind # "cancel-run"
      /\ act' = [act EXCEPT ![o][l] = b] /\ UNCHANGED <<commands, run, rec, gate, ext>>
    BY AtPoint DEF BeginStart, Goes
<1>2. run.rev \in Nat /\ run.step \in Steps
    BY RunFields DEF SkeletonInv
<1>3. b \in Activation /\ b.at = "worktree" /\ b.rev = run.rev
    BY <1>2, NoActType DEF Activation, Awaiting
<1> HIDE DEF b
<1>4. /\ act'[o][l] = b
      /\ \A p \in Owner, m \in Loop : p # o \/ m # l => act'[p][m].at \in Parked
    BY <1>1, <1>3, MainAct
<1>5. ActFits(act[o][l])'
    BY <1>3, <1>4 DEF ActFits
<1>6. WakeupsBelow(run.rev + 1)' /\ RevisionFits(act[o][l])'
    BY <1>1, <1>2, <1>3, <1>4 DEF DataInv, RevisionInv, RevisionFits, WakeupsBelow
<1>7. StepUntouched /\ ~rec[run.step].output
    BY <1>1, <1>2, NotDone DEF StepUntouched
<1> QED
    BY <1>4, <1>5, <1>6, <1>7, UntouchedKeeps

LEMMA WorktreeReadyKeeps ==
    ASSUME SkeletonInv, DataInv, NEW o \in Owner, NEW l \in Loop, WorktreeReady(o, l)
    PROVE  DataInv'
<1> DEFINE b == [act[o][l] EXCEPT !.at = "queue", !.rev = @ + 1]
<1>1. /\ act[o][l].at = "worktree" /\ act[o][l] \in Activation /\ SetRunStatus("queued")
      /\ act' = [act EXCEPT ![o][l] = b] /\ UNCHANGED <<commands, rec, gate, ext>>
    BY AtPoint, TypeParts DEF SkeletonInv, WorktreeReady, Goes
<1>2. /\ run.rev \in Nat /\ run'.rev = run.rev + 1 /\ run'.step = run.step
      /\ run'.status = "queued" /\ act[o][l].rev \in Nat
    BY <1>1, RunFields, StatusTypes DEF SkeletonInv, RunStatus, Activation
<1>3. b \in Activation /\ b.at = "queue" /\ b.rev = act[o][l].rev + 1
    BY <1>1, ActNextRevision
<1> HIDE DEF b
<1>4. /\ act'[o][l] = b
      /\ \A p \in Owner, m \in Loop : p # o \/ m # l => act'[p][m].at \in Parked
    BY <1>1, <1>3, MainAct DEF Parked
<1>5. ActFits(act[o][l])'
    BY <1>3, <1>4 DEF ActFits
<1>6. RevisionFits(act[o][l]) /\ WakeupsBelow(run.rev + 1)
    BY DEF DataInv, RevisionInv
<1>7. WakeupsBelow(run.rev + 1)'
    BY <1>1, <1>2, <1>6, WakeupsStayBelow DEF NoNewWakeup
<1>8. RevisionFits(act[o][l])'
    BY <1>1, <1>2, <1>3, <1>4, <1>6 DEF RevisionFits, WakeupsBelow
<1>9. StepUntouched /\ ~rec[run.step].output
    BY <1>1, <1>2, NotDone DEF StepUntouched, Parked
<1> QED
    BY <1>4, <1>5, <1>7, <1>8, <1>9, UntouchedKeeps

LEMMA BeginRetryKeeps ==
    ASSUME SkeletonInv, DataInv, NEW o \in Owner, NEW l \in Loop, BeginRetry(o, l)
    PROVE  DataInv'
<1> DEFINE b == [at |-> "retried", rev |-> run.rev, step |-> run.step, tr |-> NoTr]
<1>1. /\ act[o][l].at = "dispatch" /\ ~Over /\ Command(o, l).kind # "cancel-run"
      /\ SetRunStatus("queued")
      /\ act' = [act EXCEPT ![o][l] = b] /\ UNCHANGED <<commands, rec, gate, ext>>
    BY AtPoint DEF BeginRetry, Goes
<1>2. /\ run.rev \in Nat /\ run.step \in Steps /\ run'.rev = run.rev + 1 /\ run'.step = run.step
      /\ run'.status = "queued"
    BY <1>1, RunFields, StatusTypes DEF SkeletonInv, RunStatus
<1>3. b \in Activation /\ b.at = "retried" /\ b.rev = run.rev
    BY <1>2, NoActType DEF Activation, Synchronous
<1> HIDE DEF b
<1>4. /\ act'[o][l] = b
      /\ \A p \in Owner, m \in Loop : p # o \/ m # l => act'[p][m].at \in Parked
    BY <1>1, <1>3, MainAct
<1>5. ActFits(act[o][l])'
    BY <1>3, <1>4 DEF ActFits
<1>6. WakeupsBelow(run.rev + 1)
    BY DEF DataInv, RevisionInv
<1>7. WakeupsBelow(run.rev + 1)'
    BY <1>1, <1>2, <1>6, WakeupsStayBelow DEF NoNewWakeup
<1>8. RevisionFits(act[o][l])'
    BY <1>1, <1>2, <1>3, <1>4, <1>6 DEF RevisionFits, WakeupsBelow
<1>9. StepUntouched /\ ~rec[run.step].output
    BY <1>1, <1>2, NotDone DEF StepUntouched
<1> QED
    BY <1>4, <1>5, <1>7, <1>8, <1>9, UntouchedKeeps

(* A loop that is ready to take up the current step reads it alone.        *)
LEMMA ReadyReads ==
    ASSUME DataInv, NEW o \in Owner, NEW l \in Loop, Ready(o, l)
    PROVE  /\ \/ act[o][l].at \notin Parked
              \/ act[o][l].at = "dispatch" /\ Command(o, l).kind # "cancel-run"
           /\ ~rec[run.step].output
    BY AtPoint, NotDone DEF Parked

LEMMA BeginCallKeeps ==
    ASSUME SkeletonInv, DataInv, NEW o \in Owner, NEW l \in Loop, BeginCall(o, l)
    PROVE  DataInv'
<1> DEFINE point == IF HasResult(CallOf(run.step, rec[run.step].tr)) THEN "result" ELSE "call"
           b == [at |-> point, rev |-> 0, step |-> run.step, tr |-> rec[run.step].tr]
<1>1. /\ Ready(o, l) /\ rec[run.step].tr.type \in {"invoke-agent", "run-command"}
      /\ act' = [act EXCEPT ![o][l] = b] /\ UNCHANGED <<commands, run, rec, gate, ext>>
    BY DEF BeginCall, Goes
<1>2. run.rev \in Nat /\ run.step \in Steps /\ rec[run.step].tr \in Transition
    BY RunFields, TypeParts DEF SkeletonInv, DataTypeOK
<1>3. /\ point \in {"call", "result"}
      /\ ext[CallOf(run.step, rec[run.step].tr)].stored <=> point = "result"
    BY DEF HasResult
<1> HIDE DEF point
<1>4. /\ b \in Activation /\ b.at = point /\ b.step = run.step /\ b.tr = rec[run.step].tr
    BY <1>2, <1>3 DEF Activation, Synchronous, Awaiting
<1> HIDE DEF b
<1>5. /\ act'[o][l] = b
      /\ \A p \in Owner, m \in Loop : p # o \/ m # l => act'[p][m].at \in Parked
    BY <1>1, <1>4, MainAct, ReadyReads
<1>6. ActFits(act[o][l])'
    BY <1>1, <1>3, <1>4, <1>5 DEF ActFits
<1>7. WakeupsBelow(run.rev + 1)' /\ RevisionFits(act[o][l])'
    BY <1>1, <1>3, <1>4, <1>5 DEF DataInv, RevisionInv, RevisionFits, WakeupsBelow
<1>8. StepUntouched /\ ~rec[run.step].output
    BY <1>1, <1>2, ReadyReads DEF StepUntouched
<1> QED
    BY <1>5, <1>6, <1>7, <1>8, UntouchedKeeps

LEMMA BeginCompleteKeeps ==
    ASSUME SkeletonInv, DataInv, NEW o \in Owner, NEW l \in Loop, BeginComplete(o, l)
    PROVE  DataInv'
<1> DEFINE b == [NoAct EXCEPT !.at = "artifact", !.step = run.step]
<1>1. /\ Ready(o, l) /\ rec[run.step].tr.type = "complete"
      /\ act' = [act EXCEPT ![o][l] = b] /\ UNCHANGED <<commands, run, rec, gate, ext>>
    BY DEF BeginComplete, Goes
<1>2. run.rev \in Nat /\ run.step \in Steps
    BY RunFields DEF SkeletonInv
<1>3. b \in Activation /\ b.at = "artifact" /\ b.step = run.step
    BY <1>2, NoActType DEF Activation, Awaiting
<1> HIDE DEF b
<1>4. /\ act'[o][l] = b
      /\ \A p \in Owner, m \in Loop : p # o \/ m # l => act'[p][m].at \in Parked
    BY <1>1, <1>3, MainAct, ReadyReads
<1>5. ActFits(act[o][l])'
    BY <1>1, <1>3, <1>4 DEF ActFits
<1>6. WakeupsBelow(run.rev + 1)' /\ RevisionFits(act[o][l])'
    BY <1>1, <1>3, <1>4 DEF DataInv, RevisionInv, RevisionFits, WakeupsBelow
<1>7. StepUntouched /\ ~rec[run.step].output
    BY <1>1, <1>2, ReadyReads DEF StepUntouched
<1> QED
    BY <1>4, <1>5, <1>6, <1>7, UntouchedKeeps

LEMMA QueueContinueKeeps ==
    ASSUME SkeletonInv, DataInv, NEW o \in Owner, NEW l \in Loop, QueueContinue(o, l)
    PROVE  DataInv'
<1>1. /\ act[o][l].at = "queue" /\ act[o][l] \in Activation
      /\ Enqueue(ContinueKey(act[o][l].step, act[o][l].rev))
      /\ act' = [act EXCEPT ![o][l] = NoAct] /\ UNCHANGED <<run, rec, gate, ext>>
    BY AtPoint, TypeParts DEF SkeletonInv, QueueContinue
<1>2. /\ run.rev \in Nat /\ act[o][l].rev \in Nat /\ act[o][l].step \in Steps
      /\ act[o][l].rev <= run.rev /\ WakeupsBelow(run.rev + 1)
    BY <1>1, RunFields DEF SkeletonInv, DataInv, RevisionInv, RevisionFits, Activation
<1>3. /\ act'[o][l] = NoAct
      /\ \A p \in Owner, m \in Loop : p # o \/ m # l => act'[p][m].at \in Parked
    BY <1>1, NoActType, MainAct DEF Parked
<1>4. ActFits(act[o][l])' /\ RevisionFits(act[o][l])'
    BY <1>3, NoActType DEF ActFits, RevisionFits
<1>5. WakeupsBelow(run.rev + 1)'
    <2> DEFINE k == ContinueKey(act[o][l].step, act[o][l].rev)
    <2>1. k \in EngineKey /\ k.rev = act[o][l].rev
        BY <1>2, BuiltKeys DEF ContinueKey
    <2> HIDE DEF k
    <2>2. /\ \A i \in DOMAIN commands : commands'[i] = commands[i]
          /\ \A i \in DOMAIN commands' : i \notin DOMAIN commands => commands'[i] = QueuedRow(k)
        BY <1>1, <2>1, EnqueueRows, TypeParts DEF SkeletonInv, k
    <2>3. \A i \in DOMAIN commands' : i \notin DOMAIN commands => commands'[i].key.rev < run.rev + 1
        BY <1>2, <2>1, <2>2 DEF QueuedRow
    <2> QED
        BY <1>1, <1>2, <2>2, <2>3 DEF WakeupsBelow
<1>6. StepUntouched /\ ~rec[run.step].output
    BY <1>1, <1>2, NotDone DEF StepUntouched, Parked
<1> QED
    BY <1>3, <1>4, <1>5, <1>6, UntouchedKeeps

(* Only a step that waits for the operator, and has not been answered, has *)
(* an open gate.                                                           *)
LEMMA NoOpenGate ==
    ASSUME SkeletonInv, DataInv,
           \/ rec[run.step].tr.type # "await-user"
           \/ gate[<<run.step, rec[run.step].tr.ord>>] = "answered"
    PROVE  \A g \in Gate : gate[g] # "open"
<1> SUFFICES ASSUME NEW g \in Gate, gate[g] = "open" PROVE FALSE
    OBVIOUS
<1>1. run.step = g[1] /\ rec[run.step].tr = Tr("await-user", g[2])
    BY DEF DataInv, OpenGateIsCurrent
<1>2. rec[run.step].tr.type = "await-user" /\ rec[run.step].tr.ord = g[2]
    BY <1>1 DEF Tr
<1>3. g = <<run.step, rec[run.step].tr.ord>>
    BY <1>1, <1>2 DEF Gate
<1> QED
    BY <1>2, <1>3

(* What may be saved as the next transition of the current step: something *)
(* new, or what the step asks for already.                                 *)
MaySave(tr) ==
    /\ tr \in Transition /\ tr.type # "none"
    /\ tr.type \in {"invoke-agent", "run-command", "await-user"} => tr.ord >= rec[run.step].ord
    /\ tr.type \in {"complete", "blocked"} => tr = Tr(tr.type, 0)
    /\ tr.corr => tr.type = "invoke-agent"

LEMMA SavedStep ==
    ASSUME SkeletonInv, DataInv, NEW tr, MaySave(tr), SaveTransition(run.step, tr),
           UNCHANGED <<gate, ext>>, ~rec[run.step].output, \A g \in Gate : gate[g] # "open"
    PROVE  /\ StepInv' /\ IssuedInv' /\ StepsInOrder' /\ OpenGateIsCurrent' /\ DoneInv'
           /\ run'.rev = run.rev + 1 /\ run'.step = run.step /\ rec'[run'.step].tr = tr
<1>1. /\ run.rev \in Nat /\ run.step \in Steps /\ tr \in Transition
    BY RunFields DEF SkeletonInv, MaySave
<1>2. /\ run'.status = StatusOf(tr) /\ run'.rev = run.rev + 1 /\ run'.step = run.step
      /\ rec'[run.step].tr = tr /\ rec'[run.step].output = rec[run.step].output
      /\ rec'[run.step].ord = IF tr.type \in {"complete", "blocked"} THEN rec[run.step].ord ELSE tr.ord
      /\ \A r \in Steps : r # run.step => rec'[r] = rec[r]
    BY <1>1, SaveTypes DEF SkeletonInv
<1>3. StepInv'
    BY <1>1, <1>2 DEF DataInv, StepInv, MaySave, Transition
<1>4. IssuedInv'
    <2>1. \A s \in Steps : rec[s].ord \in Nat /\ tr.ord \in Nat
        BY <1>1, FirstAndLast, TypeParts DEF SkeletonInv, DataTypeOK, Transition, Ordinal
    <2>2. ASSUME NEW s \in Steps PROVE rec'[s].ord \in Nat /\ rec'[s].ord >= rec[s].ord
        BY <1>1, <1>2, <2>1 DEF MaySave, Transition
    <2>3. \A k \in CallKey : k.step \in Steps /\ k.ord \in Nat
        BY FirstAndLast DEF CallKey, Ordinal
    <2>4. \A g \in Gate : g[1] \in Steps /\ g[2] \in Nat
        BY FirstAndLast DEF Gate, Ordinal
    <2> QED
        BY <2>1, <2>2, <2>3, <2>4 DEF DataInv, IssuedInv
<1>5. StepsInOrder'
    BY <1>1, <1>2 DEF DataInv, StepsInOrder, StatusOf, Steps
<1>6. OpenGateIsCurrent' /\ DoneInv'
    BY <1>2 DEF OpenGateIsCurrent, DoneInv
<1> QED
    BY <1>2, <1>3, <1>4, <1>5, <1>6

LEMMA SavedFollows ==
    ASSUME SkeletonInv, DataInv, NEW o \in Owner, NEW l \in Loop, NEW rev \in Nat, NEW tr,
           \/ act[o][l].at \notin Parked
           \/ act[o][l].at = "dispatch" /\ Command(o, l).kind # "cancel-run",
           MaySave(tr), SaveTransition(run.step, tr), UNCHANGED <<gate, ext>>,
           ~rec[run.step].output, \A g \in Gate : gate[g] # "open",
           tr.type = "await-user" => gate[<<run.step, tr.ord>>] = "none",
           rev <= run.rev + 1, WakeupsBelow(rev), Follows(o, l, run.step, tr, rev)
    PROVE  DataInv'
<1>1. /\ StepInv' /\ IssuedInv' /\ StepsInOrder' /\ OpenGateIsCurrent' /\ DoneInv'
      /\ run'.rev = run.rev + 1 /\ run'.step = run.step /\ rec'[run'.step].tr = tr
    BY SavedStep
<1>2. run.rev \in Nat /\ run.step \in Steps /\ tr \in Transition
    BY RunFields DEF SkeletonInv, MaySave
<1>3. UNCHANGED commands
    BY DEF Follows, Goes, Leaves, WorkEnds
<1>4. WakeupsBelow(run.rev + 1)' /\ WakeupsBelow(rev)'
    BY <1>1, <1>2, <1>3, WakeupsStayBelow DEF DataInv, RevisionInv, NoNewWakeup
<1>5. CASE tr.type = "blocked"
    <2>1. act' = [act EXCEPT ![o][l] = NoAct]
        BY <1>5 DEF Follows, Leaves
    <2>2. /\ act'[o][l] = NoAct
          /\ \A p \in Owner, m \in Loop : p # o \/ m # l => act'[p][m].at \in Parked
        BY <2>1, NoActType, MainAct
    <2>3. ActFits(act[o][l])' /\ RevisionFits(act[o][l])'
        BY <2>2, NoActType DEF ActFits, RevisionFits
    <2> QED
        BY <1>1, <1>4, <2>2, <2>3, OneActor
<1>6. CASE tr.type # "blocked"
    <2> DEFINE point == CASE tr.type = "await-user" -> "gate"
                          [] tr.type = "complete" -> "artifact"
                          [] OTHER -> "queue"
               b == [at |-> point, rev |-> rev, step |-> run.step, tr |-> tr]
    <2>1. /\ point \in {"gate", "artifact", "queue"}
          /\ point = "gate" => tr.type = "await-user"
          /\ point = "artifact" => tr.type = "complete"
        OBVIOUS
    <2>2. act' = [act EXCEPT ![o][l] = b]
        BY <1>6 DEF Follows, Goes
    <2> HIDE DEF point
    <2>3. b \in Activation /\ b.at = point /\ b.rev = rev /\ b.step = run.step /\ b.tr = tr
        BY <1>2, <2>1 DEF Activation, Synchronous, Awaiting
    <2> HIDE DEF b
    <2>4. /\ act'[o][l] = b
          /\ \A p \in Owner, m \in Loop : p # o \/ m # l => act'[p][m].at \in Parked
        BY <2>2, <2>3, MainAct
    <2>5. ActFits(act[o][l])'
        BY <1>1, <2>1, <2>3, <2>4 DEF ActFits
    <2>6. RevisionFits(act[o][l])'
        BY <1>1, <1>4, <2>1, <2>3, <2>4 DEF RevisionFits
    <2> QED
        BY <1>1, <1>4, <2>4, <2>5, <2>6, OneActor
<1> QED
    BY <1>5, <1>6

(* A request beyond the counter of the step has no result yet.             *)
LEMMA NewCall ==
    ASSUME SkeletonInv, DataInv, NEW tr \in Transition, ~tr.corr, tr.ord = rec[run.step].ord + 1
    PROVE  ~ext[CallOf(run.step, tr)].stored
<1> DEFINE k == CallOf(run.step, tr)
<1>1. run.step \in Steps /\ rec[run.step].ord \in Nat
    BY RunFields, RecFields DEF SkeletonInv
<1>2. k \in CallKey /\ k.step = run.step /\ k.kind # "correction" /\ k.ord = tr.ord
    BY <1>1, CallKeys
<1> HIDE DEF k
<1>3. ~ext[k].stored
    BY <1>1, <1>2 DEF DataInv, IssuedInv
<1> QED
    BY <1>3 DEF k

(* An outcome of the current step is new. *)
LEMMA OutcomeIsNew ==
    ASSUME SkeletonInv, DataInv,
           NEW types, types \subseteq {"invoke-agent", "run-command", "await-user",
                                      "complete", "blocked"},
           NEW tr \in Outcomes(run.step, types)
    PROVE  /\ MaySave(tr) /\ tr.type \in types /\ ~tr.corr
           /\ tr.type = "await-user" => gate[<<run.step, tr.ord>>] = "none"
           /\ tr.type \in {"invoke-agent", "run-command"} =>
                  tr.ord = rec[run.step].ord + 1 /\ ~ext[CallOf(run.step, tr)].stored
<1>1. /\ tr \in Transition /\ tr.type \in types /\ ~tr.corr
      /\ tr.type \in {"invoke-agent", "run-command", "await-user"} => tr.ord = rec[run.step].ord + 1
      /\ tr.type \in {"complete", "blocked"} => tr = Tr(tr.type, 0)
    BY OutcomeShape, RunFields DEF SkeletonInv
<1>2. rec[run.step].ord \in Nat /\ tr.ord \in Ordinal /\ run.step \in Steps
    BY <1>1, RunFields, RecFields DEF SkeletonInv, Transition
<1>3. MaySave(tr)
    BY <1>1, <1>2 DEF MaySave
<1>4. tr.type = "await-user" => gate[<<run.step, tr.ord>>] = "none"
    <2>1. <<run.step, tr.ord>> \in Gate
        BY <1>2 DEF Gate
    <2> QED
        BY <1>1, <1>2, <2>1 DEF DataInv, IssuedInv
<1>5. tr.type \in {"invoke-agent", "run-command"} => ~ext[CallOf(run.step, tr)].stored
    BY <1>1, NewCall
<1> QED
    BY <1>1, <1>3, <1>4, <1>5

LEMMA StartStepKeeps ==
    ASSUME SkeletonInv, DataInv, NEW o \in Owner, NEW l \in Loop, StartStep(o, l)
    PROVE  DataInv'
<1> DEFINE types == {"invoke-agent", "run-command", "blocked"}
           rev == RevisionRead(o, l) + 1
<1>1. Ready(o, l) /\ rec[run.step].tr = NoTr /\ UNCHANGED <<gate, ext>>
    BY DEF StartStep
<1>2. PICK tr \in Outcomes(run.step, types) :
          SaveTransition(run.step, tr) /\ Follows(o, l, run.step, tr, rev)
    BY DEF StartStep
<1>3. MaySave(tr) /\ (tr.type = "await-user" => gate[<<run.step, tr.ord>>] = "none")
    BY OutcomeIsNew
<1>4. \A g \in Gate : gate[g] # "open"
    BY <1>1, NoActType, NoOpenGate
<1>5. rev \in Nat /\ rev <= run.rev + 1 /\ WakeupsBelow(rev)
    <2>1. run.rev \in Nat /\ act[o][l].rev \in Nat
        BY RunFields, TypeParts DEF SkeletonInv, Activation
    <2>2. WakeupsBelow(run.rev + 1) /\ RevisionFits(act[o][l])
        BY DEF DataInv, RevisionInv
    <2> QED
        BY <2>1, <2>2 DEF RevisionRead, RevisionFits
<1> HIDE DEF rev
<1> QED
    BY <1>1, <1>2, <1>3, <1>4, <1>5, ReadyReads, SavedFollows

LEMMA PersistAnswerKeeps ==
    ASSUME SkeletonInv, DataInv, NEW o \in Owner, NEW l \in Loop, PersistAnswer(o, l)
    PROVE  DataInv'
<1> DEFINE b == [act[o][l] EXCEPT !.at = "queue"]
           tr == act[o][l].tr
<1>1. /\ act[o][l].at = "answered" /\ act[o][l] \in Activation
      /\ SaveTransition(act[o][l].step, tr) /\ UNCHANGED <<commands, gate, ext>>
      /\ act' = [act EXCEPT ![o][l] = b]
    BY AtPoint, TypeParts DEF SkeletonInv, PersistAnswer, Goes
<1>2. /\ act[o][l].step = run.step /\ rec[run.step].tr.type = "await-user"
      /\ gate[<<run.step, rec[run.step].tr.ord>>] = "answered"
      /\ ~tr.corr
      /\ \/ tr.type \in {"invoke-agent", "run-command"} /\ tr.ord = rec[run.step].ord + 1
         \/ tr.type \in {"complete", "blocked"} /\ tr = Tr(tr.type, 0)
    BY <1>1 DEF DataInv, ActInv, ActFits
<1>3. /\ act[o][l].rev \in Nat /\ run.rev \in Nat
      /\ act[o][l].rev <= run.rev + 1 /\ WakeupsBelow(act[o][l].rev) /\ WakeupsBelow(run.rev + 1)
    BY <1>1, RunFields DEF SkeletonInv, DataInv, RevisionInv, RevisionFits, Activation
<1>4. MaySave(tr)
    <2>1. rec[run.step].ord \in Nat /\ tr \in Transition
        BY <1>1, RunFields, RecFields DEF SkeletonInv, Activation
    <2> QED
        BY <1>2, <2>1 DEF MaySave
<1>5. b \in Activation /\ b.at = "queue" /\ b.rev = act[o][l].rev
    BY <1>1 DEF Activation, Synchronous
<1> HIDE DEF b, tr
<1>6. ~rec[run.step].output
    BY <1>1, NotDone DEF Parked
<1>7. /\ StepInv' /\ IssuedInv' /\ StepsInOrder' /\ OpenGateIsCurrent' /\ DoneInv'
      /\ run'.rev = run.rev + 1
    BY <1>1, <1>2, <1>4, <1>6, NoOpenGate, SavedStep
<1>8. /\ act'[o][l] = b
      /\ \A p \in Owner, m \in Loop : p # o \/ m # l => act'[p][m].at \in Parked
    BY <1>1, <1>5, MainAct DEF Parked
<1>9. ActFits(act[o][l])'
    BY <1>5, <1>8 DEF ActFits
<1>10. WakeupsBelow(run.rev + 1)' /\ RevisionFits(act[o][l])'
    <2>1. WakeupsBelow(run.rev + 1)' /\ WakeupsBelow(act[o][l].rev)'
        BY <1>1, <1>3, <1>5, <1>7, <1>8, WakeupsStayBelow DEF NoNewWakeup
    <2> QED
        BY <1>3, <1>5, <1>7, <1>8, <2>1 DEF RevisionFits
<1> QED
    BY <1>7, <1>8, <1>9, <1>10, OneActor

(* A loop that has a result works on the request of the current step.      *)
LEMMA ResultIsCurrent ==
    ASSUME DataInv, NEW o \in Owner, NEW l \in Loop, act[o][l].at = "result"
    PROVE  /\ act[o][l].step = run.step /\ act[o][l].tr = rec[run.step].tr
           /\ act[o][l].tr.type \in {"invoke-agent", "run-command"}
           /\ ext[CallOf(run.step, act[o][l].tr)].stored
           /\ ~rec[run.step].output
<1>1. ~rec[run.step].output
    BY NotDone DEF Parked
<1> QED
    BY <1>1 DEF DataInv, ActInv, ActFits

(* The correction of a request may be saved, and so may the end of the     *)
(* attempts to correct it.                                                 *)
LEMMA CorrectionMaySave ==
    ASSUME SkeletonInv, DataInv, NEW q, q = rec[run.step].tr, q.type = "invoke-agent",
           NEW tr, tr = IF q.corr THEN Tr("blocked", 0) ELSE [q EXCEPT !.corr = TRUE]
    PROVE  MaySave(tr) /\ tr.type # "await-user" /\ (tr.corr \/ tr.type = "blocked")
<1>1. q \in Transition /\ rec[run.step].ord \in Nat /\ q.ord = rec[run.step].ord
    BY RunFields, RecFields DEF SkeletonInv, DataInv, StepInv
<1>2. CASE q.corr
    <2>1. tr = Tr("blocked", 0)
        BY <1>2
    <2>2. tr \in Transition
        BY <2>1, FirstAndLast DEF Transition, Tr
    <2>3. tr.type = "blocked" /\ ~tr.corr
        BY <2>1 DEF Tr
    <2>4. MaySave(tr)
        BY <2>1, <2>2, <2>3 DEF MaySave
    <2> QED
        BY <2>3, <2>4
<1>3. CASE ~q.corr
    <2>1. tr \in Transition /\ tr.type = "invoke-agent" /\ tr.ord = q.ord /\ tr.corr
        BY <1>1, <1>3 DEF Transition
    <2> QED
        BY <1>1, <2>1 DEF MaySave
<1> QED
    BY <1>2, <1>3

LEMMA ScheduleCorrectionKeeps ==
    ASSUME SkeletonInv, DataInv, NEW o \in Owner, NEW l \in Loop, ScheduleCorrection(o, l)
    PROVE  DataInv'
<1> DEFINE q == act[o][l].tr
           tr == IF q.corr THEN Tr("blocked", 0) ELSE [q EXCEPT !.corr = TRUE]
<1>1. /\ act[o][l].at = "result" /\ q.type = "invoke-agent"
      /\ SaveTransition(act[o][l].step, tr) /\ UNCHANGED <<gate, ext>>
      /\ Follows(o, l, act[o][l].step, tr, run.rev + 1)
    BY AtPoint DEF ScheduleCorrection, Invalid
<1>2. /\ act[o][l].step = run.step /\ q = rec[run.step].tr /\ ~rec[run.step].output
    BY <1>1, ResultIsCurrent
<1>3. \A g \in Gate : gate[g] # "open"
    BY <1>1, <1>2, NoOpenGate
<1>4. MaySave(tr) /\ tr.type # "await-user"
    BY <1>1, <1>2, CorrectionMaySave
<1> HIDE DEF tr
<1>5. run.rev + 1 \in Nat /\ run.rev + 1 <= run.rev + 1 /\ WakeupsBelow(run.rev + 1)
    BY RunFields DEF SkeletonInv, DataInv, RevisionInv
<1> QED
    BY <1>1, <1>2, <1>3, <1>4, <1>5, SavedFollows DEF Parked

LEMMA ApplyResultKeeps ==
    ASSUME SkeletonInv, DataInv, NEW o \in Owner, NEW l \in Loop, ApplyResult(o, l)
    PROVE  DataInv'
<1> DEFINE types == {"invoke-agent", "run-command", "await-user", "complete", "blocked"}
<1>1. act[o][l].at = "result" /\ UNCHANGED <<gate, ext>>
    BY AtPoint DEF ApplyResult
<1>2. /\ act[o][l].step = run.step /\ ~rec[run.step].output
      /\ rec[run.step].tr.type \in {"invoke-agent", "run-command"}
    BY <1>1, ResultIsCurrent
<1>3. PICK tr \in Outcomes(run.step, types) :
          SaveTransition(run.step, tr) /\ Follows(o, l, run.step, tr, run.rev + 1)
    BY <1>2 DEF ApplyResult
<1>4. MaySave(tr) /\ (tr.type = "await-user" => gate[<<run.step, tr.ord>>] = "none")
    BY OutcomeIsNew
<1>5. \A g \in Gate : gate[g] # "open"
    BY <1>2, NoOpenGate
<1>6. run.rev + 1 \in Nat /\ run.rev + 1 <= run.rev + 1 /\ WakeupsBelow(run.rev + 1)
    BY RunFields DEF SkeletonInv, DataInv, RevisionInv
<1> QED
    BY <1>1, <1>2, <1>3, <1>4, <1>5, <1>6, SavedFollows DEF Parked

(* The gate that is answered is the one the current step waits with.       *)
LEMMA AnsweredGate ==
    ASSUME SkeletonInv, DataInv, NEW o \in Owner, NEW l \in Loop, AnswerGate(o, l)
    PROVE  /\ rec[run.step].tr.type = "await-user" /\ run.step \in Steps
           /\ <<run.step, rec[run.step].tr.ord>> \in Gate
           /\ Command(o, l).gate = <<run.step, rec[run.step].tr.ord>>
<1> DEFINE g == Command(o, l).gate
<1>1. act[o][l].at = "dispatch" /\ Command(o, l).kind = "submit-answers" /\ gate[g] = "open"
    BY AtPoint DEF AnswerGate, CloseGate
<1>2. g \in Gate
    <2>1. loop[o][l].job \in DOMAIN commands
        BY <1>1 DEF SkeletonInv, ThreadInv, JobInv, Busy
    <2>2. Command(o, l) \in EngineKey
        BY <2>1, TableRows, TypeParts DEF SkeletonInv, Command, Row
    <2> QED
        BY <1>1, <2>2, KeyFields
<1> HIDE DEF g
<1>3. run.step = g[1] /\ rec[run.step].tr = Tr("await-user", g[2])
    BY <1>1, <1>2 DEF DataInv, OpenGateIsCurrent
<1>4. rec[run.step].tr.type = "await-user" /\ g = <<run.step, rec[run.step].tr.ord>>
    BY <1>2, <1>3 DEF Gate, Tr
<1>5. run.step \in Steps
    BY RunFields DEF SkeletonInv
<1> QED
    BY <1>2, <1>4, <1>5 DEF g

LEMMA AnswerGateKeeps ==
    ASSUME SkeletonInv, DataInv, NEW o \in Owner, NEW l \in Loop, AnswerGate(o, l)
    PROVE  DataInv'
<1> DEFINE types == {"invoke-agent", "run-command", "complete", "blocked"}
           g == Command(o, l).gate
<1>1. /\ act[o][l].at = "dispatch" /\ ~Over /\ Command(o, l).kind = "submit-answers"
      /\ gate[g] = "open" /\ gate' = [gate EXCEPT ![g] = "answered"]
      /\ UNCHANGED <<commands, run, rec, ext>>
    BY AtPoint DEF AnswerGate, CloseGate, Goes, Leaves, WorkEnds
<1>2. run.rev \in Nat /\ run.step \in Steps /\ ~rec[run.step].output
    BY <1>1, RunFields, NotDone DEF SkeletonInv
<1>3. /\ rec[run.step].tr.type = "await-user" /\ g = <<run.step, rec[run.step].tr.ord>>
      /\ g \in Gate
    BY AnsweredGate
<1> HIDE DEF g
<1>4. /\ gate'[g] = "answered" /\ \A h \in Gate : h # g => gate'[h] = gate[h]
    BY <1>1, <1>3, TypeParts DEF SkeletonInv, DataTypeOK
<1>5. StepInv' /\ StepsInOrder' /\ DoneInv'
    BY <1>1, <1>2 DEF DataInv, StepInv, StepsInOrder, DoneInv
<1>6. IssuedInv'
    BY <1>1, <1>3, <1>4 DEF DataInv, IssuedInv
<1>7. OpenGateIsCurrent'
    BY <1>1, <1>4 DEF DataInv, OpenGateIsCurrent
<1>8. WakeupsBelow(run.rev + 1)'
    BY <1>1 DEF DataInv, RevisionInv, WakeupsBelow
<1>9. ASSUME NEW b \in Activation, act' = [act EXCEPT ![o][l] = b]
      PROVE  /\ act'[o][l] = b
             /\ \A p \in Owner, m \in Loop : p # o \/ m # l => act'[p][m].at \in Parked
    <2>1. act[o][l].at = "dispatch" /\ Command(o, l).kind # "cancel-run"
        BY <1>1
    <2> QED
        BY <1>9, <2>1, MainAct
<1>10. ASSUME NEW tr \in Outcomes(run.step, types),
              Goes(o, l, [at |-> "answered", rev |-> run.rev + 1, step |-> run.step, tr |-> tr])
       PROVE  DataInv'
    <2>1. /\ tr \in Transition /\ tr.type \in types /\ ~tr.corr
          /\ tr.type \in {"invoke-agent", "run-command"} => tr.ord = rec[run.step].ord + 1
          /\ tr.type \in {"complete", "blocked"} => tr = Tr(tr.type, 0)
        BY OutcomeIsNew DEF MaySave
    <2> DEFINE b == [at |-> "answered", rev |-> run.rev + 1, step |-> run.step, tr |-> tr]
    <2>2. /\ b \in Activation /\ b.at = "answered" /\ b.rev = run.rev + 1
          /\ b.step = run.step /\ b.tr = tr
        BY <1>2, <2>1 DEF Activation, Synchronous
    <2>3. act' = [act EXCEPT ![o][l] = b]
        BY <1>10 DEF Goes
    <2> HIDE DEF b
    <2>4. /\ act'[o][l] = b
          /\ \A p \in Owner, m \in Loop : p # o \/ m # l => act'[p][m].at \in Parked
        BY <1>9, <2>2, <2>3
    <2>5. ActFits(act[o][l])'
        BY <1>1, <1>3, <1>4, <2>1, <2>2, <2>4 DEF ActFits
    <2>6. RevisionFits(act[o][l])'
        BY <1>1, <1>2, <1>8, <2>2, <2>4 DEF RevisionFits, WakeupsBelow
    <2> QED
        BY <1>5, <1>6, <1>7, <1>8, <2>4, <2>5, <2>6, OneActor
<1>11. CASE Leaves(o, l, "threw")
    <2>1. /\ act'[o][l] = NoAct
          /\ \A p \in Owner, m \in Loop : p # o \/ m # l => act'[p][m].at \in Parked
        BY <1>9, <1>11, NoActType DEF Leaves
    <2>2. ActFits(act[o][l])' /\ RevisionFits(act[o][l])'
        BY <2>1, NoActType DEF ActFits, RevisionFits
    <2> QED
        BY <1>5, <1>6, <1>7, <1>8, <2>1, <2>2, OneActor
<1> QED
    BY <1>10, <1>11 DEF AnswerGate

LEMMA CallReturnsKeeps ==
    ASSUME SkeletonInv, DataInv, NEW o \in Owner, NEW l \in Loop, CallReturns(o, l)
    PROVE  DataInv'
<1> DEFINE b == [act[o][l] EXCEPT !.at = "result"]
           k == CallOf(act[o][l].step, act[o][l].tr)
<1>1. /\ act[o][l].at = "call" /\ act[o][l] \in Activation
      /\ act' = [act EXCEPT ![o][l] = b] /\ UNCHANGED <<commands, run, rec, gate>>
    BY AtPoint, TypeParts DEF SkeletonInv, CallReturns, Goes
<1>2. PICK valid \in BOOLEAN : ext' = [ext EXCEPT ![k] = [stored |-> TRUE, valid |-> valid]]
    BY DEF CallReturns
<1>3. /\ act[o][l].step = run.step /\ act[o][l].tr = rec[run.step].tr
      /\ act[o][l].tr.type \in {"invoke-agent", "run-command"}
    BY <1>1 DEF DataInv, ActInv, ActFits
<1>4. /\ run.rev \in Nat /\ run.step \in Steps /\ act[o][l].tr \in Transition
      /\ ~rec[run.step].output
    BY <1>1, RunFields, NotDone DEF SkeletonInv, Activation, Parked
<1>5. /\ k \in CallKey /\ k.step = run.step
      /\ k.kind # "correction" => k.ord = rec[run.step].ord
    <2>1. /\ act[o][l].tr.ord = rec[run.step].ord
          /\ act[o][l].tr.corr => act[o][l].tr.type = "invoke-agent"
        BY <1>3, <1>4 DEF DataInv, StepInv
    <2> QED
        BY <1>3, <1>4, <2>1, CallKeys
<1>6. /\ b \in Activation /\ b.at = "result" /\ b.step = run.step /\ b.tr = rec[run.step].tr
    BY <1>1, <1>3 DEF Activation, Synchronous
<1>7. k = CallOf(run.step, rec[run.step].tr)
    BY <1>3
<1> HIDE DEF b, k
<1>8. /\ ext'[k] = [stored |-> TRUE, valid |-> valid] /\ ext'[k].stored
      /\ \A j \in CallKey : j # k => ext'[j] = ext[j]
    BY <1>2, <1>5, TypeParts DEF SkeletonInv, DataTypeOK
<1>9. StepInv' /\ StepsInOrder' /\ DoneInv' /\ OpenGateIsCurrent'
    BY <1>1, <1>4 DEF DataInv, StepInv, StepsInOrder, DoneInv, OpenGateIsCurrent
<1>10. IssuedInv'
    <2>1. rec[run.step].ord \in Nat
        BY <1>4, RecFields DEF SkeletonInv
    <2> QED
        BY <1>1, <1>5, <1>8, <2>1 DEF DataInv, IssuedInv
<1>11. /\ act'[o][l] = b
       /\ \A p \in Owner, m \in Loop : p # o \/ m # l => act'[p][m].at \in Parked
    BY <1>1, <1>6, MainAct DEF Parked
<1>12. ActFits(act[o][l])'
    <2>1. (ext[CallOf(run.step, act[o][l].tr)].stored <=> act[o][l].at = "result")'
        BY <1>1, <1>6, <1>7, <1>8, <1>11
    <2> QED
        BY <1>1, <1>3, <1>6, <1>11, <2>1 DEF ActFits
<1>13. WakeupsBelow(run.rev + 1)' /\ RevisionFits(act[o][l])'
    BY <1>1, <1>6, <1>11 DEF DataInv, RevisionInv, RevisionFits, WakeupsBelow
<1> QED
    BY <1>9, <1>10, <1>11, <1>12, <1>13, OneActor

LEMMA SaveGateKeeps ==
    ASSUME SkeletonInv, DataInv, NEW o \in Owner, NEW l \in Loop, SaveGate(o, l)
    PROVE  DataInv'
<1> DEFINE g == <<act[o][l].step, act[o][l].tr.ord>>
<1>1. /\ act[o][l].at = "gate" /\ gate' = [gate EXCEPT ![g] = "open"]
      /\ act' = [act EXCEPT ![o][l] = NoAct] /\ UNCHANGED <<commands, run, rec, ext>>
    BY AtPoint DEF SaveGate, OpenGate, Leaves, WorkEnds
<1>2. /\ act[o][l].step = run.step /\ act[o][l].tr = rec[run.step].tr
      /\ rec[run.step].tr.type = "await-user"
    <2>1. ActFits(act[o][l])
        BY DEF DataInv, ActInv
    <2> QED
        BY <1>1, <2>1 DEF ActFits
<1>3. /\ run.rev \in Nat /\ run.step \in Steps /\ rec[run.step].tr \in Transition
      /\ rec[run.step].ord \in Nat /\ ~rec[run.step].output
    BY <1>1, RunFields, RecFields, NotDone DEF SkeletonInv, Parked
<1>4. rec[run.step].tr = Tr("await-user", rec[run.step].ord)
    <2>1. rec[run.step].tr.ord = rec[run.step].ord /\ ~rec[run.step].tr.corr
        BY <1>2, <1>3 DEF DataInv, StepInv
    <2> QED
        BY <1>2, <1>3, <2>1 DEF Transition, Tr
<1>5. g \in Gate /\ g = <<run.step, rec[run.step].ord>>
    BY <1>2, <1>3, <1>4 DEF Gate, Transition, Tr
<1> HIDE DEF g
<1>6. gate'[g] = "open" /\ \A h \in Gate : h # g => gate'[h] = gate[h]
    BY <1>1, <1>5, TypeParts DEF SkeletonInv, DataTypeOK
<1>7. StepInv' /\ StepsInOrder' /\ DoneInv'
    BY <1>1, <1>3 DEF DataInv, StepInv, StepsInOrder, DoneInv
<1>8. IssuedInv'
    BY <1>1, <1>3, <1>5, <1>6 DEF DataInv, IssuedInv
<1>9. OpenGateIsCurrent'
    BY <1>1, <1>4, <1>5, <1>6 DEF DataInv, OpenGateIsCurrent
<1>10. /\ act'[o][l] = NoAct
       /\ \A p \in Owner, m \in Loop : p # o \/ m # l => act'[p][m].at \in Parked
    BY <1>1, NoActType, MainAct DEF Parked
<1>11. ActFits(act[o][l])' /\ RevisionFits(act[o][l])'
    BY <1>10, NoActType DEF ActFits, RevisionFits
<1>12. WakeupsBelow(run.rev + 1)'
    BY <1>1 DEF DataInv, RevisionInv, WakeupsBelow
<1> QED
    BY <1>7, <1>8, <1>9, <1>10, <1>11, <1>12, OneActor

LEMMA ArtifactWrittenKeeps ==
    ASSUME SkeletonInv, DataInv, NEW o \in Owner, NEW l \in Loop, ArtifactWritten(o, l)
    PROVE  DataInv'
<1> DEFINE s == run.step
<1>1. act[o][l].at = "artifact" /\ UNCHANGED <<commands, gate, ext>>
    BY AtPoint DEF ArtifactWritten, Leaves, WorkEnds, Goes
<1>2. act[o][l].step = s /\ rec[s].tr.type = "complete"
    BY <1>1 DEF DataInv, ActInv, ActFits
<1>3. /\ run.rev \in Nat /\ s \in 1..LastStep /\ LastStep \in Nat /\ s \in Steps
      /\ ~rec[run.step].output
    BY <1>1, RunFields, FirstAndLast, NotDone DEF SkeletonInv, Steps, Parked
<1>4. CompleteStep(s)
    BY <1>2 DEF ArtifactWritten
<1>5. /\ run'.status = IF s < LastStep THEN "queued" ELSE "completed"
      /\ run'.rev = run.rev + 1 /\ run'.step = IF s < LastStep THEN s + 1 ELSE s
      /\ rec'[s].tr = Tr("complete", 0) /\ rec'[s].output /\ rec'[s].ord = rec[s].ord
      /\ \A r \in Steps : r # s => rec'[r] = rec[r]
    BY <1>3, <1>4, CompleteTypes DEF SkeletonInv
<1>6. \A g \in Gate : gate[g] # "open"
    BY <1>2, NoOpenGate
<1>7. StepInv'
    <2>1. /\ rec'[s].tr.type = "complete" /\ rec'[s].tr = Tr(rec'[s].tr.type, 0)
          /\ ~rec'[s].tr.corr
        BY <1>5 DEF Tr
    <2> QED
        BY <1>5, <2>1 DEF DataInv, StepInv
<1>8. IssuedInv'
    <2>1. \A r \in Steps : rec'[r].ord = rec[r].ord
        BY <1>5
    <2>2. (\A k \in CallKey : k.step \in Steps) /\ \A g \in Gate : g[1] \in Steps
        BY DEF CallKey, Gate
    <2> QED
        BY <1>1, <2>1, <2>2 DEF DataInv, IssuedInv
<1>9. StepsInOrder'
    BY <1>3, <1>5 DEF DataInv, StepsInOrder, Steps
<1>10. OpenGateIsCurrent'
    BY <1>1, <1>6 DEF OpenGateIsCurrent
<1>11. WakeupsBelow(run.rev + 1)
    BY DEF DataInv, RevisionInv
<1>12. WakeupsBelow(run.rev + 1)'
    BY <1>1, <1>3, <1>5, <1>11, WakeupsStayBelow DEF NoNewWakeup
<1>13. CASE s = LastStep
    <2>1. act' = [act EXCEPT ![o][l] = NoAct]
        BY <1>2, <1>13 DEF ArtifactWritten, Leaves
    <2>2. /\ act'[o][l] = NoAct
          /\ \A p \in Owner, m \in Loop : p # o \/ m # l => act'[p][m].at \in Parked
        BY <1>1, <2>1, NoActType, MainAct DEF Parked
    <2>3. ActFits(act[o][l])' /\ RevisionFits(act[o][l])'
        BY <2>2, NoActType DEF ActFits, RevisionFits
    <2>4. DoneInv'
        <3>1. run'.status = "completed" /\ run'.step = LastStep
            BY <1>3, <1>5, <1>13
        <3>2. \A p \in Owner, m \in Loop : act'[p][m].at \in Parked
            BY <2>2, NoActType DEF Parked
        <3> QED
            BY <3>1, <3>2 DEF DoneInv, Over
    <2> QED
        BY <1>7, <1>8, <1>9, <1>10, <1>12, <2>2, <2>3, <2>4, OneActor
<1>14. CASE s # LastStep
    <2> DEFINE b == [at |-> "queue", rev |-> run.rev + 1, step |-> s + 1, tr |-> NoTr]
    <2>1. act' = [act EXCEPT ![o][l] = b]
        BY <1>2, <1>14 DEF ArtifactWritten, Goes
    <2>2. s + 1 \in Steps /\ s < LastStep
        BY <1>3, <1>14 DEF Steps
    <2>3. b \in Activation /\ b.at = "queue" /\ b.rev = run.rev + 1
        BY <1>3, <2>2, NoActType DEF Activation, Synchronous
    <2> HIDE DEF b
    <2>4. /\ act'[o][l] = b
          /\ \A p \in Owner, m \in Loop : p # o \/ m # l => act'[p][m].at \in Parked
        BY <1>1, <2>1, <2>3, MainAct DEF Parked
    <2>5. ActFits(act[o][l])'
        BY <2>3, <2>4 DEF ActFits
    <2>6. RevisionFits(act[o][l])'
        BY <1>1, <1>3, <1>5, <1>11, <2>3, <2>4 DEF RevisionFits, WakeupsBelow
    <2>7. DoneInv'
        <3>1. ~rec[s + 1].output
            BY <1>3, <2>2 DEF DataInv, StepsInOrder
        <3>2. run'.step = s + 1 /\ rec'[s + 1] = rec[s + 1]
            BY <1>3, <1>5, <2>2
        <3> QED
            BY <3>1, <3>2 DEF DoneInv
    <2> QED
        BY <1>7, <1>8, <1>9, <1>10, <1>12, <2>4, <2>5, <2>6, <2>7, OneActor
<1> QED
    BY <1>13, <1>14

LEMMA DataInit == Init => DataInv
<1> SUFFICES ASSUME Init PROVE DataInv
    OBVIOUS
<1> USE DEF Init, CoordinatorInit, StoreInit
<1>1. run.step = 1 /\ run.status = "absent" /\ run.rev = 0 /\ 1 \in Steps /\ commands = <<>>
    BY FirstAndLast
<1>2. \A s \in Steps : rec[s].tr = NoTr /\ rec[s].ord = 0 /\ ~rec[s].output
    OBVIOUS
<1>3. \A o \in Owner, l \in Loop : act[o][l].at = "none"
    BY NoActType
<1>4. StepInv
    BY <1>2 DEF StepInv, NoTr, Tr
<1>5. IssuedInv /\ OpenGateIsCurrent
    BY DEF IssuedInv, OpenGateIsCurrent, NoResult
<1>6. StepsInOrder
    BY <1>1, <1>2 DEF StepsInOrder, Steps
<1>7. ActInv /\ DoneInv
    BY <1>1, <1>2, <1>3 DEF ActInv, ActFits, DoneInv
<1>8. RevisionInv
    BY <1>1, <1>3 DEF RevisionInv, RevisionFits, WakeupsBelow
<1> QED
    BY <1>4, <1>5, <1>6, <1>7, <1>8 DEF DataInv

LEMMA DataStep == SkeletonInv /\ DataInv /\ [Next]_vars => DataInv'
    BY SkeletonStep, QuietSteps, QuietKeeps, BeginStartKeeps, WorktreeReadyKeeps, AnswerGateKeeps,
       PersistAnswerKeeps, BeginRetryKeeps, StartStepKeeps, BeginCallKeeps, BeginCompleteKeeps,
       CallReturnsKeeps, ScheduleCorrectionKeeps, ApplyResultKeeps, SaveGateKeeps,
       ArtifactWrittenKeeps, QueueContinueKeeps

-------------------------------------------------------------------------------
(* Commands that are not done with. *)

(* The row a loop works on is its own. *)
LEMMA OwnRow ==
    ASSUME SkeletonInv, NEW o \in Owner, NEW l \in Loop, loop[o][l].pc = "working"
    PROVE  /\ loop[o][l].job \in DOMAIN commands /\ ~Finished(commands[loop[o][l].job])
           /\ \A p \in Owner, m \in Loop : WorksOn(p, m, loop[o][l].job) => p = o /\ m = l
<1>1. Busy(o, l)
    BY DEF Busy
<1>2. loop[o][l].job \in DOMAIN commands /\ HoldsLease(o, loop[o][l].job)
    BY <1>1 DEF SkeletonInv, JobInv
<1>3. ASSUME NEW p \in Owner, NEW m \in Loop, WorksOn(p, m, loop[o][l].job)
      PROVE  p = o /\ m = l
    <2>1. Busy(p, m) /\ loop[p][m].job = loop[o][l].job
        BY <1>3 DEF WorksOn, Busy
    <2>2. p = o
        BY <1>2, <2>1 DEF SkeletonInv, JobInv, HoldsLease
    <2>3. m = l
        BY <1>1, <2>1, <2>2 DEF SkeletonInv, JobInv, Loop
    <2> QED
        BY <2>2, <2>3
<1> QED
    BY <1>2, <1>3 DEF HoldsLease, Finished

LEMMA PendingKept ==
    ASSUME SilentInv, GoesOn' => GoesOn, DOMAIN commands \subseteq DOMAIN commands',
           \A i \in DOMAIN commands : Pending(i) => Pending(i)'
    PROVE  (GoesOn => \E i \in DOMAIN commands : Pending(i))'
    BY DEF SilentInv

(* A loop that goes on with its command, or that threw, leaves it pending. *)
LEMMA WorkPending ==
    ASSUME SkeletonInv, NEW o \in Owner, NEW l \in Loop, loop[o][l].pc = "working",
           UNCHANGED commands,
           \/ UNCHANGED loop
           \/ ProcessEnds(o, l, "threw")
    PROVE  \E i \in DOMAIN commands' : Pending(i)'
<1>0. PICK i \in DOMAIN commands : i = loop[o][l].job
    BY OwnRow
<1>1. /\ i \in DOMAIN commands /\ ~Finished(commands[i])
      /\ \A p \in Owner, m \in Loop : WorksOn(p, m, i) => p = o /\ m = l
    BY <1>0, OwnRow
<1>2. /\ loop'[o][l].pc \in {"working", "threw"}
      /\ \A p \in Owner, m \in Loop : p # o \/ m # l => loop'[p][m] = loop[p][m]
    BY EndsAfter DEF SkeletonInv
<1>3. ~Finished(commands'[i])
    BY <1>1
<1>4. ASSUME NEW p \in Owner, NEW m \in Loop, WorksOn(p, m, i)' PROVE loop'[p][m].pc # "returned"
    <2>1. CASE p = o /\ m = l
        BY <1>2, <2>1
    <2>2. CASE p # o \/ m # l
        <3>1. loop'[p][m] = loop[p][m]
            BY <1>2, <2>2
        <3>2. WorksOn(p, m, i)
            BY <1>4, <3>1 DEF WorksOn
        <3> QED
            BY <1>1, <2>2, <3>2
    <2> QED
        BY <2>1, <2>2
<1>5. i \in DOMAIN commands'
    BY <1>1
<1>6. Pending(i)'
    BY <1>3, <1>4 DEF Pending
<1> QED
    BY <1>5, <1>6

(* A row that is appended is pending. *)
LEMMA NewPending ==
    ASSUME SkeletonInv, NEW k \in EngineKey, Enqueue(k),
           \A o \in Owner, l \in Loop : loop'[o][l].job = loop[o][l].job /\ (Busy(o, l)' => Busy(o, l)),
           NEW i \in DOMAIN commands', i \notin DOMAIN commands
    PROVE  Pending(i)'
<1>1. commands'[i] = QueuedRow(k)
    BY EnqueueRows, TypeParts DEF SkeletonInv
<1>2. ~Finished(commands'[i])
    BY <1>1 DEF Finished, QueuedRow
<1>3. \A o \in Owner, l \in Loop : ~WorksOn(o, l, i)'
    BY DEF SkeletonInv, JobInv, WorksOn, Busy
<1> QED
    BY <1>2, <1>3 DEF Pending

(* The status of a run that exists never becomes "absent" again.           *)
LEMMA StatusStays ==
    ASSUME SkeletonInv, [Next]_vars, run.status # "absent"
    PROVE  run'.status # "absent"
<1> USE DEF SkeletonInv
<1>1. ASSUME NEW status \in RunStatus, status # "absent", SetRunStatus(status)
      PROVE  run'.status # "absent"
    BY <1>1, StatusTypes
<1>2. ASSUME NEW s \in Steps, NEW tr \in Transition, SaveTransition(s, tr)
      PROVE  run'.status # "absent"
    BY <1>2, SaveTypes DEF StatusOf
<1>a. \A o \in Owner, l \in Loop : act[o][l].step \in Steps /\ act[o][l].tr \in Transition
    BY TypeParts DEF Activation
<1>3. ASSUME NEW o \in Owner, NEW l \in Loop, Process(o, l) PROVE run'.status # "absent"
    <2>1. CASE UNCHANGED run
        BY <2>1
    <2>2. CASE WorktreeReady(o, l) \/ BeginRetry(o, l) \/ Cancelled(o, l) \/ CallFails(o, l)
        <3>1. \/ UNCHANGED run \/ SetRunStatus("queued") \/ SetRunStatus("cancelled")
              \/ SetRunStatus("stalled") \/ SetRunStatus("blocked")
            BY <2>2 DEF WorktreeReady, BeginRetry, Cancelled, CallFails
        <3> QED
            BY <1>1, <2>1, <3>1 DEF RunStatus
    <2>3. CASE PersistAnswer(o, l)
        BY <1>2, <1>a, <2>3 DEF PersistAnswer
    <2>4. CASE StartStep(o, l) \/ ApplyResult(o, l)
        <3>1. ASSUME NEW s \in Steps, NEW types,
                     types \subseteq {"invoke-agent", "run-command", "await-user", "complete",
                                     "blocked"},
                     \E tr \in Outcomes(s, types) : SaveTransition(s, tr)
              PROVE  run'.status # "absent"
            BY <1>2, <3>1, OutcomeShape
        <3>2. CASE StartStep(o, l)
            <4>1. \E tr \in Outcomes(run.step, {"invoke-agent", "run-command", "blocked"}) :
                      SaveTransition(run.step, tr)
                BY <3>2 DEF StartStep
            <4> QED
                BY <3>1, <4>1, RunFields
        <3>3. CASE ApplyResult(o, l)
            <4>1. \E tr \in Outcomes(act[o][l].step, {"invoke-agent", "run-command", "await-user",
                                                      "complete", "blocked"}) :
                      SaveTransition(act[o][l].step, tr)
                BY <3>3 DEF ApplyResult
            <4> QED
                BY <1>a, <3>1, <4>1
        <3> QED
            BY <2>4, <3>2, <3>3
    <2>5. CASE ScheduleCorrection(o, l)
        <3> DEFINE tr == IF act[o][l].tr.corr THEN Tr("blocked", 0)
                         ELSE [act[o][l].tr EXCEPT !.corr = TRUE]
        <3>1. tr \in Transition
            BY <1>a, FirstAndLast DEF Transition, Tr
        <3>2. SaveTransition(act[o][l].step, tr)
            BY <2>5 DEF ScheduleCorrection
        <3> HIDE DEF tr
        <3> QED
            BY <1>2, <1>a, <3>1, <3>2
    <2>6. CASE ArtifactWritten(o, l)
        BY <1>a, <2>6, CompleteTypes DEF ArtifactWritten
    <2> QED
        BY <1>3, <2>1, <2>2, <2>3, <2>4, <2>5, <2>6 DEF Process, BeginStart, BeginCancel, AnswerGate,
           BeginCall, BeginComplete, CallReturns, SaveGate, QueueContinue, NothingToDo, Throws
<1>4. ASSUME NEW o \in Owner, CreateRun(o) PROVE FALSE
    BY <1>4 DEF CreateRun
<1>5. ASSUME NEW o \in Owner, EngineStart(o) PROVE run'.status # "absent"
    BY <1>1, <1>5 DEF EngineStart, Recovers, RunStatus
<1>6. CASE UNCHANGED run
    BY <1>6
<1>7. CASE Next
    BY <1>3, <1>4, <1>5, <1>6, <1>7, NextCases DEF EnqueueStart, OperatorCommand, EngineCrash,
       EngineLease, EngineFinish, EngineLapse, engineVars
<1> QED
    BY <1>6, <1>7 DEF vars

(* A step of engine.process keeps its command pending, ends it for a run   *)
(* that need not go on, or queues a wakeup that is new.                    *)
LEMMA ProcessPending ==
    ASSUME SkeletonInv, DataInv, SilentInv, NEW o \in Owner, NEW l \in Loop, Process(o, l), GoesOn'
    PROVE  \E i \in DOMAIN commands' : Pending(i)'
<1> USE AtPoint, RunFields DEF SkeletonInv
<1>1. act[o][l] \in Activation /\ act[o][l].step \in Steps /\ act[o][l].tr \in Transition
    BY TypeParts DEF Activation
<1>2. loop[o][l].pc = "working"
    BY ProcessMoves DEF Moves, ThreadInv
<1>3. CASE \E b : Goes(o, l, b)
    BY <1>2, <1>3, WorkPending DEF Goes
<1>4. CASE Leaves(o, l, "threw")
    BY <1>2, <1>4, WorkPending DEF Leaves, WorkEnds
<1>5. ~(run'.status \in {"cancelled", "completed", "blocked"})
    BY DEF GoesOn
<1>6. ASSUME NEW s \in Steps, NEW tr \in Transition, NEW rev,
             SaveTransition(s, tr), Follows(o, l, s, tr, rev)
      PROVE  \E b : Goes(o, l, b)
    <2>1. tr.type # "blocked"
        BY <1>5, <1>6, SaveTypes DEF StatusOf
    <2> QED
        BY <1>6, <2>1 DEF Follows
<1>7. CASE StartStep(o, l)
    <2>1. PICK tr \in Outcomes(run.step, {"invoke-agent", "run-command", "blocked"}) :
              /\ SaveTransition(run.step, tr)
              /\ Follows(o, l, run.step, tr, RevisionRead(o, l) + 1)
        BY <1>7 DEF StartStep
    <2>2. tr \in Transition
        BY OutcomeShape
    <2> QED
        BY <1>3, <1>6, <2>1, <2>2
<1>8. CASE ScheduleCorrection(o, l)
    <2> DEFINE tr == IF act[o][l].tr.corr THEN Tr("blocked", 0)
                     ELSE [act[o][l].tr EXCEPT !.corr = TRUE]
    <2>1. tr \in Transition
        BY <1>1, FirstAndLast DEF Transition, Tr
    <2>2. SaveTransition(act[o][l].step, tr) /\ Follows(o, l, act[o][l].step, tr, run.rev + 1)
        BY <1>8 DEF ScheduleCorrection
    <2> HIDE DEF tr
    <2> QED
        BY <1>1, <1>3, <1>6, <2>1, <2>2
<1>9. CASE ApplyResult(o, l)
    <2>1. PICK tr \in Outcomes(act[o][l].step, {"invoke-agent", "run-command", "await-user",
                                                "complete", "blocked"}) :
              /\ SaveTransition(act[o][l].step, tr)
              /\ Follows(o, l, act[o][l].step, tr, run.rev + 1)
        BY <1>9 DEF ApplyResult
    <2>2. tr \in Transition
        BY <1>1, OutcomeShape
    <2> QED
        BY <1>1, <1>3, <1>6, <2>1, <2>2
<1>10. CASE SaveGate(o, l)
    <2>1. act[o][l].at = "gate" /\ UNCHANGED <<run, rec>>
        BY <1>10 DEF SaveGate
    <2>2. ActFits(act[o][l])
        BY DEF DataInv, ActInv
    <2> QED
        BY <2>1, <2>2 DEF ActFits, GoesOn
<1>11. CASE ArtifactWritten(o, l)
    <2>1. CompleteStep(act[o][l].step)
        BY <1>11 DEF ArtifactWritten
    <2>2. act[o][l].step # LastStep
        BY <1>1, <1>5, <2>1, CompleteTypes, FirstAndLast DEF Steps
    <2> QED
        BY <1>3, <1>11, <2>2 DEF ArtifactWritten
<1>12. CASE QueueContinue(o, l)
    <2> DEFINE k == ContinueKey(act[o][l].step, act[o][l].rev)
    <2>1. /\ act[o][l].at = "queue" /\ ProcessEnds(o, l, "returned")
          /\ Enqueue(k)
        BY <1>12 DEF QueueContinue
    <2>2. k \in EngineKey /\ k.kind = "continue" /\ k.rev = act[o][l].rev /\ act[o][l].rev \in Nat
        BY <1>1, BuiltKeys DEF ContinueKey, Activation
    <2>3. WakeupsBelow(act[o][l].rev)
        BY <2>1 DEF DataInv, RevisionInv, RevisionFits
    <2> HIDE DEF k
    <2>4. ~\E i \in DOMAIN commands : commands[i].key = k
        BY <2>2, <2>3 DEF WakeupsBelow
    <2>5. PICK i \in DOMAIN commands' : i \notin DOMAIN commands
        BY <2>1, <2>2, <2>4, EnqueueRows, TypeParts
    <2>6. \A p \in Owner, m \in Loop :
              loop'[p][m].job = loop[p][m].job /\ (Busy(p, m)' => Busy(p, m))
        BY <2>1, EndsAfter DEF Busy
    <2> QED
        BY <2>1, <2>2, <2>5, <2>6, NewPending
<1>13. CASE NothingToDo(o, l)
    BY <1>13 DEF NothingToDo, GoesOn, Over
<1>14. CASE Cancelled(o, l)
    BY <1>5, <1>14, StatusTypes DEF Cancelled, RunStatus
<1>15. CASE \/ BeginStart(o, l) \/ WorktreeReady(o, l) \/ BeginCancel(o, l)
            \/ PersistAnswer(o, l) \/ BeginRetry(o, l)
            \/ BeginCall(o, l) \/ BeginComplete(o, l) \/ CallReturns(o, l)
    BY <1>3, <1>15 DEF BeginStart, WorktreeReady, BeginCancel, PersistAnswer, BeginRetry,
       BeginCall, BeginComplete, CallReturns
<1>16. CASE CallFails(o, l) \/ Throws(o, l)
    BY <1>4, <1>16 DEF CallFails, Throws
<1>17. CASE AnswerGate(o, l)
    BY <1>3, <1>4, <1>17 DEF AnswerGate
<1> QED
    BY <1>7, <1>8, <1>9, <1>10, <1>11, <1>12, <1>13, <1>14, <1>15, <1>16,
       <1>17 DEF Process

(* So does a submission. *)
LEMMA SubmitPending ==
    ASSUME SkeletonInv, SilentInv, NEW k \in EngineKey, Submit(k), UNCHANGED <<run, rec>>, GoesOn'
    PROVE  \E i \in DOMAIN commands' : Pending(i)'
<1>1. Enqueue(k) /\ UNCHANGED <<proc, loop>>
    BY DEF Submit
<1>2. CASE \E i \in DOMAIN commands : commands[i].key = k
    <2>1. UNCHANGED commands
        BY <1>1, <1>2 DEF Enqueue
    <2>2. GoesOn
        BY <2>1 DEF GoesOn
    <2>3. \A i \in DOMAIN commands : Pending(i) => Pending(i)'
        BY <1>1, <2>1 DEF Pending, WorksOn
    <2> QED
        BY <2>1, <2>2, <2>3, PendingKept
<1>3. CASE ~\E i \in DOMAIN commands : commands[i].key = k
    <2>1. PICK i \in DOMAIN commands' : i \notin DOMAIN commands
        BY <1>1, <1>3, EnqueueRows, TypeParts DEF SkeletonInv
    <2>2. \A p \in Owner, m \in Loop :
              loop'[p][m].job = loop[p][m].job /\ (Busy(p, m)' => Busy(p, m))
        BY <1>1 DEF Busy
    <2> QED
        BY <1>1, <2>1, <2>2, NewPending
<1> QED
    BY <1>2, <1>3

LEMMA StartPending ==
    ASSUME SkeletonInv, SilentInv, NEW o \in Owner, EngineStart(o), GoesOn'
    PROVE  \E i \in DOMAIN commands' : Pending(i)'
<1>1. /\ loop' = [loop EXCEPT ![o] = [l \in Loop |-> Idle]] /\ UNCHANGED <<commands, rec>>
      /\ loop \in [Owner -> [Loop -> LoopState]]
    BY TypeParts DEF EngineStart, Start, SkeletonInv
<1>2. UNCHANGED run
    <2>1. ~SetRunStatus("blocked")
        BY StatusTypes DEF GoesOn, SkeletonInv, RunStatus
    <2> QED
        BY <2>1 DEF EngineStart, Recovers
<1>3. GoesOn
    BY <1>1, <1>2 DEF GoesOn
<1>4. \A i \in DOMAIN commands : Pending(i) => Pending(i)'
    BY <1>1 DEF Pending, WorksOn, Idle
<1> QED
    BY <1>1, <1>3, <1>4, PendingKept

LEMMA CrashPending ==
    ASSUME SkeletonInv, SilentInv, NEW o \in Owner, EngineCrash(o), GoesOn'
    PROVE  \E i \in DOMAIN commands' : Pending(i)'
<1>1. /\ loop' = [loop EXCEPT ![o] = [l \in Loop |-> Exited]] /\ UNCHANGED <<commands, run, rec>>
      /\ loop \in [Owner -> [Loop -> LoopState]]
    BY TypeParts DEF EngineCrash, Crash, Die, SkeletonInv
<1>2. GoesOn
    BY <1>1 DEF GoesOn
<1>3. \A i \in DOMAIN commands : Pending(i) => Pending(i)'
    BY <1>1 DEF Pending, WorksOn, Exited
<1> QED
    BY <1>1, <1>2, <1>3, PendingKept

LEMMA LeasePending ==
    ASSUME SkeletonInv, SilentInv, NEW o \in Owner, NEW l \in Loop, NEW i \in DOMAIN commands,
           EngineLease(o, l, i), GoesOn'
    PROVE  \E j \in DOMAIN commands' : Pending(j)'
<1>1. /\ LeaseNextCommand(o, i) \/ LeaseNextCancellation(o, i)
      /\ loop' = [loop EXCEPT ![o][l] = [pc |-> "working", job |-> i]]
      /\ UNCHANGED <<run, rec>>
    BY DEF EngineLease, LeaseMain, LeaseCancel
<1>2. /\ DOMAIN commands' = DOMAIN commands
      /\ commands[i].status = "queued" \/ commands[i].status = "leased"
      /\ commands'[i] = LeasedRow(commands[i].key, o)
      /\ \A j \in DOMAIN commands : j # i =>
            \/ commands'[j] = commands[j]
            \/ commands[j].status = "leased" /\ commands'[j] = QueuedRow(commands[j].key)
    BY <1>1, LeaseRows, TypeParts DEF SkeletonInv
<1>3. \A j \in DOMAIN commands :
          /\ commands'[j].key = commands[j].key
          /\ commands[j].status = "failed" => commands'[j].status = "failed"
          /\ Finished(commands'[j]) => Finished(commands[j])
    BY <1>2 DEF LeasedRow, QueuedRow, Finished
<1>4. [pc |-> "working", job |-> i] \in LoopState
    BY TableRows, TypeParts DEF LoopState, LoopPc, SkeletonInv
<1>5. /\ loop'[o][l].pc = "working"
      /\ \A p \in Owner, m \in Loop : p # o \/ m # l => loop'[p][m] = loop[p][m]
    BY <1>1, <1>4, LoopsAfter DEF SkeletonInv
<1>6. GoesOn
    BY <1>1, <1>2, <1>3 DEF GoesOn
<1>7. ASSUME NEW j \in DOMAIN commands, Pending(j) PROVE Pending(j)'
    <2>1. ~Finished(commands'[j])
        BY <1>3, <1>7 DEF Pending
    <2>2. ASSUME NEW p \in Owner, NEW m \in Loop, WorksOn(p, m, j)'
          PROVE  loop'[p][m].pc # "returned"
        BY <1>5, <1>7, <2>2 DEF Pending, WorksOn
    <2> QED
        BY <2>1, <2>2 DEF Pending
<1> QED
    BY <1>2, <1>6, <1>7, PendingKept

(* The row that is closed was not pending, or the command has failed.      *)
LEMMA FinishPending ==
    ASSUME SkeletonInv, SilentInv, NEW o \in Owner, NEW l \in Loop, EngineFinish(o, l), GoesOn'
    PROVE  \E j \in DOMAIN commands' : Pending(j)'
<1>1. /\ loop[o][l].pc \in {"returned", "threw"}
      /\ FinishCommand(o, loop[o][l].job, Outcome(loop[o][l].pc))
      /\ loop' = [loop EXCEPT ![o][l] = Idle]
      /\ UNCHANGED <<run, rec>>
    BY DEF EngineFinish, Finish, engineVars
<1>2. PICK i \in DOMAIN commands : i = loop[o][l].job
    BY <1>1 DEF SkeletonInv, JobInv, Busy
<1>3. /\ DOMAIN commands' = DOMAIN commands
      /\ commands'[i] = ClosedRow(commands[i].key, Outcome(loop[o][l].pc))
      /\ \A j \in DOMAIN commands : j # i => commands'[j] = commands[j]
    <2>1. Outcome(loop[o][l].pc) \in {"completed", "failed"}
        BY DEF Outcome
    <2> QED
        BY <1>1, <1>2, <2>1, FinishRows, TypeParts DEF SkeletonInv
<1>4. loop[o][l].pc = "returned"
    <2>1. commands'[i].status # "failed"
        BY <1>3 DEF GoesOn
    <2> QED
        BY <1>1, <1>3, <2>1 DEF ClosedRow, Outcome
<1>5. ~Pending(i)
    BY <1>2, <1>4 DEF Pending, WorksOn
<1>6. commands[i].status = "leased"
    BY <1>1, <1>2 DEF FinishCommand, HoldsLease
<1>7. GoesOn
    BY <1>1, <1>3, <1>6 DEF GoesOn, ClosedRow
<1>8. loop'[o][l] = Idle /\ \A p \in Owner, m \in Loop : p # o \/ m # l => loop'[p][m] = loop[p][m]
    <2>1. Idle \in LoopState
        BY DEF Idle, LoopState, LoopPc
    <2>2. EngineTypeOK /\ loop' = [loop EXCEPT ![o][l] = Idle]
        BY <1>1 DEF SkeletonInv
    <2> QED
        BY <2>1, <2>2, LoopsAfter
<1>9. ASSUME NEW j \in DOMAIN commands, Pending(j) PROVE Pending(j)'
    <2>1. commands'[j] = commands[j]
        BY <1>3, <1>5, <1>9
    <2>2. ASSUME NEW p \in Owner, NEW m \in Loop, WorksOn(p, m, j)'
          PROVE  loop'[p][m].pc # "returned"
        <3>1. p # o \/ m # l
            BY <1>8, <2>2 DEF WorksOn, Idle
        <3> QED
            BY <1>8, <1>9, <2>2, <3>1 DEF Pending, WorksOn
    <2> QED
        BY <1>9, <2>1, <2>2 DEF Pending
<1> QED
    BY <1>3, <1>7, <1>9, PendingKept

LEMMA LapsePending ==
    ASSUME SkeletonInv, SilentInv, NEW i \in DOMAIN commands, EngineLapse(i), GoesOn'
    PROVE  \E j \in DOMAIN commands' : Pending(j)'
<1>1. LeaseExpires(i) /\ UNCHANGED <<loop, run, rec>>
    BY DEF EngineLapse, Lapse, engineVars
<1>2. /\ DOMAIN commands' = DOMAIN commands
      /\ \A j \in DOMAIN commands :
            commands'[j].status = commands[j].status /\ commands'[j].key = commands[j].key
    BY <1>1, ExpireRows, TypeParts DEF SkeletonInv
<1>3. GoesOn
    BY <1>1, <1>2 DEF GoesOn
<1>4. \A j \in DOMAIN commands : Pending(j) => Pending(j)'
    BY <1>1, <1>2 DEF Pending, WorksOn, Finished
<1> QED
    BY <1>2, <1>3, <1>4, PendingKept

(* A run has a start-run command, or a handler about to enqueue it, only   *)
(* once it exists.                                                         *)
LEMMA StartRows ==
    ASSUME SkeletonInv, SilentInv, [Next]_vars
    PROVE  /\ \A i \in DOMAIN commands' : commands'[i].key.kind = "start-run" => run'.status # "absent"
           /\ \A o \in Owner : api'[o] => run'.status # "absent"
<1>1. ASSUME \A i \in DOMAIN commands' : commands'[i].key.kind = "start-run" =>
                i \in DOMAIN commands /\ commands[i].key = commands'[i].key,
             \A o \in Owner : api'[o] => api[o]
      PROVE  /\ \A i \in DOMAIN commands' :
                    commands'[i].key.kind = "start-run" => run'.status # "absent"
             /\ \A o \in Owner : api'[o] => run'.status # "absent"
    BY <1>1, StatusStays DEF SilentInv
<1>2. CASE \E o \in Owner : CreateRun(o)
    <2>1. run' = [run EXCEPT !.status = "queued"]
        BY <1>2 DEF CreateRun
    <2>2. run'.status = "queued"
        BY <2>1, TypeParts DEF SkeletonInv, DataTypeOK
    <2> QED
        BY <2>2
<1>3. CASE \E o \in Owner : EnqueueStart(o)
    BY <1>3, StatusStays DEF EnqueueStart, SilentInv
<1>k. ASSUME NEW k \in EngineKey, k.kind # "start-run", Enqueue(k), NEW i \in DOMAIN commands',
             commands'[i].key.kind = "start-run"
      PROVE  i \in DOMAIN commands /\ commands[i].key = commands'[i].key
    BY <1>k, EnqueueRows, TypeParts DEF SkeletonInv, QueuedRow
<1>4. CASE \E o \in Owner, kind \in Operator, tag \in Tag : OperatorCommand(o, kind, tag)
    <2>1. UNCHANGED api
        BY <1>4 DEF OperatorCommand, engineVars
    <2>2. PICK k \in EngineKey : Submit(k) /\ k.kind \in Operator
        BY <1>4, SubmittedKey
    <2>3. k.kind # "start-run" /\ Enqueue(k)
        BY <2>2, EngineAssumption DEF Submit
    <2> QED
        BY <1>1, <1>k, <2>1, <2>3
<1>5. CASE \E o \in Owner : EngineStart(o) \/ EngineCrash(o)
    BY <1>1, <1>5, TypeParts DEF SkeletonInv, EngineStart, Start, EngineCrash, Crash
<1>6. ASSUME NEW o \in Owner, NEW l \in Loop, NEW i \in DOMAIN commands, EngineLease(o, l, i)
      PROVE  /\ \A j \in DOMAIN commands' :
                    commands'[j].key.kind = "start-run" => run'.status # "absent"
             /\ \A p \in Owner : api'[p] => run'.status # "absent"
    <2>1. (LeaseNextCommand(o, i) \/ LeaseNextCancellation(o, i)) /\ UNCHANGED api
        BY <1>6 DEF EngineLease, LeaseMain, LeaseCancel
    <2>2. /\ DOMAIN commands' = DOMAIN commands
          /\ commands'[i] = LeasedRow(commands[i].key, o)
          /\ \A j \in DOMAIN commands : j # i =>
                commands'[j] = commands[j] \/ commands'[j] = QueuedRow(commands[j].key)
        BY <2>1, LeaseRows, TypeParts DEF SkeletonInv
    <2>3. \A j \in DOMAIN commands : commands'[j].key = commands[j].key
        BY <2>2 DEF LeasedRow, QueuedRow
    <2> QED
        BY <1>1, <2>1, <2>2, <2>3
<1>7. ASSUME NEW o \in Owner, NEW l \in Loop, Process(o, l)
      PROVE  /\ \A j \in DOMAIN commands' :
                    commands'[j].key.kind = "start-run" => run'.status # "absent"
             /\ \A p \in Owner : api'[p] => run'.status # "absent"
    <2>1. /\ UNCHANGED api
          /\ UNCHANGED commands \/ Enqueue(ContinueKey(act[o][l].step, act[o][l].rev))
        BY <1>7, ProcessMoves DEF SkeletonInv, Moves
    <2>2. /\ ContinueKey(act[o][l].step, act[o][l].rev) \in EngineKey
          /\ ContinueKey(act[o][l].step, act[o][l].rev).kind = "continue"
        <3>1. act[o][l].step \in Steps /\ act[o][l].rev \in Nat
            BY TypeParts DEF SkeletonInv, Activation
        <3> QED
            BY <3>1, BuiltKeys DEF ContinueKey
    <2>3. \A j \in DOMAIN commands' : commands'[j].key.kind = "start-run" =>
              j \in DOMAIN commands /\ commands[j].key = commands'[j].key
        BY <1>k, <2>1, <2>2
    <2> QED
        BY <1>1, <2>1, <2>3
<1>8. ASSUME NEW o \in Owner, NEW l \in Loop, EngineFinish(o, l)
      PROVE  /\ \A j \in DOMAIN commands' :
                    commands'[j].key.kind = "start-run" => run'.status # "absent"
             /\ \A p \in Owner : api'[p] => run'.status # "absent"
    <2>1. /\ loop[o][l].pc \in {"returned", "threw"} /\ UNCHANGED api
          /\ FinishCommand(o, loop[o][l].job, Outcome(loop[o][l].pc))
        BY <1>8 DEF EngineFinish, Finish, engineVars
    <2>2. loop[o][l].job \in DOMAIN commands /\ Outcome(loop[o][l].pc) \in {"completed", "failed"}
        BY <2>1 DEF SkeletonInv, JobInv, Busy, Outcome
    <2>3. /\ DOMAIN commands' = DOMAIN commands
          /\ commands'[loop[o][l].job] =
                ClosedRow(commands[loop[o][l].job].key, Outcome(loop[o][l].pc))
          /\ \A j \in DOMAIN commands : j # loop[o][l].job => commands'[j] = commands[j]
        BY <2>1, <2>2, FinishRows, TypeParts DEF SkeletonInv
    <2>4. \A j \in DOMAIN commands : commands'[j].key = commands[j].key
        BY <2>3 DEF ClosedRow
    <2> QED
        BY <1>1, <2>1, <2>3, <2>4
<1>9. ASSUME NEW i \in DOMAIN commands, EngineLapse(i)
      PROVE  /\ \A j \in DOMAIN commands' :
                    commands'[j].key.kind = "start-run" => run'.status # "absent"
             /\ \A p \in Owner : api'[p] => run'.status # "absent"
    <2>1. LeaseExpires(i) /\ UNCHANGED api
        BY <1>9 DEF EngineLapse, Lapse, engineVars
    <2> QED
        BY <1>1, <2>1, ExpireRows, TypeParts DEF SkeletonInv
<1>10. CASE UNCHANGED vars
    BY <1>1, <1>10 DEF vars
<1> QED
    BY <1>2, <1>3, <1>4, <1>5, <1>6, <1>7, <1>8, <1>9, <1>10, NextCases

LEMMA SilentInit == Init => SilentInv
    BY DEF Init, CoordinatorInit, StoreInit, SilentInv, GoesOn

LEMMA SilentStep == SkeletonInv /\ DataInv /\ SilentInv /\ [Next]_vars => SilentInv'
<1> SUFFICES ASSUME SkeletonInv, DataInv, SilentInv, [Next]_vars PROVE SilentInv'
    OBVIOUS
<1>1. ASSUME GoesOn' PROVE \E i \in DOMAIN commands' : Pending(i)'
    <2> USE <1>1
    <2>1. ASSUME NEW o \in Owner, CreateRun(o) PROVE FALSE
        <3>1. run.status = "absent" /\ UNCHANGED commands
            BY <2>1 DEF CreateRun
        <3> QED
            BY <3>1 DEF SilentInv, GoesOn
    <2>2. ASSUME NEW o \in Owner, EnqueueStart(o)
          PROVE  \E i \in DOMAIN commands' : Pending(i)'
        BY <2>2, BuiltKeys, SubmitPending DEF EnqueueStart
    <2>3. ASSUME NEW o \in Owner, NEW kind \in Operator, NEW tag \in Tag,
                 OperatorCommand(o, kind, tag)
          PROVE  \E i \in DOMAIN commands' : Pending(i)'
        <3>1. UNCHANGED <<run, rec>>
            BY <2>3 DEF OperatorCommand, engineVars
        <3> QED
            BY <2>3, <3>1, SubmittedKey, SubmitPending
    <2>4. CASE UNCHANGED vars
        <3>1. UNCHANGED <<commands, loop, run, rec>>
            BY <2>4 DEF vars
        <3>2. GoesOn
            BY <3>1 DEF GoesOn
        <3>3. \A i \in DOMAIN commands : Pending(i) => Pending(i)'
            BY <3>1 DEF Pending, WorksOn
        <3> QED
            BY <3>1, <3>2, <3>3, PendingKept
    <2> QED
        BY <2>1, <2>2, <2>3, <2>4, NextCases, ProcessPending, StartPending, CrashPending,
           LeasePending, FinishPending, LapsePending
<1> QED
    BY <1>1, StartRows DEF SilentInv

-------------------------------------------------------------------------------
(* What the invariant says of a run. *)

LEMMA EngineInvInit == Init => EngineInv
    BY SkeletonInit, DataInit, SilentInit DEF EngineInv

LEMMA EngineInvStep == EngineInv /\ [Next]_vars => EngineInv'
    BY SkeletonStep, DataStep, SilentStep DEF EngineInv

LEMMA EngineInvariant == Spec => []EngineInv
    BY EngineInvInit, EngineInvStep, PTL DEF Spec

(* Steps run in order; a completed run has the output of them all.         *)
THEOREM StepsRunInOrder == Spec => []StepsInOrder
    BY EngineInvariant, PTL DEF EngineInv, DataInv

(* An open gate is the question the current step waits with.               *)
THEOREM OpenGatesAreCurrent == Spec => []OpenGateIsCurrent
    BY EngineInvariant, PTL DEF EngineInv, DataInv

(* What a loop read of the step before it awaited a call is still so.      *)
THEOREM CapturedStaysCurrent == Spec => []CapturedIsCurrent
<1>1. EngineInv => CapturedIsCurrent
    BY DEF EngineInv, DataInv, ActInv, ActFits, CapturedIsCurrent
<1> QED
    BY <1>1, EngineInvariant, PTL

(* No call that has returned is made again.                                *)
THEOREM CallsNeverRepeated == Spec => []NeverRepeated
<1>1. EngineInv => NeverRepeated
    BY DEF EngineInv, DataInv, ActInv, ActFits, NeverRepeated
<1> QED
    BY <1>1, EngineInvariant, PTL

(* The wakeup a loop is about to queue is not absorbed by an earlier one.  *)
THEOREM ContinuesAreFresh == Spec => []FreshContinue
<1>1. EngineInv => FreshContinue
    <2> SUFFICES ASSUME EngineInv, NEW o \in Owner, NEW l \in Loop, NEW i \in DOMAIN commands,
                        act[o][l].at = "queue",
                        commands[i].key = ContinueKey(act[o][l].step, act[o][l].rev)
                 PROVE  FALSE
        BY DEF FreshContinue
    <2>1. WakeupsBelow(act[o][l].rev)
        BY DEF EngineInv, DataInv, RevisionInv, RevisionFits
    <2>2. act[o][l].rev \in Nat
        BY TypeParts DEF EngineInv, SkeletonInv, Activation
    <2>3. commands[i].key.kind = "continue" /\ commands[i].key.rev = act[o][l].rev
        BY DEF ContinueKey
    <2> QED
        BY <2>1, <2>2, <2>3 DEF WakeupsBelow
<1> QED
    BY <1>1, EngineInvariant, PTL

(* A run that should go on does not stop without a trace.                  *)
THEOREM NeverStopsSilently == Spec => []NoSilentStop
<1>1. EngineInv => NoSilentStop
    <2>1. GoesOn /\ EngineInv => \E i \in DOMAIN commands : ~Finished(commands[i])
        BY DEF EngineInv, SilentInv, Pending
    <2> QED
        BY <2>1 DEF NoSilentStop, AtRest, GoesOn
<1> QED
    BY <1>1, EngineInvariant, PTL

-------------------------------------------------------------------------------
(* The engine implements RunLife. *)

LEMMA LifeInit == Init => RL!Init
<1> SUFFICES ASSUME Init PROVE RL!Init
    OBVIOUS
<1>1. run.step = 1 /\ 1 \in Steps
    BY FirstAndLast DEF Init
<1>2. \A s \in Steps : rec[s].tr = NoTr /\ ~rec[s].output
    BY DEF Init
<1>3. ~Answered(run.step, rec[run.step].tr)
    BY <1>1, <1>2, NoActType DEF Answered
<1> QED
    BY <1>1, <1>2, <1>3 DEF RL!Init

LEMMA UntouchedLife ==
    ASSUME StepUntouched
    PROVE  UNCHANGED RL!lifeVars
<1>1. run'.step = run.step /\ UNCHANGED <<rec, gate, ext>>
    BY DEF StepUntouched
<1>2. Answered(run.step, rec[run.step].tr)' = Answered(run.step, rec[run.step].tr)
    BY <1>1 DEF Answered
<1> QED
    BY <1>1, <1>2 DEF RL!lifeVars

(* What is saved is asked for: the step has its last answer, and what it   *)
(* asks for now has none yet, unless it is a correction.                   *)
LEMMA SaveAsks ==
    ASSUME SkeletonInv, NEW tr, MaySave(tr), SaveTransition(run.step, tr), UNCHANGED <<gate, ext>>,
           rec[run.step].tr = NoTr \/ Answered(run.step, rec[run.step].tr),
           tr.corr \/ ~Answered(run.step, tr)
    PROVE  RL!Next
<1>1. run.step \in Steps /\ tr \in Transition
    BY RunFields DEF SkeletonInv, MaySave
<1>2. /\ run'.step = run.step /\ rec'[run.step].tr = tr
      /\ \A s \in Steps : rec'[s].output = rec[s].output
    BY <1>1, SaveTypes DEF SkeletonInv
<1>3. {s \in Steps : rec'[s].output} = {s \in Steps : rec[s].output}
    BY <1>2
<1>4. Answered(run.step, rec[run.step].tr)' => tr.corr
    BY <1>2 DEF Answered
<1>5. RL!Ask(tr)
    BY <1>1, <1>2, <1>3, <1>4 DEF RL!Ask
<1>6. tr \in {q \in Transition : q.type \notin {"none", "complete"}} \cup {Tr("complete", 0)}
    BY <1>1 DEF MaySave
<1> QED
    BY <1>5, <1>6 DEF RL!Next

LEMMA StartAsks ==
    ASSUME SkeletonInv, DataInv, NEW o \in Owner, NEW l \in Loop, StartStep(o, l)
    PROVE  RL!Next
<1>1. PICK tr \in Outcomes(run.step, {"invoke-agent", "run-command", "blocked"}) :
          SaveTransition(run.step, tr)
    BY DEF StartStep
<1>2. MaySave(tr) /\ ~Answered(run.step, tr)
    BY OutcomeIsNew DEF Answered
<1> QED
    BY <1>1, <1>2, SaveAsks DEF StartStep

LEMMA ApplyAsks ==
    ASSUME SkeletonInv, DataInv, NEW o \in Owner, NEW l \in Loop, ApplyResult(o, l)
    PROVE  RL!Next
<1>1. act[o][l].at = "result"
    BY AtPoint DEF ApplyResult
<1>2. act[o][l].step = run.step /\ Answered(run.step, rec[run.step].tr)
    BY <1>1, ResultIsCurrent DEF Answered
<1>3. PICK tr \in Outcomes(run.step, {"invoke-agent", "run-command", "await-user", "complete",
                                      "blocked"}) :
          SaveTransition(run.step, tr)
    BY <1>2 DEF ApplyResult
<1>4. MaySave(tr) /\ ~Answered(run.step, tr)
    BY OutcomeIsNew DEF Answered
<1> QED
    BY <1>2, <1>3, <1>4, SaveAsks DEF ApplyResult

LEMMA PersistAsks ==
    ASSUME SkeletonInv, DataInv, NEW o \in Owner, NEW l \in Loop, PersistAnswer(o, l)
    PROVE  RL!Next
<1> DEFINE tr == act[o][l].tr
<1>1. /\ act[o][l].at = "answered" /\ tr \in Transition
      /\ SaveTransition(act[o][l].step, tr) /\ UNCHANGED <<gate, ext>>
    BY AtPoint, TypeParts DEF SkeletonInv, PersistAnswer, Activation
<1> HIDE DEF tr
<1>2. ActFits(act[o][l])
    BY DEF DataInv, ActInv
<1>3. /\ act[o][l].step = run.step /\ Answered(run.step, rec[run.step].tr) /\ ~tr.corr
      /\ \/ tr.type \in {"invoke-agent", "run-command"} /\ tr.ord = rec[run.step].ord + 1
         \/ tr.type \in {"complete", "blocked"} /\ tr = Tr(tr.type, 0)
    BY <1>1, <1>2 DEF ActFits, Answered, tr
<1>4. ~Answered(run.step, tr)
    BY <1>1, <1>3, NewCall DEF Answered
<1>5. MaySave(tr)
    <2>1. rec[run.step].ord \in Nat
        BY RunFields, RecFields DEF SkeletonInv
    <2> QED
        BY <1>1, <1>3, <2>1 DEF MaySave
<1> QED
    BY <1>1, <1>3, <1>4, <1>5, SaveAsks

(* The correction of a request is asked once that has a result, even if a  *)
(* correction has been asked before.                                       *)
LEMMA CorrectionAsks ==
    ASSUME SkeletonInv, DataInv, NEW o \in Owner, NEW l \in Loop, ScheduleCorrection(o, l)
    PROVE  RL!Next
<1> DEFINE q == act[o][l].tr
           tr == IF q.corr THEN Tr("blocked", 0) ELSE [q EXCEPT !.corr = TRUE]
<1>1. /\ act[o][l].at = "result" /\ q.type = "invoke-agent"
      /\ SaveTransition(act[o][l].step, tr) /\ UNCHANGED <<gate, ext>>
    BY AtPoint DEF ScheduleCorrection, Invalid
<1>2. /\ act[o][l].step = run.step /\ q = rec[run.step].tr
      /\ Answered(run.step, rec[run.step].tr)
    BY <1>1, ResultIsCurrent DEF Answered
<1>3. MaySave(tr) /\ (tr.corr \/ tr.type = "blocked")
    BY <1>1, <1>2, CorrectionMaySave
<1> HIDE DEF tr
<1> QED
    BY <1>1, <1>2, <1>3, SaveAsks DEF Answered

LEMMA ReturnAnswers ==
    ASSUME SkeletonInv, DataInv, NEW o \in Owner, NEW l \in Loop, CallReturns(o, l)
    PROVE  RL!Next
<1> DEFINE q == rec[run.step].tr
           k == CallOf(run.step, q)
<1>1. act[o][l].at = "call" /\ UNCHANGED <<run, rec, gate>>
    BY AtPoint DEF CallReturns
<1>2. ActFits(act[o][l])
    BY DEF DataInv, ActInv
<1>3. /\ act[o][l].step = run.step /\ act[o][l].tr = q
      /\ q.type \in {"invoke-agent", "run-command"} /\ ~ext[k].stored
    BY <1>1, <1>2 DEF ActFits
<1>4. run.step \in Steps /\ q \in Transition /\ k \in CallKey
    BY RunFields, RecFields, CallKeys DEF SkeletonInv
<1>5. PICK valid \in BOOLEAN : ext' = [ext EXCEPT ![k] = [stored |-> TRUE, valid |-> valid]]
    BY <1>3 DEF CallReturns
<1>6. ext'[k].stored
    BY <1>4, <1>5, TypeParts DEF SkeletonInv, DataTypeOK
<1>7. q \in {tr \in Transition : tr.type \notin {"none", "complete"}}
    BY <1>3, <1>4
<1>8. ~Answered(run.step, q)
    BY <1>3 DEF Answered
<1>9. Answered(run.step, rec[run.step].tr)'
    BY <1>1, <1>3, <1>6 DEF Answered
<1> QED
    BY <1>1, <1>7, <1>8, <1>9 DEF RL!Next, RL!Answer

LEMMA GateAnswers ==
    ASSUME SkeletonInv, DataInv, NEW o \in Owner, NEW l \in Loop, AnswerGate(o, l)
    PROVE  RL!Next
<1> DEFINE q == rec[run.step].tr
<1>1. /\ gate[<<run.step, q.ord>>] = "open" /\ gate' = [gate EXCEPT ![<<run.step, q.ord>>] = "answered"]
      /\ UNCHANGED <<run, rec, ext>>
    BY AnsweredGate DEF AnswerGate, CloseGate
<1>2. q.type = "await-user" /\ q \in Transition /\ <<run.step, q.ord>> \in Gate
    BY AnsweredGate, RecFields DEF SkeletonInv
<1>3. gate'[<<run.step, q.ord>>] = "answered"
    BY <1>1, <1>2, TypeParts DEF SkeletonInv, DataTypeOK
<1>4. q \in {tr \in Transition : tr.type \notin {"none", "complete"}}
    BY <1>2
<1>5. ~Answered(run.step, q)
    BY <1>1, <1>2 DEF Answered
<1>6. Answered(run.step, rec[run.step].tr)'
    BY <1>1, <1>2, <1>3 DEF Answered
<1> QED
    BY <1>1, <1>4, <1>5, <1>6 DEF RL!Next, RL!Answer

(* A gate that opens is one that has no answer yet.                        *)
LEMMA OpeningLife ==
    ASSUME SkeletonInv, DataInv, NEW o \in Owner, NEW l \in Loop, SaveGate(o, l)
    PROVE  UNCHANGED RL!lifeVars
<1> DEFINE q == rec[run.step].tr
           g == <<run.step, q.ord>>
<1>1. act[o][l].at = "gate" /\ UNCHANGED <<run, rec, ext>>
    BY AtPoint DEF SaveGate
<1>2. ActFits(act[o][l])
    BY DEF DataInv, ActInv
<1>3. q.type = "await-user" /\ gate[g] = "none" /\ gate' = [gate EXCEPT ![g] = "open"]
    BY <1>1, <1>2 DEF ActFits, SaveGate, OpenGate
<1>4. gate'[g] # "answered"
    <2>1. run.step \in Steps /\ q \in Transition
        BY RunFields, RecFields DEF SkeletonInv
    <2>2. g \in Gate
        BY <2>1 DEF Gate, Transition
    <2> QED
        BY <1>3, <2>2, TypeParts DEF SkeletonInv, DataTypeOK
<1>5. ~Answered(run.step, rec[run.step].tr) /\ ~Answered(run.step, rec[run.step].tr)'
    BY <1>1, <1>3, <1>4 DEF Answered
<1>6. Answered(run.step, rec[run.step].tr)' = Answered(run.step, rec[run.step].tr)
    BY <1>5 DEF Answered
<1> QED
    BY <1>1, <1>6 DEF RL!lifeVars

LEMMA CompleteLeaves ==
    ASSUME SkeletonInv, DataInv, NEW o \in Owner, NEW l \in Loop, ArtifactWritten(o, l)
    PROVE  RL!Next
<1> DEFINE s == run.step
<1>1. act[o][l].at = "artifact" /\ CompleteStep(act[o][l].step)
    BY AtPoint DEF ArtifactWritten
<1>2. ActFits(act[o][l])
    BY DEF DataInv, ActInv
<1>3. /\ act[o][l].step = s /\ rec[s].tr.type = "complete" /\ ~rec[s].output
    BY <1>1, <1>2, NotDone DEF ActFits, Parked
<1>4. s \in Steps /\ s \in Nat /\ LastStep \in Nat
    BY RunFields, FirstAndLast DEF SkeletonInv, Steps
<1>5. rec[s].tr = Tr("complete", 0)
    BY <1>3, <1>4 DEF DataInv, StepInv
<1>6. /\ run'.step = IF s < LastStep THEN s + 1 ELSE s
      /\ rec'[s].tr = Tr("complete", 0) /\ rec'[s].output
      /\ \A r \in Steps : r # s => rec'[r] = rec[r]
    BY <1>1, <1>3, <1>4, CompleteTypes DEF SkeletonInv
<1>7. {r \in Steps : rec'[r].output} = {r \in Steps : rec[r].output} \cup {s}
    BY <1>4, <1>6
<1>8. s \notin {r \in Steps : rec[r].output}
    BY <1>3
<1>9. CASE s = LastStep
    <2>1. run'.step = s /\ rec'[run'.step].tr = rec[s].tr
        BY <1>4, <1>5, <1>6, <1>9
    <2>2. ~Answered(run.step, rec[run.step].tr)'
        BY <1>3, <2>1 DEF Answered
    <2>3. RL!Leave
        BY <1>5, <1>7, <1>8, <1>9, <2>1, <2>2 DEF RL!Leave
    <2> QED
        BY <2>3 DEF RL!Next
<1>10. CASE s # LastStep
    <2>1. s < LastStep /\ s + 1 \in Steps
        BY <1>4, <1>10 DEF Steps
    <2>2. rec[s + 1].tr = NoTr
        BY <1>4, <2>1 DEF DataInv, StepsInOrder
    <2>3. run'.step = s + 1 /\ rec'[run'.step].tr = NoTr
        BY <1>4, <1>6, <2>1, <2>2
    <2>4. ~Answered(run.step, rec[run.step].tr)'
        BY <2>3, NoActType DEF Answered
    <2>5. RL!Leave
        BY <1>5, <1>7, <1>8, <1>10, <2>3, <2>4 DEF RL!Leave
    <2> QED
        BY <2>5 DEF RL!Next
<1> QED
    BY <1>9, <1>10

LEMMA LifeStep == EngineInv /\ [Next]_vars => [RL!Next]_RL!lifeVars
<1> SUFFICES ASSUME EngineInv, [Next]_vars PROVE RL!Next \/ UNCHANGED RL!lifeVars
    OBVIOUS
<1> USE DEF EngineInv
<1>1. CASE Quiet
    BY <1>1, UntouchedLife DEF Quiet
<1>2. ASSUME NEW o \in Owner, NEW l \in Loop,
             BeginStart(o, l) \/ WorktreeReady(o, l) \/ BeginRetry(o, l) \/ BeginCall(o, l)
                \/ BeginComplete(o, l) \/ QueueContinue(o, l)
      PROVE  UNCHANGED RL!lifeVars
    <2>1. UNCHANGED <<rec, gate, ext>> /\ (UNCHANGED run \/ SetRunStatus("queued"))
        BY <1>2 DEF BeginStart, WorktreeReady, BeginRetry, BeginCall, BeginComplete, QueueContinue
    <2>2. "queued" \in RunStatus /\ run.rev \in Nat
        BY RunFields DEF SkeletonInv, RunStatus
    <2>3. StepUntouched
        BY <2>1, <2>2, StatusTypes DEF SkeletonInv, StepUntouched
    <2> QED
        BY <2>3, UntouchedLife
<1> QED
    BY <1>1, <1>2, QuietSteps, StartAsks, ApplyAsks, PersistAsks, CorrectionAsks, ReturnAnswers,
       GateAnswers, OpeningLife, CompleteLeaves

(* The engine implements RunLife.                                          *)
THEOREM EngineImplementsRunLife == Spec => ImplementsRunLife
    BY LifeInit, LifeStep, EngineInvariant, PTL DEF Spec, ImplementsRunLife, RL!Spec
===============================================================================
