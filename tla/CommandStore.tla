----------------------------- MODULE CommandStore -----------------------------
(***************************************************************************)
(* The durable command table of the harness database (src/store.ts) and    *)
(* the lease columns of the runs table.                                    *)
(*                                                                         *)
(* A command is identified by its idempotency key, here a record that      *)
(* names at least the run and the kind of the command.  The table is a     *)
(* sequence: a row's position is its created_at order, and a row is never  *)
(* deleted.  Time is abstracted to one bit per lease: "expired" says that  *)
(* lease_expires_at lies in the past.                                      *)
(*                                                                         *)
(* Every action below is one SQLite transaction (or one autocommitted      *)
(* statement), so it is one step here.                                     *)
(***************************************************************************)
EXTENDS Integers, Sequences, FiniteSets

CONSTANTS
    Run,        \* runs of the harness home
    Key,        \* idempotency keys: records with at least the fields run and kind
    Owner,      \* lease owners: one fresh UUID per Coordinator object
    NoOwner     \* lease_owner IS NULL

ASSUME OwnerAssumption == NoOwner \notin Owner

VARIABLES
    commands,   \* the rows of the commands table, oldest first
    runLease    \* runs.lease_owner

Status == {"queued", "leased", "completed", "failed"}

Row == [key : Key, status : Status, owner : Owner \cup {NoOwner}, expired : BOOLEAN]

StoreTypeOK ==
    /\ commands \in Seq(Row)
    /\ runLease \in [Run -> Owner \cup {NoOwner}]

StoreInit ==
    /\ commands = <<>>
    /\ runLease = [r \in Run |-> NoOwner]

QueuedRow(k) == [key |-> k, status |-> "queued", owner |-> NoOwner, expired |-> FALSE]

LeasedRow(k, o) == [key |-> k, status |-> "leased", owner |-> o, expired |-> FALSE]

ClosedRow(k, outcome) == [key |-> k, status |-> outcome, owner |-> NoOwner, expired |-> FALSE]

Finished(row) == row.status \in {"completed", "failed"}

(* Faulty: the second loop also serves retries. *)
IsOperatorCommand(row) == row.key.kind \in {"cancel-run", "retry-turn"}

IsCancel(row) == row.key.kind = "cancel-run"

(* The priority the API server gives a command. *)
Priority(row) == IF IsCancel(row) THEN 100 ELSE 0

-------------------------------------------------------------------------------
(* Faulty: only an unfinished row absorbs the request. *)
EnqueueUnlessPending(k) ==
    /\ commands' = IF \E i \in DOMAIN commands : commands[i].key = k /\ ~Finished(commands[i])
                   THEN commands
                   ELSE Append(commands, QueuedRow(k))
    /\ UNCHANGED runLease

(* enqueueCommand: the key of any existing row, finished or not, absorbs   *)
(* the request.                                                            *)
Enqueue(k) ==
    /\ commands' = IF \E i \in DOMAIN commands : commands[i].key = k
                   THEN commands
                   ELSE Append(commands, QueuedRow(k))
    /\ UNCHANGED runLease

(* Faulty: every lease counts as expired; none does. *)
ReclaimedAll(onlyCancel) ==
    [i \in DOMAIN commands |->
        IF commands[i].status = "leased" THEN QueuedRow(commands[i].key) ELSE commands[i]]
ReclaimedNone(onlyCancel) == commands

(* The first statement of both lease transactions: expired leases return   *)
(* to the queue, all of them or those of cancel-run commands only.         *)
Reclaimed(onlyCancel) ==
    [i \in DOMAIN commands |->
        IF /\ commands[i].status = "leased"
           /\ commands[i].expired
           /\ onlyCancel => IsCancel(commands[i])
        THEN QueuedRow(commands[i].key)
        ELSE commands[i]]

(* ... ORDER BY priority DESC, created_at LIMIT 1 *)
IsNext(table, onlyCancel, i) ==
    LET Waiting == {j \in DOMAIN table : /\ table[j].status = "queued"
                                         /\ onlyCancel => IsCancel(table[j])}
    IN  /\ i \in Waiting
        /\ \A j \in Waiting :
              \/ Priority(table[i]) > Priority(table[j])
              \/ Priority(table[i]) = Priority(table[j]) /\ i <= j

LeaseNextCommand(o, i) ==
    LET table == Reclaimed(FALSE)
    IN  /\ IsNext(table, FALSE, i)
        /\ commands' = [table EXCEPT ![i] = LeasedRow(table[i].key, o)]
        /\ runLease' = [runLease EXCEPT ![table[i].key.run] = o]

(* Does not take the lease of the run. *)
LeaseNextCancellation(o, i) ==
    LET table == Reclaimed(TRUE)
    IN  /\ IsNext(table, TRUE, i)
        /\ commands' = [table EXCEPT ![i] = LeasedRow(table[i].key, o)]
        /\ UNCHANGED runLease

(* Faulty: the row is found by its id alone. *)
HoldsLeaseOfAnyone(o, i) == TRUE

(* The row still carries the owner's lease: the WHERE clause of renewLease *)
(* and the check of finishCommand.                                         *)
HoldsLease(o, i) == commands[i].status = "leased" /\ commands[i].owner = o

RenewLease(o, i) ==
    /\ HoldsLease(o, i)
    /\ commands' = [commands EXCEPT ![i].expired = FALSE]
    /\ UNCHANGED runLease

(* Faulty: a failed command keeps its lease. *)
FinishCompleted(o, i, outcome) ==
    /\ HoldsLease(o, i)
    /\ commands' = IF outcome = "failed" THEN commands
                   ELSE [commands EXCEPT ![i] = ClosedRow(commands[i].key, outcome)]
    /\ UNCHANGED runLease

FinishCommand(o, i, outcome) ==
    LET r == commands[i].key.run
    IN  /\ HoldsLease(o, i)
        /\ commands' = [commands EXCEPT ![i] = ClosedRow(commands[i].key, outcome)]
        /\ runLease' = IF runLease[r] = o THEN [runLease EXCEPT ![r] = NoOwner] ELSE runLease

(* The clock passes lease_expires_at. *)
LeaseExpires(i) ==
    /\ commands[i].status = "leased"
    /\ ~commands[i].expired
    /\ commands' = [commands EXCEPT ![i].expired = TRUE]
    /\ UNCHANGED runLease
===============================================================================
