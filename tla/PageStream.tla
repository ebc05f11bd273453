------------------------------ MODULE PageStream ------------------------------
(***************************************************************************)
(* What all parts of the dashboard share (ui/app.js, src/api-server.ts):   *)
(* the events table and the page's stream of it, and how the replies of    *)
(* the requests a page has under way come back.                            *)
(*                                                                         *)
(* A request under way is a record with a stage: 1 as it was sent, 3 when  *)
(* its reply is made.  Requests of one part form a sequence in the order   *)
(* they were sent.  The parts of the page do not wait for their requests,  *)
(* so replies may overtake each other; in an ordered session they do not.  *)
(***************************************************************************)
EXTENDS Naturals, Sequences, SequencesExt

CONSTANTS
    NoRun,      \* the undefined run id: that of setup events, of an empty selection
    Sessions    \* bound: how often each part of the system may act by itself

VARIABLES
    left,       \* what is left of these allowances
    ordered,    \* replies come back in the order of the requests
    log,        \* events: the run of each event
    cursor      \* how many of them the stream has delivered

streamVars == <<left, ordered, log, cursor>>

StreamInit ==
    /\ left \in Sessions
    /\ ordered \in BOOLEAN

(* The fields of f, and those of g that f lacks (Object.assign({}, g, f)). *)
Filled(f, g) ==
    [x \in DOMAIN f \cup DOMAIN g |-> IF x \in DOMAIN f THEN f[x] ELSE g[x]]

Spend(part) == left[part] > 0 /\ left' = [left EXCEPT ![part] = @ - 1]

InTurn(requests, i) ==
    ordered => \A j \in 1..(i - 1) : requests[j].stage > requests[i].stage

Moves(requests, i, stage) ==
    i \in DOMAIN requests /\ requests[i].stage = stage /\ InTurn(requests, i)

AppendEvent(r) == log' = Append(log, r)

Undelivered == cursor < Len(log)

(* streamEvents sends what the table holds beyond its cursor; onmessage    *)
(* handles one event at a time.                                            *)
NextEvent(r) ==
    /\ Undelivered
    /\ r = log[cursor + 1]
    /\ cursor' = cursor + 1

(* EventSource connects again after the server or the connection was gone; *)
(* the server reads no Last-Event-ID, so the table is sent from the start. *)
Reconnect == cursor' = 0
===============================================================================
