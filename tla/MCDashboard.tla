------------------------------ MODULE MCDashboard ------------------------------
(***************************************************************************)
(* Small instances of the dashboard: two runs that exist and one that may  *)
(* be started, two projects, two roles.  Each session is work in one part  *)
(* of the page, or in two that touch.                                      *)
(***************************************************************************)
EXTENDS DashboardProperties, TLC

CONSTANTS r1, r2, n1, P1, P2

Gate(kind, questions) == [kind |-> kind, questions |-> questions]
Gates3 == [r \in {r1, r2, n1} |->
              CASE r = r1 -> <<Gate("grill", {"q1"}), Gate("specification", {"q1"})>>
                [] r = r2 -> <<Gate("reflect", {"q1"})>>
                [] r = n1 -> <<Gate("question", {"q1"})>>]
Branches2 == [p \in {P1, P2} |-> IF p = P1 THEN {"main", "b1"} ELSE {"main", "b2"}]

Quiet == [page |-> 0, engine |-> 0, setup |-> 0, start |-> 0, settings |-> 0, guidance |-> 0,
          network |-> 0]
AllSessions ==
    { [Quiet EXCEPT !.page = 3, !.engine = 1],
      [Quiet EXCEPT !.page = 2, !.engine = 1, !.network = 1],
      [Quiet EXCEPT !.setup = 3],
      [Quiet EXCEPT !.setup = 2, !.network = 1],
      [Quiet EXCEPT !.start = 2],
      [Quiet EXCEPT !.start = 1, !.setup = 1],
      [Quiet EXCEPT !.start = 1, !.network = 1],
      [Quiet EXCEPT !.settings = 4],
      [Quiet EXCEPT !.settings = 2, !.network = 1],
      [Quiet EXCEPT !.guidance = 4],
      [Quiet EXCEPT !.guidance = 2, !.network = 1] }

(* The states of the other parts at the start matter only to theirs.       *)
MCInit ==
    /\ Init
    /\ docker.daemon /\ (left.setup # 3 => docker.image)
    /\ start.project = P1
    /\ left.start = 0 => start.branch = "main"
    /\ left.settings = 0 => file["draft"] = "on"

MCSpec == MCInit /\ [][Next]_vars /\ Fairness
===============================================================================
