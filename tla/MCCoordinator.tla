----------------------------- MODULE MCCoordinator -----------------------------
(***************************************************************************)
(* Two ordinary commands of one run and its cancellation.                  *)
(***************************************************************************)
EXTENDS CoordinatorProperties

CONSTANTS r1

MCRun == {r1}
MCKey == {[run |-> r1, kind |-> "start-run"],
          [run |-> r1, kind |-> "cancel-run"]}
===============================================================================
