------------------------------ MODULE MCRunEngine ------------------------------
(***************************************************************************)
(* One run under small numbers of steps, requests and processes: the       *)
(* configurations MCEngine*.cfg choose them, the operator's commands and   *)
(* the faults.                                                             *)
(***************************************************************************)
EXTENDS RunEngineProperties

(* All requests of a step are made to one agent. *)
OneRole == [ord \in 0..MaxOrdinal |-> 0]
===============================================================================
