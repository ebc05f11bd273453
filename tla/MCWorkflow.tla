------------------------------- MODULE MCWorkflow -------------------------------
(***************************************************************************)
(* One or two tasks, two EnvironmentSpecs that differ in their setup.      *)
(***************************************************************************)
EXTENDS Workflow

MCPlan == {1, 2}
MCSetup == [p \in MCPlan |-> p]
MCHealth == [p \in MCPlan |-> 1]
MCSlices == {<<1>>, <<1, 2>>}
===============================================================================
