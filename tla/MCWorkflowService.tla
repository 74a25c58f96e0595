--------------------------- MODULE MCWorkflowService ---------------------------
(* Instances of WorkflowService for TLC. *)
EXTENDS WorkflowService

===============================================================================
