---------------------------- MODULE MCProcesses ----------------------------
(* Processes with small constants. *)
EXTENDS Processes

=============================================================================
