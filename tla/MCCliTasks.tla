----------------------------- MODULE MCCliTasks -----------------------------
(* One task, its parent and worker, with a few requests of other processes. *)
EXTENDS CliTasks
=============================================================================
