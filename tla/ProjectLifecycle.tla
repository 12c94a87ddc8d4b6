-------------------------- MODULE ProjectLifecycle --------------------------
(***************************************************************************)
(* What a managed project promises its team, whatever runs it: the stored  *)
(* status moves along the edges of the lifecycle, people move it with the  *)
(* five public commands, the managed runtime only moves a project that is  *)
(* RUNNING or WAITING, and an archived project never moves again.          *)
(*                                                                         *)
(* ProjectSupervisor is shown to implement this module: its lifecycle      *)
(* handler, its turn checkpoint, its continuation checkpoint, its retry    *)
(* and its failure checkpoints, in every interleaving.                     *)
(***************************************************************************)

VARIABLES
  status,    \* CoordinatorState.status
  archived   \* Challenge.status = "ARCHIVED"

lifecycleVars == <<status, archived>>

ManagedStatus == {"RUNNING", "WAITING"}

ProjectStatus ==
  ManagedStatus \cup {"CREATED", "PAUSED", "STOPPED", "COMPLETE", "FAILED"}

LifecycleInit ==
  /\ status = "CREATED"
  /\ archived = FALSE

\* A public command, as the transition table of the project service lists it.
Start  == status \in {"CREATED", "STOPPED"} /\ status' = "RUNNING"
Pause  == status \in {"RUNNING", "WAITING"} /\ status' = "PAUSED"
Resume == status \in {"PAUSED", "WAITING", "STOPPED", "FAILED"} /\ status' = "RUNNING"
Stop   == status \in {"CREATED", "RUNNING", "WAITING", "PAUSED", "FAILED"} /\ status' = "STOPPED"

Command ==
  /\ ~archived
  /\ Start \/ Pause \/ Resume \/ Stop
  /\ UNCHANGED archived

\* The archive command leaves the runtime STOPPED for good.
Archive ==
  /\ ~archived
  /\ status \notin ManagedStatus
  /\ status' = "STOPPED"
  /\ archived' = TRUE

\* A checkpoint of the managed runtime.
Checkpoint ==
  /\ ~archived
  /\ status \in ManagedStatus
  /\ status' \in ManagedStatus \cup {"COMPLETE", "FAILED"}
  /\ UNCHANGED archived

LifecycleNext == Command \/ Archive \/ Checkpoint

LifecycleSpec == LifecycleInit /\ [][LifecycleNext]_lifecycleVars

=============================================================================
