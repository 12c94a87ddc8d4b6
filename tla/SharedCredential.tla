-------------------------- MODULE SharedCredential --------------------------
(***************************************************************************)
(* What the projects of a server may rely on when they share a credential: *)
(* a turn is admitted under a credential that is there, keeps it to its    *)
(* end, and has it to itself if the provider serves one turn at a time.    *)
(*                                                                         *)
(* CodexAuthGate is shown to implement this module: the gate, the lock,    *)
(* the waiter threads, cancellations and account reads that fail have no   *)
(* part in it.  The promise ends when a waiter thread cannot be started.   *)
(***************************************************************************)

CONSTANTS
  Turn,         \* whoever may have a turn
  Given,        \* the credentials a server may be started with
  NoCredential, \* nobody is logged in
  Serial        \* credentials that serve one turn at a time

VARIABLES
  credential,
  admitted,  \* the turns that have the credential
  atWork,    \* those of them that are not queueing for it
  intact     \* the promise holds

poolVars == <<credential, admitted, atWork, intact>>

PoolInit ==
  /\ credential \in Given
  /\ admitted = {} /\ atWork = {}
  /\ intact = TRUE

\* A turn is admitted, and queues for a credential that serves one at a time.
Admit(t) ==
  /\ credential # NoCredential /\ t \notin admitted
  /\ admitted' = admitted \cup {t}
  /\ atWork' = IF credential \in Serial THEN atWork ELSE atWork \cup {t}
  /\ UNCHANGED credential

Begin(t) ==
  /\ credential \in Serial /\ t \in admitted /\ atWork = {}
  /\ atWork' = {t}
  /\ UNCHANGED <<credential, admitted>>

Finish(t) ==
  /\ t \in atWork
  /\ admitted' = admitted \ {t} /\ atWork' = atWork \ {t}
  /\ UNCHANGED credential

\* Somebody logs in or out: nobody has the credential.
Change ==
  /\ admitted = {}
  /\ UNCHANGED <<admitted, atWork>>

\* The server is started again.
StopAll ==
  /\ admitted' = {} /\ atWork' = {}
  /\ UNCHANGED credential

PoolNext ==
  /\ intact' => intact
  /\ intact' =>
       \/ \E t \in Turn : Admit(t) \/ Begin(t) \/ Finish(t)
       \/ Change \/ StopAll

PoolSpec == PoolInit /\ [][PoolNext]_poolVars

=============================================================================
