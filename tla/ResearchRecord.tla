--------------------------- MODULE ResearchRecord ---------------------------
(***************************************************************************)
(* What the research knowledge of a project promises to those who read it, *)
(* as if every operation happened at once: a record to which decisions are *)
(* only added, an experiment that one lane at a time may claim and write,  *)
(* and findings that rest on completed experiments.                        *)
(*                                                                         *)
(* ResearchGraph is shown to implement this module: its transactions of    *)
(* several statements, which read rows before others change them, look     *)
(* like these actions taken one at a time.                                 *)
(***************************************************************************)
EXTENDS Naturals, Sequences

CONSTANTS
  Hypothesis, Experiment, Finding,  \* the artifacts of each kind
  Lane, NoLane,                     \* agent lanes, and none of them
  Decisions,                        \* what a hypothesis can be decided to be
  NoId                              \* the parent of a hypothesis

Artifact == Hypothesis \cup Experiment \cup Finding

VARIABLES
  history,   \* the statuses that each artifact has had, oldest first
  parent,    \* what an experiment tests and what a finding rests on
  holder,    \* the lane that may write an experiment
  evidence,  \* the number of observations of each experiment
  lapsed     \* a lease has expired

recordVars == <<history, parent, holder, evidence, lapsed>>

Status(id) == history[id][Len(history[id])]

\* A lane may write what it holds; after a lease has expired, a lane that held
\* it when it looked may still be writing.
MayWrite(e, lane) == holder[e] = lane \/ lapsed

RecordInit ==
  /\ history = [id \in Artifact |-> <<>>]
  /\ parent = [id \in Artifact |-> NoId]
  /\ holder = [e \in Experiment |-> NoLane]
  /\ evidence = [e \in Experiment |-> 0]
  /\ lapsed = FALSE

Enter(id, status) == history' = [history EXCEPT ![id] = Append(@, status)]

Propose(h) ==
  /\ history[h] = <<>>
  /\ Enter(h, "PROPOSED")
  /\ UNCHANGED <<parent, holder, evidence, lapsed>>

Decide(h, decision) ==
  /\ history[h] # <<>>
  /\ Enter(h, decision)
  /\ UNCHANGED <<parent, holder, evidence, lapsed>>

\* A hypothesis is under test from its first experiment on, and a hypothesis
\* that has been decided gets no more experiments.
Design(e, h) ==
  /\ history[e] = <<>> /\ history[h] # <<>>
  /\ \/ /\ Status(h) = "PROPOSED"
        /\ history' = [history EXCEPT ![e] = <<"DESIGNED">>, ![h] = Append(@, "TESTING")]
     \/ /\ Status(h) = "TESTING"
        /\ Enter(e, "DESIGNED")
  /\ parent' = [parent EXCEPT ![e] = h]
  /\ UNCHANGED <<holder, evidence, lapsed>>

\* A lease is taken from nobody; the first claim starts the experiment.
Claim(e, lane) ==
  /\ history[e] # <<>>
  /\ holder[e] \in {NoLane, lane}
  /\ \/ Status(e) = "DESIGNED" /\ Enter(e, "RUNNING")
     \/ Status(e) \in {"RUNNING", "COMPLETED"} /\ UNCHANGED history
  /\ holder' = [holder EXCEPT ![e] = lane]
  /\ UNCHANGED <<parent, evidence, lapsed>>

\* An observation that was under way can still arrive after the completion.
Observe(e, lane) ==
  /\ history[e] # <<>>
  /\ \/ Status(e) = "RUNNING" /\ MayWrite(e, lane)
     \/ Status(e) = "COMPLETED"
  /\ evidence' = [evidence EXCEPT ![e] = @ + 1]
  /\ UNCHANGED <<history, parent, holder, lapsed>>

Complete(e, lane) ==
  /\ history[e] # <<>> /\ Status(e) = "RUNNING"
  /\ MayWrite(e, lane)
  /\ Enter(e, "COMPLETED")
  /\ holder' = [holder EXCEPT ![e] = IF @ = lane THEN NoLane ELSE @]
  /\ UNCHANGED <<parent, evidence, lapsed>>

Publish(f, e) ==
  /\ history[f] = <<>>
  /\ history[e] # <<>> /\ Status(e) = "COMPLETED"
  /\ Enter(f, "PUBLISHED")
  /\ parent' = [parent EXCEPT ![f] = e]
  /\ UNCHANGED <<holder, evidence, lapsed>>

Lapse(e) ==
  /\ holder[e] # NoLane
  /\ holder' = [holder EXCEPT ![e] = NoLane]
  /\ lapsed' = TRUE
  /\ UNCHANGED <<history, parent, evidence>>

RecordNext ==
  \/ \E h \in Hypothesis :
       \/ Propose(h) \/ \E decision \in Decisions : Decide(h, decision)
       \/ \E e \in Experiment : Design(e, h)
  \/ \E e \in Experiment :
       \/ \E lane \in Lane : Claim(e, lane) \/ Observe(e, lane) \/ Complete(e, lane)
       \/ \E f \in Finding : Publish(f, e)
       \/ Lapse(e)

RecordSpec == RecordInit /\ [][RecordNext]_recordVars

=============================================================================
