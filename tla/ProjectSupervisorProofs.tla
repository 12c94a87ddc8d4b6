---------------------- MODULE ProjectSupervisorProofs ----------------------
(***************************************************************************)
(* Theorems about ProjectSupervisor, for every set of processes and every  *)
(* value of its bounds.                                                    *)
(***************************************************************************)
EXTENDS ProjectSupervisor, SequenceTheorems, FiniteSetTheorems, WellFoundedInduction, TLAPS

-----------------------------------------------------------------------------
(* The operators of the model *)

\* The rows that a checkpoint and a lifecycle command write are rows.
LEMMA CheckpointedType ==
  ASSUME NEW r \in RowType, NEW status \in Status, NEW cursor \in Nat,
         NEW wake \in {"none", "future", "due"}, NEW step \in {"plan", "retry", "repair"}
  PROVE  /\ Checkpointed(r, status, cursor, wake, step) \in RowType
         /\ [Checkpointed(r, status, cursor, wake, step) EXCEPT !.thread = "kept"] \in RowType
  BY DEF Checkpointed, RowType

LEMMA MovedType ==
  ASSUME NEW r \in RowType, NEW status \in Status
  PROVE  Moved(r, status) \in RowType
<1>1. r.cursor \in Nat /\ r.step \in {"plan", "retry", "repair"}
  BY DEF RowType
<1> QED
  BY <1>1, CheckpointedType DEF Moved

LEMMA NewRowType == NewRow \in RowType /\ NoTurn \in TurnType
  BY DEF NewRow, RowType, NoTurn, TurnType, Status, Active, Outcome

\* The updates a turn's locals go through.
LEMMA TurnUpdates ==
  ASSUME NEW t \in TurnType
  PROVE  /\ \A out \in Outcome : [t EXCEPT !.out = out] \in TurnType
         /\ \A m \in SUBSET Nat : [t EXCEPT !.messages = m] \in TurnType
         /\ \A retry \in Nat : [t EXCEPT !.retry = retry] \in TurnType
         /\ \A m \in SUBSET Nat, env, run \in Nat :
              [t EXCEPT !.messages = m, !.env = env, !.run = run] \in TurnType
  BY DEF TurnType

LEMMA RetryCountType == runs \in Seq(RunType) => NextRetryCount \in Nat
<1> SUFFICES ASSUME runs \in Seq(RunType), runs # <<>>
             PROVE  runs[Len(runs)].retry \in Nat
  BY DEF NextRetryCount
<1>1. Len(runs) \in 1..Len(runs)
  BY EmptySeq
<1>2. runs[Len(runs)] \in RunType
  BY <1>1, ElementOfSeq
<1> QED
  BY <1>2 DEF RunType

\* A set of numbers with an upper bound has a maximum.
LEMMA MaximumExists ==
  ASSUME NEW n \in Nat, NEW S \in SUBSET (0..n), S # {}
  PROVE  /\ Maximum(S) \in S
         /\ \A y \in S : y <= Maximum(S)
<1> DEFINE T == {n - x : x \in S}
<1>1. T \subseteq Nat /\ T # {}
  <2>1. PICK x \in S : TRUE
    OBVIOUS
  <2>2. n - x \in T
    BY <2>1
  <2>3. \A y \in S : n - y \in Nat
    OBVIOUS
  <2> QED
    BY <2>2, <2>3
<1>2. PICK d \in T : \A y \in T : ~ (<<y, d>> \in OpToRel(<, Nat))
  BY <1>1, NatLessThanWellFounded, WFMin, Zenon
<1>3. \A y \in T : d <= y
  <2> TAKE y \in T
  <2>1. y \in Nat /\ d \in Nat
    BY <1>1, <1>2
  <2>2. <<y, d>> \notin OpToRel(<, Nat)
    BY <1>2
  <2>3. ~ (y < d)
    BY <2>1, <2>2 DEF OpToRel
  <2> QED
    BY <2>1, <2>3
<1>4. PICK x \in S : d = n - x
  BY <1>2
<1>5. \A y \in S : y <= x
  <2> TAKE y \in S
  <2>1. n - y \in T /\ x \in 0..n /\ y \in 0..n
    OBVIOUS
  <2>2. n - x <= n - y
    BY <1>3, <1>4, <2>1
  <2> QED
    BY <2>1, <2>2
<1> QED
  BY <1>5 DEF Maximum

\* A run record can be closed without disturbing the others.
LEMMA FinishRunType ==
  ASSUME NEW p \in Process, NEW status \in RunStatus,
         runs \in Seq(RunType), turn[p].run \in DOMAIN runs, FinishRun(p, status)
  PROVE  /\ runs' \in Seq(RunType)
         /\ DOMAIN runs' = DOMAIN runs
<1> DEFINE i == turn[p].run
           e == [runs[i] EXCEPT !.status = status]
<1>1. i \in 1..Len(runs)
  BY LenProperties
<1>2. runs[i] \in RunType
  BY <1>1, ElementOfSeq
<1>3. e \in RunType
  BY <1>2 DEF RunType
<1>4. runs' = [runs EXCEPT ![i] = e]
  BY DEF FinishRun
<1>5. runs' \in Seq(RunType) /\ Len(runs') = Len(runs)
  BY <1>1, <1>3, <1>4, ExceptSeq
<1> QED
  BY <1>5, LenProperties

\* A run record is added behind the others.
LEMMA StartRunType ==
  ASSUME NEW r \in RunType, runs \in Seq(RunType), runs' = Append(runs, r)
  PROVE  /\ runs' \in Seq(RunType)
         /\ Len(runs) + 1 \in DOMAIN runs'
         /\ DOMAIN runs \subseteq DOMAIN runs'
  OBVIOUS

\* A message is stored behind the others.
LEMMA StoreType ==
  ASSUME inbox \in Seq({"PENDING", "ACKNOWLEDGED"}), Store
  PROVE  /\ inbox' \in Seq({"PENDING", "ACKNOWLEDGED"})
         /\ Len(inbox) \in Nat
         /\ Len(inbox') = Len(inbox) + 1
  BY DEF Store

\* Acknowledging messages leaves the others, and their order, alone.
LEMMA AcknowledgeType ==
  ASSUME inbox \in Seq({"PENDING", "ACKNOWLEDGED"}), NEW S,
         inbox' = [i \in DOMAIN inbox |-> IF i \in S THEN "ACKNOWLEDGED" ELSE inbox[i]]
  PROVE  /\ inbox' \in Seq({"PENDING", "ACKNOWLEDGED"})
         /\ Len(inbox') = Len(inbox)
  OBVIOUS

\* The pending messages are messages.
LEMMA StoredMessages ==
  ASSUME inbox \in Seq({"PENDING", "ACKNOWLEDGED"})
  PROVE  /\ Pending \subseteq 0..Len(inbox)
         /\ Pending \subseteq Nat
         /\ Len(inbox) \in Nat
  BY LenProperties DEF Pending

LEMMA SeenRow ==
  ASSUME TaskOK, NEW p \in Process
  PROVE  /\ seen[p] \in RowType
         /\ seen[p].status \in Status /\ seen[p].cursor \in Nat /\ seen[p].version \in Nat
         /\ seen[p].step \in {"plan", "retry", "repair"}
  BY DEF TaskOK, RowType

\* A lifecycle command and the pause of an interrupt write a row.
LEMMA TransitionType ==
  ASSUME NEW action, row \in RowType, Transition(action)
  PROVE  row' \in RowType
  BY MovedType DEF Transition

LEMMA PauseType ==
  ASSUME row \in RowType, PauseIfActive
  PROVE  row' \in RowType
  BY MovedType DEF PauseIfActive, Status

\* A call to the session is added, answered and withdrawn.
LEMMA AskCalls ==
  ASSUME CallsOK, NEW p \in Process, NEW op \in {"steer", "interrupt", "refresh", "stop"},
         NEW m \in Nat, Ask(p, op, m)
  PROVE  /\ calls' \in [Process -> SUBSET CallType]
         /\ \A q \in Process : \A c \in calls'[q] : c \in calls[q] \/ c.message = m
<1> DEFINE new == [op |-> op, message |-> m, answer |-> "pending"]
<1>1. new \in CallType /\ new.message = m
  BY DEF CallType
<1>2. calls' = [calls EXCEPT ![p] = @ \cup {new}]
  BY DEF Ask
<1> HIDE DEF new
<1> QED
  BY <1>1, <1>2 DEF CallsOK

LEMMA AnsweredCalls ==
  ASSUME CallsOK, NEW p \in Process, NEW c \in calls[p],
         NEW answer \in {"yes", "no", "raised"}, Answered(p, c, answer)
  PROVE  /\ calls' \in [Process -> SUBSET CallType]
         /\ \A q \in Process : \A d \in calls'[q] : d \in calls[q] \/ (q = p /\ d.message = c.message)
         /\ c.message \in Nat
<1> DEFINE new == [c EXCEPT !.answer = answer]
<1>1. c \in CallType
  BY DEF CallsOK
<1>2. new \in CallType /\ new.message = c.message /\ c.message \in Nat
  BY <1>1 DEF CallType
<1>3. calls' = [calls EXCEPT ![p] = (@ \ {c}) \cup {new}]
  BY DEF Answered
<1> HIDE DEF new
<1> QED
  BY <1>2, <1>3 DEF CallsOK

\* What the session can answer, and how far an interrupt can have come after it.
LEMMA AnswerSets ==
  ASSUME NEW p \in Process
  PROVE  /\ SteerAnswers(p) \subseteq {"yes", "no"}
         /\ InterruptAnswers(p) \subseteq {"yes", "no", "raised"}
         /\ stop \in [Process -> StopType] =>
              \A answer : StopsAfter(p, answer) \subseteq StopType
BY DEF SteerAnswers, InterruptAnswers, StopsAfter, StopType

LEMMA ResumedCalls ==
  ASSUME CallsOK, NEW p \in Process, NEW c \in calls[p], NEW op, Resumes(p, c, op)
  PROVE  /\ calls' \in [Process -> SUBSET CallType]
         /\ \A q \in Process : calls'[q] \subseteq calls[q]
         /\ c.message \in Nat
<1>1. c \in CallType
  BY DEF CallsOK
<1> QED
  BY <1>1 DEF CallsOK, CallType, Resumes

-----------------------------------------------------------------------------
(* Type correctness *)

LEMMA InitTypeOK == Init => TypeOK
<1> SUFFICES ASSUME Init PROVE TypeOK
  OBVIOUS
<1> USE DEF Init
<1>1. DurableOK
  <2>1. inbox \in Seq({"PENDING", "ACKNOWLEDGED"}) /\ runs \in Seq(RunType)
    BY EmptySeq
  <2>2. lease \in [owner : Process \cup {NoProcess}, state : {"held", "lapsed"}]
    OBVIOUS
  <2> QED
    BY NewRowType, <2>1, <2>2 DEF DurableOK
<1>2. TaskOK
  BY NewRowType DEF TaskOK, ProcType, PcType, SessionType
<1>3. CallsOK /\ HistoryOK
  BY DEF CallsOK, HistoryOK, BeatType, StopType
<1>4. ControlOK /\ MessagesOK
  BY DEF ControlOK, MessagesOK, NoTurn
<1> QED
  BY <1>1, <1>2, <1>3, <1>4 DEF TypeOK

\* What a turn's checkpoint stores, computed from the row it read.
LEMMA CheckpointValues ==
  ASSUME TypeOK, NEW p \in Process, pc[p] = "commit"
  PROVE  /\ CheckpointStatus(p) \in Status
         /\ CheckpointCursor(p) \in Nat
         /\ CheckpointCursor(p) >= seen[p].cursor
<1> DEFINE S == {seen[p].cursor} \cup turn[p].messages
<1>1. seen[p] \in RowType /\ turn[p].out \in Decision
  BY DEF TypeOK, TaskOK, ControlOK
<1>2. CheckpointStatus(p) \in Status
  BY <1>1 DEF CheckpointStatus, RowType, Decision, Status, Active
<1>3. PICK n \in Nat : S \subseteq 0..n
  <2>1. seen[p].cursor \in Nat /\ Len(inbox) \in Nat /\ turn[p].messages \subseteq 0..Len(inbox)
    BY <1>1, LenProperties DEF TypeOK, DurableOK, MessagesOK, RowType
  <2>2. S \subseteq 0..(seen[p].cursor + Len(inbox))
    BY <2>1
  <2> QED
    BY <2>1, <2>2
<1>4. Maximum(S) \in S /\ \A y \in S : y <= Maximum(S)
  BY <1>3, MaximumExists
<1>5. Maximum(S) \in Nat /\ Maximum(S) >= seen[p].cursor
  BY <1>3, <1>4
<1> QED
  BY <1>2, <1>5 DEF CheckpointCursor

LEMMA NextTypeOK == TypeOK /\ [Next]_vars => TypeOK'
<1> SUFFICES ASSUME TypeOK, [Next]_vars PROVE TypeOK'
  OBVIOUS
<1> USE DEF TypeOK
<1>1. ASSUME NEW p \in Process, Start(p) PROVE TypeOK'
  <2>1. TaskOK'
    BY <1>1, NewRowType DEF Start, TaskOK, ProcType, PcType, SessionType, Busy
  <2>2. ControlOK'
    BY <1>1, NewRowType DEF Start, ControlOK, TaskOK, CallsOK, durable
  <2>3. DurableOK' /\ CallsOK' /\ HistoryOK' /\ MessagesOK'
    BY <1>1 DEF Start, durable, budgets, DurableOK, CallsOK, HistoryOK, MessagesOK
  <2> QED
    BY <2>1, <2>2, <2>3
<1>2. ASSUME NEW p \in Process, Crash(p) PROVE TypeOK'
  <2>1. TaskOK'
    BY <1>2, NewRowType DEF Crash, TaskOK, ProcType, PcType, SessionType, Busy
  <2>2. CallsOK'
    BY <1>2, NewRowType DEF Crash, CallsOK, BeatType, StopType, CallType
  <2>3. ControlOK'
    BY <1>2, NewRowType DEF Crash, ControlOK, TaskOK, CallsOK, durable
  <2>4. MessagesOK'
    BY <1>2 DEF Crash, MessagesOK, TaskOK, CallsOK, durable, NoTurn
  <2>5. DurableOK' /\ HistoryOK'
    BY <1>2 DEF Crash, durable, budgets, DurableOK, HistoryOK
  <2> QED
    BY <2>1, <2>2, <2>3, <2>4, <2>5
<1>3. ASSUME NEW p \in Process, EnterLoop(p) PROVE TypeOK'
  <2>1. TaskOK'
    BY <1>3, NewRowType DEF EnterLoop, LoopFree, TaskOK, ProcType, PcType, SessionType, Busy
  <2>2. ControlOK'
    BY <1>3, NewRowType DEF EnterLoop, LoopFree, ControlOK, TaskOK, CallsOK, durable
  <2>3. DurableOK' /\ CallsOK' /\ HistoryOK' /\ MessagesOK'
    BY <1>3 DEF EnterLoop, durable, budgets, DurableOK, CallsOK, HistoryOK, MessagesOK
  <2> QED
    BY <2>1, <2>2, <2>3
<1>4. ASSUME NEW p \in Process, LeaveLoop(p) PROVE TypeOK'
  <2>1. TaskOK'
    BY <1>4, NewRowType DEF LeaveLoop, LoopFree, TaskOK, ProcType, PcType, SessionType, Busy
  <2>2. ControlOK'
    BY <1>4, NewRowType DEF LeaveLoop, LoopFree, ControlOK, TaskOK, CallsOK, durable
  <2>3. DurableOK' /\ CallsOK' /\ HistoryOK' /\ MessagesOK'
    BY <1>4 DEF LeaveLoop, durable, budgets, DurableOK, CallsOK, HistoryOK, MessagesOK
  <2> QED
    BY <2>1, <2>2, <2>3
<1>5. ASSUME NEW p \in Process, BeginTurn(p) PROVE TypeOK'
  <2>1. TaskOK'
    <3>1. NextRetryCount \in Nat
      BY RetryCountType DEF DurableOK
    <3>2. \A retry \in Nat : [NoTurn EXCEPT !.retry = retry] \in TurnType
      BY NewRowType, TurnUpdates
    <3>3. turn' \in [Process -> TurnType]
      BY <1>5, <3>1, <3>2 DEF BeginTurn, TaskOK
    <3> QED
      BY <1>5, <3>3 DEF BeginTurn, TaskOK, PcType, Busy, durable
  <2>2. ControlOK'
    BY <1>5, NewRowType DEF BeginTurn, LoopFree, ControlOK, TaskOK, CallsOK, durable
  <2>3. MessagesOK'
    BY <1>5 DEF BeginTurn, MessagesOK, TaskOK, CallsOK, durable, NoTurn
  <2>4. DurableOK' /\ CallsOK' /\ HistoryOK'
    BY <1>5 DEF BeginTurn, durable, budgets, DurableOK, CallsOK, HistoryOK
  <2> QED
    BY <2>1, <2>2, <2>3, <2>4
<1>6. ASSUME NEW p \in Process, ClaimCoordinator(p) PROVE TypeOK'
  <2>1. DurableOK'
    BY <1>6, NewRowType DEF ClaimCoordinator, DurableOK, durable
  <2>2. TaskOK'
    BY <1>6, NewRowType DEF ClaimCoordinator, TaskOK, ProcType, PcType, SessionType, Busy
  <2>3. ControlOK'
    BY <1>6, NewRowType DEF ClaimCoordinator, ControlOK, TaskOK, CallsOK, durable
  <2>4. MessagesOK'
    BY <1>6 DEF ClaimCoordinator, MessagesOK, TaskOK, CallsOK, durable, NoTurn
  <2>5. CallsOK' /\ HistoryOK'
    BY <1>6 DEF ClaimCoordinator, durable, budgets, CallsOK, HistoryOK
  <2> QED
    BY <2>1, <2>2, <2>3, <2>4, <2>5
<1>7. ASSUME NEW p \in Process, SnapshotTurn(p) PROVE TypeOK'
  <2>1. DurableOK'
    <3>1. [status |-> "RUNNING", retry |-> turn[p].retry] \in RunType
      BY DEF RunType, RunStatus, TaskOK, TurnType
    <3>2. runs' \in Seq(RunType)
      BY <1>7, <3>1, StartRunType DEF SnapshotTurn, Environment, DurableOK
    <3> QED
      BY <1>7, <3>2 DEF SnapshotTurn, Environment, DurableOK
  <2>2. TaskOK'
    <3>1. PromptMessages \in SUBSET Nat /\ resources \in Nat /\ Len(runs) + 1 \in Nat
      BY StoredMessages DEF DurableOK, PromptMessages
    <3>2. turn' \in [Process -> TurnType]
      BY <1>7, <3>1 DEF SnapshotTurn, Environment, TaskOK, TurnType
    <3> QED
      BY <1>7, <3>2 DEF SnapshotTurn, Environment, TaskOK, PcType, SessionType, durable
  <2>3. HistoryOK'
    <3>1. PromptMessages \in SUBSET Nat
      BY StoredMessages DEF DurableOK, PromptMessages
    <3> QED
      BY <1>7, <3>1 DEF SnapshotTurn, Environment, HistoryOK, budgets
  <2>4. ControlOK'
    <3>1. [status |-> "RUNNING", retry |-> turn[p].retry] \in RunType
      BY DEF RunType, RunStatus, TaskOK, TurnType
    <3>2. Len(runs) + 1 \in DOMAIN runs' /\ DOMAIN runs \subseteq DOMAIN runs'
      BY <1>7, <3>1, StartRunType DEF SnapshotTurn, Environment, DurableOK
    <3> QED
      BY <1>7, <3>2 DEF SnapshotTurn, Environment, ControlOK, TaskOK, TurnType
  <2>5. MessagesOK'
    <3>1. PromptMessages \subseteq 0..Len(inbox)
      BY StoredMessages DEF DurableOK, PromptMessages
    <3> QED
      BY <1>7, <3>1 DEF SnapshotTurn, Environment, MessagesOK, TaskOK, CallsOK, TurnType
  <2>6. CallsOK'
    BY <1>7 DEF SnapshotTurn, Environment, durable, budgets, CallsOK
  <2> QED
    BY <2>1, <2>2, <2>3, <2>4, <2>5, <2>6
<1>8. ASSUME NEW p \in Process, CollectFailure(p) PROVE TypeOK'
  <2>1. DurableOK'
    <3>1. turn[p].run \in DOMAIN runs
      BY <1>8 DEF CollectFailure, ControlOK
    <3>2. runs' \in Seq(RunType)
      BY <1>8, <3>1, FinishRunType DEF CollectFailure, DurableOK, RunStatus, RaisedStatus
    <3> QED
      BY <1>8, <3>2 DEF CollectFailure, DurableOK
  <2>2. TaskOK'
    BY <1>8, NewRowType DEF CollectFailure, RaisedStatus, TaskOK, ProcType, PcType, SessionType, Busy
  <2>3. ControlOK'
    <3>1. turn[p].run \in DOMAIN runs
      BY <1>8 DEF CollectFailure, ControlOK
    <3>2. DOMAIN runs' = DOMAIN runs
      BY <1>8, <3>1, FinishRunType DEF CollectFailure, DurableOK, RunStatus, RaisedStatus
    <3> QED
      BY <1>8, <3>2 DEF CollectFailure, ControlOK, TaskOK, durable
  <2>4. CallsOK' /\ HistoryOK' /\ MessagesOK'
    BY <1>8 DEF CollectFailure, durable, budgets, CallsOK, HistoryOK, MessagesOK
  <2> QED
    BY <2>1, <2>2, <2>3, <2>4
<1>9. ASSUME NEW p \in Process, DiscardDecision(p) PROVE TypeOK'
  <2>1. DurableOK'
    <3>1. turn[p].run \in DOMAIN runs
      BY <1>9 DEF DiscardDecision, ControlOK
    <3>2. runs' \in Seq(RunType)
      BY <1>9, <3>1, FinishRunType DEF DiscardDecision, DurableOK, RunStatus, RaisedStatus
    <3> QED
      BY <1>9, <3>2 DEF DiscardDecision, DurableOK
  <2>2. TaskOK'
    <3>1. "refresh" \in Outcome /\ "lease" \in Outcome /\ turn[p] \in TurnType
      BY DEF Outcome, TaskOK
    <3>2. turn' \in [Process -> TurnType]
      BY <1>9, <3>1 DEF DiscardDecision, TaskOK, TurnType
    <3> QED
      BY <1>9, <3>2 DEF DiscardDecision, TaskOK, PcType, SessionType, durable
  <2>3. ControlOK'
    <3>1. turn[p].run \in DOMAIN runs
      BY <1>9 DEF DiscardDecision, ControlOK
    <3>2. DOMAIN runs' = DOMAIN runs
      BY <1>9, <3>1, FinishRunType DEF DiscardDecision, DurableOK, RunStatus, RaisedStatus
    <3> QED
      BY <1>9, <3>2 DEF DiscardDecision, ControlOK, TaskOK, durable
  <2>4. MessagesOK'
    <3>1. \A q \in Process : turn'[q].messages = turn[q].messages
      BY <1>9 DEF DiscardDecision, TaskOK, TurnType
    <3> QED
      BY <1>9, <3>1 DEF DiscardDecision, MessagesOK
  <2>5. CallsOK' /\ HistoryOK'
    BY <1>9 DEF DiscardDecision, durable, budgets, CallsOK, HistoryOK
  <2> QED
    BY <2>1, <2>2, <2>3, <2>4, <2>5
<1>10. ASSUME NEW p \in Process, CollectDecision(p) PROVE TypeOK'
  <2>1. TaskOK'
    <3>1. live[p] \in SUBSET Nat
      BY DEF CallsOK
    <3>2. turn' \in [Process -> TurnType]
      BY <1>10, <3>1 DEF CollectDecision, TaskOK, TurnType
    <3> QED
      BY <1>10, <3>2, NewRowType DEF CollectDecision, TaskOK, PcType, SessionType, Busy, durable, DurableOK
  <2>2. CallsOK'
    BY <1>10, NewRowType DEF CollectDecision, CallsOK, BeatType, CallType
  <2>3. ControlOK'
    BY <1>10, NewRowType DEF CollectDecision, ControlOK, TaskOK, CallsOK, durable
  <2>4. MessagesOK'
    BY <1>10, NewRowType DEF CollectDecision, MessagesOK, TaskOK, CallsOK, durable
  <2>5. DurableOK' /\ HistoryOK'
    BY <1>10 DEF CollectDecision, durable, budgets, DurableOK, HistoryOK
  <2> QED
    BY <2>1, <2>2, <2>3, <2>4, <2>5
<1>11. ASSUME NEW p \in Process, CommitTurn(p) PROVE TypeOK'
  <2>1. DurableOK'
    <3>1. CASE SwapSucceeds(p)
      <4>1. CheckpointStatus(p) \in Status /\ CheckpointCursor(p) \in Nat
        BY <1>11, CheckpointValues DEF CommitTurn
      <4> DEFINE step == IF seen[p].status \in Active THEN "plan" ELSE seen[p].step
      <4>2. step \in {"plan", "retry", "repair"} /\ seen[p] \in RowType
        BY SeenRow
      <4>3. row' = [Checkpointed(seen[p], CheckpointStatus(p), CheckpointCursor(p), "none", step)
                     EXCEPT !.thread = "kept"]
        BY <1>11, <3>1 DEF CommitTurn
      <4> HIDE DEF step
      <4>4. row' \in RowType
        BY <4>1, <4>2, <4>3, CheckpointedType
      <4>5. inbox' \in Seq({"PENDING", "ACKNOWLEDGED"})
        BY <1>11, <3>1, AcknowledgeType DEF CommitTurn, DurableOK
      <4> QED
        BY <1>11, <3>1, <4>4, <4>5 DEF CommitTurn, DurableOK
    <3>2. CASE ~SwapSucceeds(p)
      <4>1. turn[p].run \in DOMAIN runs
        BY <1>11 DEF CommitTurn, ControlOK
      <4>2. runs' \in Seq(RunType)
        BY <1>11, <3>2, <4>1, FinishRunType DEF CommitTurn, DurableOK, RunStatus, RaisedStatus
      <4> QED
        BY <1>11, <3>2, <4>2 DEF CommitTurn, DurableOK
    <3> QED
      BY <3>1, <3>2
  <2>2. TaskOK'
    <3>1. "committed" \in Outcome /\ "fatal" \in Outcome
      BY DEF Outcome, Failure
    <3>2. turn' \in [Process -> TurnType]
      BY <1>11, <3>1 DEF CommitTurn, TaskOK, TurnType
    <3> QED
      BY <1>11, <3>2, NewRowType DEF CommitTurn, TaskOK, PcType, SessionType, Busy, durable, DurableOK
  <2>3. ControlOK'
    <3>1. turn[p].run \in DOMAIN runs
      BY <1>11 DEF CommitTurn, ControlOK
    <3>2. DOMAIN runs' = DOMAIN runs
      BY <1>11, <3>1, FinishRunType DEF CommitTurn, DurableOK, RunStatus, RaisedStatus
    <3> QED
      BY <1>11, <3>2 DEF CommitTurn, ControlOK, TaskOK, TurnType
  <2>4. MessagesOK'
    <3>1. Len(inbox') = Len(inbox)
      BY <1>11, AcknowledgeType DEF CommitTurn, DurableOK
    <3>2. \A q \in Process : turn'[q].messages = turn[q].messages
      BY <1>11 DEF CommitTurn, TaskOK, TurnType
    <3> QED
      BY <1>11, <3>1, <3>2 DEF CommitTurn, MessagesOK
  <2>5. CallsOK' /\ HistoryOK'
    BY <1>11 DEF CommitTurn, durable, budgets, CallsOK, HistoryOK
  <2> QED
    BY <2>1, <2>2, <2>3, <2>4, <2>5
<1>12. ASSUME NEW p \in Process, FinishCommitted(p) PROVE TypeOK'
  <2>1. DurableOK'
    <3>1. turn[p].run \in DOMAIN runs
      BY <1>12 DEF FinishCommitted, ControlOK
    <3>2. runs' \in Seq(RunType)
      BY <1>12, <3>1, FinishRunType DEF FinishCommitted, DurableOK, RunStatus
    <3> QED
      BY <1>12, <3>2 DEF FinishCommitted, DurableOK
  <2>2. TaskOK'
    BY <1>12, NewRowType DEF FinishCommitted, TaskOK, ProcType, PcType, SessionType, Busy
  <2>3. ControlOK'
    <3>1. turn[p].run \in DOMAIN runs
      BY <1>12 DEF FinishCommitted, ControlOK
    <3>2. DOMAIN runs' = DOMAIN runs
      BY <1>12, <3>1, FinishRunType DEF FinishCommitted, DurableOK, RunStatus
    <3> QED
      BY <1>12, <3>2 DEF FinishCommitted, ControlOK, TaskOK, durable
  <2>4. CallsOK' /\ HistoryOK' /\ MessagesOK'
    BY <1>12 DEF FinishCommitted, durable, budgets, CallsOK, HistoryOK, MessagesOK
  <2> QED
    BY <2>1, <2>2, <2>3, <2>4
<1>13. ASSUME NEW p \in Process, UnwindTurn(p) PROVE TypeOK'
  <2>1. DurableOK'
    BY <1>13, NewRowType DEF UnwindTurn, ReleaseLease, DurableOK, durable
  <2>2. TaskOK'
    <3>1. NoTurn \in TurnType
      BY NewRowType
    <3>2. turn' \in [Process -> TurnType]
      BY <1>13, <3>1 DEF UnwindTurn, TaskOK, TurnType
    <3> QED
      BY <1>13, <3>2, NewRowType DEF UnwindTurn, TaskOK, PcType, SessionType, Busy, durable, DurableOK
  <2>3. CallsOK'
    BY <1>13, NewRowType DEF UnwindTurn, ReleaseLease, CallsOK, BeatType, CallType
  <2>4. ControlOK'
    BY <1>13, NewRowType DEF UnwindTurn, ReleaseLease, ControlOK, TaskOK, CallsOK, durable
  <2>5. MessagesOK'
    BY <1>13 DEF UnwindTurn, MessagesOK, TaskOK, CallsOK, durable, NoTurn
  <2>6. HistoryOK'
    BY <1>13 DEF UnwindTurn, durable, budgets, HistoryOK
  <2> QED
    BY <2>1, <2>2, <2>3, <2>4, <2>5, <2>6
<1>14. ASSUME NEW p \in Process, HandleFailure(p) PROVE TypeOK'
  <2>1. TaskOK'
    <3>1. NoTurn \in TurnType /\ row \in RowType
      BY NewRowType DEF DurableOK
    <3>2. turn' \in [Process -> TurnType]
      BY <1>14, <3>1, NewRowType DEF HandleFailure, TaskOK, TurnType
    <3> QED
      BY <1>14, <3>2, NewRowType DEF HandleFailure, TaskOK, PcType, SessionType, Busy, durable, DurableOK
  <2>2. CallsOK'
    BY <1>14, NewRowType DEF HandleFailure, CallsOK, BeatType, CallType
  <2>3. ControlOK'
    BY <1>14, NewRowType DEF HandleFailure, ControlOK, TaskOK, CallsOK, durable
  <2>4. MessagesOK'
    BY <1>14 DEF HandleFailure, MessagesOK, TaskOK, CallsOK, durable, NoTurn
  <2>5. DurableOK' /\ HistoryOK'
    BY <1>14 DEF HandleFailure, durable, budgets, DurableOK, HistoryOK
  <2> QED
    BY <2>1, <2>2, <2>3, <2>4, <2>5
<1>15. ASSUME NEW p \in Process, ScheduleRetry(p) PROVE TypeOK'
  <2>1. DurableOK'
    <3>1. "WAITING" \in Status
      BY DEF Status, Active
    <3>2. Checkpointed(seen[p], "WAITING", seen[p].cursor, "future", "retry") \in RowType
      BY <3>1, SeenRow, CheckpointedType
    <3> QED
      BY <1>15, <3>2 DEF ScheduleRetry, DurableOK
  <2>2. TaskOK'
    BY <1>15, NewRowType DEF ScheduleRetry, TaskOK, ProcType, PcType, SessionType, Busy
  <2>3. ControlOK'
    BY <1>15, NewRowType DEF ScheduleRetry, ControlOK, TaskOK, CallsOK, durable
  <2>4. CallsOK' /\ HistoryOK' /\ MessagesOK'
    BY <1>15 DEF ScheduleRetry, durable, budgets, CallsOK, HistoryOK, MessagesOK
  <2> QED
    BY <2>1, <2>2, <2>3, <2>4
<1>16. ASSUME NEW p \in Process, GiveUp(p) PROVE TypeOK'
  <2>1. DurableOK'
    <3>1. "FAILED" \in Status
      BY DEF Status, Active
    <3>2. Checkpointed(seen[p], "FAILED", seen[p].cursor, "none", "repair") \in RowType
      BY <3>1, SeenRow, CheckpointedType
    <3> QED
      BY <1>16, <3>2 DEF GiveUp, DurableOK
  <2>2. TaskOK'
    BY <1>16, NewRowType DEF GiveUp, TaskOK, ProcType, PcType, SessionType, Busy
  <2>3. ControlOK'
    BY <1>16, NewRowType DEF GiveUp, ControlOK, TaskOK, CallsOK, durable
  <2>4. CallsOK' /\ HistoryOK' /\ MessagesOK'
    BY <1>16 DEF GiveUp, durable, budgets, CallsOK, HistoryOK, MessagesOK
  <2> QED
    BY <2>1, <2>2, <2>3, <2>4
<1>17. ASSUME NEW p \in Process, ReadForBinding(p) PROVE TypeOK'
  <2>1. TaskOK'
    BY <1>17 DEF ReadForBinding, TaskOK, SessionType, durable, DurableOK
  <2>2. ControlOK'
    BY <1>17, NewRowType DEF ReadForBinding, ControlOK, TaskOK, CallsOK, durable
  <2>3. DurableOK' /\ CallsOK' /\ HistoryOK' /\ MessagesOK'
    BY <1>17 DEF ReadForBinding, durable, budgets, DurableOK, CallsOK, HistoryOK, MessagesOK
  <2> QED
    BY <2>1, <2>2, <2>3
<1>18. ASSUME NEW p \in Process, BindContinuation(p) PROVE TypeOK'
  <2>1. DurableOK'
    <3>1. [Checkpointed(seen[p], seen[p].status, seen[p].cursor, "none", seen[p].step)
             EXCEPT !.thread = "kept"] \in RowType
      BY SeenRow, CheckpointedType
    <3> QED
      BY <1>18, <3>1 DEF BindContinuation, DurableOK
  <2>2. TaskOK'
    <3>1. "fatal" \in Outcome
      BY DEF Outcome, Failure
    <3>2. turn' \in [Process -> TurnType]
      BY <1>18, <3>1 DEF BindContinuation, TaskOK, TurnType
    <3> QED
      BY <1>18, <3>2, NewRowType DEF BindContinuation, TaskOK, PcType, SessionType, Busy, durable, DurableOK
  <2>3. CallsOK'
    BY <1>18, NewRowType DEF BindContinuation, CallsOK, BeatType, StopType, CallType
  <2>4. ControlOK'
    BY <1>18 DEF BindContinuation, ControlOK, TaskOK, TurnType
  <2>5. MessagesOK'
    <3>1. \A q \in Process : turn'[q].messages = turn[q].messages
      BY <1>18 DEF BindContinuation, TaskOK, TurnType
    <3> QED
      BY <1>18, <3>1 DEF BindContinuation, MessagesOK
  <2>6. HistoryOK'
    BY <1>18 DEF BindContinuation, durable, budgets, HistoryOK
  <2> QED
    BY <2>1, <2>2, <2>3, <2>4, <2>5, <2>6
<1>19. ASSUME NEW p \in Process, ProviderEnds(p) PROVE TypeOK'
  <2>1. TaskOK'
    <3>1. ProviderAnswers(p) \subseteq Outcome
      BY DEF ProviderAnswers, Outcome, Failure
    <3>2. turn' \in [Process -> TurnType]
      BY <1>19, <3>1 DEF ProviderEnds, TaskOK, TurnType
    <3> QED
      BY <1>19, <3>2, NewRowType DEF ProviderEnds, TaskOK, PcType, SessionType, Busy, durable, DurableOK
  <2>2. CallsOK'
    BY <1>19, NewRowType DEF ProviderEnds, ProviderAnswers, CallsOK, BeatType, StopType, CallType
  <2>3. ControlOK'
    BY <1>19 DEF ProviderEnds, ControlOK, TaskOK, TurnType, durable
  <2>4. MessagesOK'
    BY <1>19 DEF ProviderEnds, MessagesOK, TaskOK, TurnType, durable
  <2>5. DurableOK' /\ HistoryOK'
    BY <1>19 DEF ProviderEnds, durable, budgets, DurableOK, HistoryOK
  <2> QED
    BY <2>1, <2>2, <2>3, <2>4, <2>5
<1>20. ASSUME NEW p \in Process, AnswerSteer(p) PROVE TypeOK'
  <2>1. CallsOK'
    <3>1. PICK c \in calls[p], answer \in {"yes", "no"} :
            Answered(p, c, answer) /\ delivered' \subseteq delivered \cup {c.message}
      BY <1>20, AnswerSets DEF AnswerSteer
    <3>2. calls' \in [Process -> SUBSET CallType]
      BY <3>1, AnsweredCalls DEF TypeOK
    <3> QED
      BY <1>20, <3>2 DEF AnswerSteer, CallsOK
  <2>2. HistoryOK'
    <3>1. PICK c \in calls[p], answer \in {"yes", "no"} :
            Answered(p, c, answer) /\ delivered' \subseteq delivered \cup {c.message}
      BY <1>20, AnswerSets DEF AnswerSteer
    <3>2. c.message \in Nat
      BY <3>1, AnsweredCalls DEF TypeOK
    <3> QED
      BY <1>20, <3>1, <3>2 DEF AnswerSteer, HistoryOK, budgets
  <2>3. ControlOK'
    <3>1. \A q \in Process : calls'[q] # calls[q] => proc[q] = "up"
      BY <1>20 DEF AnswerSteer, Answered, CallsOK, ControlOK, LoopFree
    <3> QED
      BY <1>20, <3>1 DEF AnswerSteer, ControlOK, TaskOK, durable
  <2>4. MessagesOK'
    <3>1. PICK c \in calls[p], answer \in {"yes", "no"} :
            Answered(p, c, answer) /\ delivered' \subseteq delivered \cup {c.message}
      BY <1>20, AnswerSets DEF AnswerSteer
    <3>2. \A q \in Process : \A d \in calls'[q] : d.message <= Len(inbox)
      BY <3>1, AnsweredCalls DEF TypeOK, MessagesOK
    <3> QED
      BY <1>20, <3>2 DEF AnswerSteer, MessagesOK, durable
  <2>5. DurableOK' /\ TaskOK'
    BY <1>20 DEF AnswerSteer, durable, budgets, DurableOK, TaskOK
  <2> QED
    BY <2>1, <2>2, <2>3, <2>4, <2>5
<1>21. ASSUME NEW p \in Process, AnswerInterrupt(p) PROVE TypeOK'
  <2>1. CallsOK'
    <3>1. PICK c \in calls[p], answer \in {"yes", "no", "raised"} :
            Answered(p, c, answer) /\ delivered' \subseteq delivered \cup {c.message}
      BY <1>21, AnswerSets DEF AnswerInterrupt
    <3>2. calls' \in [Process -> SUBSET CallType]
      BY <3>1, AnsweredCalls DEF TypeOK
    <3>3. stop' \in [Process -> StopType]
      BY <1>21, AnswerSets DEF AnswerInterrupt, TypeOK, CallsOK
    <3> QED
      BY <1>21, <3>2, <3>3 DEF AnswerInterrupt, CallsOK
  <2>2. HistoryOK'
    <3>1. PICK c \in calls[p], answer \in {"yes", "no", "raised"} :
            Answered(p, c, answer) /\ delivered' \subseteq delivered \cup {c.message}
      BY <1>21, AnswerSets DEF AnswerInterrupt
    <3>2. c.message \in Nat
      BY <3>1, AnsweredCalls DEF TypeOK
    <3> QED
      BY <1>21, <3>1, <3>2 DEF AnswerInterrupt, HistoryOK, budgets
  <2>3. ControlOK'
    <3>1. \A q \in Process : calls'[q] # calls[q] => proc[q] = "up"
      BY <1>21 DEF AnswerInterrupt, Answered, CallsOK, ControlOK, LoopFree
    <3> QED
      BY <1>21, <3>1 DEF AnswerInterrupt, ControlOK, TaskOK, durable
  <2>4. MessagesOK'
    <3>1. PICK c \in calls[p], answer \in {"yes", "no", "raised"} :
            Answered(p, c, answer) /\ delivered' \subseteq delivered \cup {c.message}
      BY <1>21, AnswerSets DEF AnswerInterrupt
    <3>2. \A q \in Process : \A d \in calls'[q] : d.message <= Len(inbox)
      BY <3>1, AnsweredCalls DEF TypeOK, MessagesOK
    <3> QED
      BY <1>21, <3>2 DEF AnswerInterrupt, MessagesOK, durable
  <2>5. DurableOK' /\ TaskOK'
    BY <1>21 DEF AnswerInterrupt, durable, budgets, DurableOK, TaskOK
  <2> QED
    BY <2>1, <2>2, <2>3, <2>4, <2>5
<1>22. ASSUME NEW p \in Process, SteerReturns(p) PROVE TypeOK'
  <2>1. CallsOK'
    <3>1. PICK c \in calls[p] : Resumes(p, c, "steer") /\ AcceptLive(p, c)
      BY <1>22 DEF SteerReturns, Resumes
    <3>2. /\ calls' \in [Process -> SUBSET CallType]
          /\ \A q \in Process : calls'[q] \subseteq calls[q]
          /\ c.message \in Nat
      BY <3>1, ResumedCalls
    <3>3. live' \in [Process -> SUBSET Nat]
      BY <3>1, <3>2 DEF AcceptLive, CallsOK
    <3> QED
      BY <1>22, <3>2, <3>3 DEF SteerReturns, CallsOK
  <2>2. ControlOK'
    <3>1. \A q \in Process : calls'[q] # calls[q] => proc[q] = "up"
      BY <1>22 DEF SteerReturns, Resumes, CallsOK, ControlOK, LoopFree
    <3> QED
      BY <1>22, <3>1 DEF SteerReturns, ControlOK, TaskOK, durable
  <2>3. MessagesOK'
    <3>1. PICK c \in calls[p] : Resumes(p, c, "steer") /\ AcceptLive(p, c)
      BY <1>22 DEF SteerReturns, Resumes
    <3>2. /\ calls' \in [Process -> SUBSET CallType]
          /\ \A q \in Process : calls'[q] \subseteq calls[q]
          /\ c.message \in Nat
      BY <3>1, ResumedCalls
    <3>3. live'[p] \subseteq live[p] \cup {c.message} /\ \A q \in Process \ {p} : live'[q] = live[q]
      BY <3>1 DEF AcceptLive, CallsOK
    <3>4. c.message \in 0..Len(inbox)
      BY <3>1, <3>2, LenProperties DEF MessagesOK, DurableOK
    <3> QED
      BY <1>22, <3>2, <3>3, <3>4 DEF SteerReturns, MessagesOK, durable
  <2>4. DurableOK' /\ TaskOK' /\ HistoryOK'
    BY <1>22 DEF SteerReturns, durable, budgets, DurableOK, TaskOK, HistoryOK
  <2> QED
    BY <2>1, <2>2, <2>3, <2>4
<1>23. ASSUME NEW p \in Process, InterruptReturns(p) PROVE TypeOK'
  <2>1. DurableOK'
    BY <1>23, PauseType DEF InterruptReturns, DurableOK
  <2>2. CallsOK'
    <3>1. PICK c \in calls[p] : Resumes(p, c, "interrupt") /\ AcceptLive(p, c)
      BY <1>23 DEF InterruptReturns, Resumes
    <3>2. /\ calls' \in [Process -> SUBSET CallType]
          /\ \A q \in Process : calls'[q] \subseteq calls[q]
          /\ c.message \in Nat
      BY <3>1, ResumedCalls
    <3>3. live' \in [Process -> SUBSET Nat]
      BY <3>1, <3>2 DEF AcceptLive, CallsOK
    <3> QED
      BY <1>23, <3>2, <3>3 DEF InterruptReturns, CallsOK
  <2>3. ControlOK'
    <3>1. \A q \in Process : calls'[q] # calls[q] => proc[q] = "up"
      BY <1>23 DEF InterruptReturns, Resumes, CallsOK, ControlOK, LoopFree
    <3> QED
      BY <1>23, <3>1 DEF InterruptReturns, ControlOK, TaskOK, durable
  <2>4. MessagesOK'
    <3>1. PICK c \in calls[p] : Resumes(p, c, "interrupt") /\ AcceptLive(p, c)
      BY <1>23 DEF InterruptReturns, Resumes
    <3>2. /\ calls' \in [Process -> SUBSET CallType]
          /\ \A q \in Process : calls'[q] \subseteq calls[q]
          /\ c.message \in Nat
      BY <3>1, ResumedCalls
    <3>3. live'[p] \subseteq live[p] \cup {c.message} /\ \A q \in Process \ {p} : live'[q] = live[q]
      BY <3>1 DEF AcceptLive, CallsOK
    <3>4. c.message \in 0..Len(inbox)
      BY <3>1, <3>2, LenProperties DEF MessagesOK, DurableOK
    <3> QED
      BY <1>23, <3>2, <3>3, <3>4 DEF InterruptReturns, MessagesOK, durable
  <2>5. TaskOK' /\ HistoryOK'
    BY <1>23 DEF InterruptReturns, durable, budgets, TaskOK, HistoryOK
  <2> QED
    BY <2>1, <2>2, <2>3, <2>4, <2>5
<1>24. ASSUME NEW p \in Process, StopReturns(p) PROVE TypeOK'
  <2>1. CallsOK'
    BY <1>24, NewRowType DEF StopReturns, Resumes, CallsOK, BeatType, CallType
  <2>2. ControlOK'
    <3>1. \A q \in Process : calls'[q] # calls[q] => proc[q] = "up"
      BY <1>24 DEF StopReturns, Resumes, CallsOK, ControlOK, LoopFree
    <3> QED
      BY <1>24, <3>1 DEF StopReturns, ControlOK, TaskOK, durable
  <2>3. MessagesOK'
    BY <1>24, NewRowType DEF StopReturns, Resumes, MessagesOK, TaskOK, CallsOK, durable
  <2>4. DurableOK' /\ TaskOK' /\ HistoryOK'
    BY <1>24 DEF StopReturns, durable, budgets, DurableOK, TaskOK, HistoryOK
  <2> QED
    BY <2>1, <2>2, <2>3, <2>4
<1>25. ASSUME NEW p \in Process, RefreshReturns(p) PROVE TypeOK'
  <2>1. TaskOK'
    BY <1>25, NewRowType DEF RefreshReturns, Resumes, RunIfActive, EnsureRunning, TaskOK, ProcType, PcType, SessionType, Busy
  <2>2. CallsOK'
    BY <1>25, NewRowType DEF RefreshReturns, Resumes, RunIfActive, EnsureRunning, CallsOK, BeatType, CallType
  <2>3. ControlOK'
    <3>1. \A q \in Process : pc'[q] # pc[q] \/ calls'[q] # calls[q] => proc[q] = "up"
      BY <1>25 DEF RefreshReturns, RunIfActive, EnsureRunning, TaskOK, Resumes, CallsOK, ControlOK
    <3>2. \A q \in Process : pc'[q] # pc[q] => pc[q] = "off" /\ pc'[q] = "boot"
      BY <1>25 DEF RefreshReturns, RunIfActive, EnsureRunning, TaskOK
    <3> QED
      BY <1>25, <3>1, <3>2 DEF RefreshReturns, ControlOK, TaskOK, durable
  <2>4. MessagesOK'
    BY <1>25, NewRowType DEF RefreshReturns, Resumes, RunIfActive, EnsureRunning, MessagesOK, TaskOK, CallsOK, durable
  <2>5. DurableOK' /\ HistoryOK'
    BY <1>25 DEF RefreshReturns, durable, budgets, DurableOK, HistoryOK
  <2> QED
    BY <2>1, <2>2, <2>3, <2>4, <2>5
<1>26. ASSUME NEW p \in Process, SendBeat(p) PROVE TypeOK'
  <2>1. CallsOK'
    BY <1>26, NewRowType DEF SendBeat, LoopFree, CallsOK, BeatType, CallType
  <2>2. DurableOK' /\ TaskOK' /\ HistoryOK' /\ ControlOK' /\ MessagesOK'
    BY <1>26 DEF SendBeat, durable, budgets, DurableOK, TaskOK, HistoryOK, ControlOK, MessagesOK
  <2> QED
    BY <2>1, <2>2
<1>27. ASSUME NEW p \in Process, LandBeat(p) PROVE TypeOK'
  <2>1. DurableOK'
    BY <1>27, NewRowType DEF LandBeat, DurableOK, durable
  <2>2. CallsOK'
    BY <1>27, NewRowType DEF LandBeat, CallsOK, BeatType, CallType
  <2>3. TaskOK' /\ HistoryOK' /\ ControlOK' /\ MessagesOK'
    BY <1>27 DEF LandBeat, durable, budgets, TaskOK, HistoryOK, ControlOK, MessagesOK
  <2> QED
    BY <2>1, <2>2, <2>3
<1>28. ASSUME NEW p \in Process, LoseLease(p) PROVE TypeOK'
  <2>1. CallsOK'
    <3>1. calls' \in [Process -> SUBSET CallType]
      BY <1>28, AskCalls DEF LoseLease
    <3> QED
      BY <1>28, <3>1 DEF LoseLease, CallsOK, BeatType
  <2>2. ControlOK'
    <3>1. \A q \in Process : calls'[q] # calls[q] => proc[q] = "up"
      BY <1>28 DEF LoseLease, Ask, CallsOK, ControlOK, LoopFree
    <3> QED
      BY <1>28, <3>1 DEF LoseLease, ControlOK, TaskOK, durable
  <2>3. MessagesOK'
    <3>1. \A q \in Process : \A c \in calls'[q] : c \in calls[q] \/ c.message = 0
      BY <1>28, AskCalls DEF LoseLease
    <3> QED
      BY <1>28, <3>1, LenProperties DEF LoseLease, MessagesOK, DurableOK, durable
  <2>4. DurableOK' /\ TaskOK' /\ HistoryOK'
    BY <1>28 DEF LoseLease, durable, budgets, DurableOK, TaskOK, HistoryOK
  <2> QED
    BY <2>1, <2>2, <2>3, <2>4
<1>29. ASSUME NEW p \in Process, NEW action \in {"start", "resume"}, Launch(p, action) PROVE TypeOK'
  <2>1. DurableOK'
    BY <1>29, TransitionType DEF Launch, DurableOK
  <2>2. TaskOK'
    BY <1>29 DEF Launch, EnsureRunning, TaskOK, PcType, Busy
  <2>3. HistoryOK'
    BY <1>29, NewRowType DEF Launch, HistoryOK, budgets
  <2>4. ControlOK'
    <3>1. \A q \in Process : pc'[q] # pc[q] => proc[q] = "up" /\ pc[q] = "off" /\ pc'[q] = "boot"
      BY <1>29 DEF Launch, EnsureRunning, TaskOK, LoopFree
    <3> QED
      BY <1>29, <3>1 DEF Launch, ControlOK, TaskOK
  <2>5. CallsOK' /\ MessagesOK'
    BY <1>29 DEF Launch, durable, budgets, CallsOK, MessagesOK
  <2> QED
    BY <2>1, <2>2, <2>3, <2>4, <2>5
<1>30. ASSUME NEW p \in Process, NEW action \in {"pause", "stop"}, Halt(p, action) PROVE TypeOK'
  <2>1. DurableOK'
    BY <1>30, TransitionType DEF Halt, DurableOK
  <2>2. CallsOK'
    <3>1. calls' \in [Process -> SUBSET CallType]
      BY <1>30, AskCalls DEF Halt, StopRuntime, CallsOK
    <3> QED
      BY <1>30, <3>1 DEF Halt, CallsOK
  <2>3. HistoryOK'
    BY <1>30, NewRowType DEF Halt, HistoryOK, budgets
  <2>4. ControlOK'
    <3>1. \A q \in Process : calls'[q] # calls[q] => proc[q] = "up"
      BY <1>30 DEF Halt, StopRuntime, Ask, CallsOK, ControlOK, LoopFree
    <3> QED
      BY <1>30, <3>1 DEF Halt, ControlOK, TaskOK, durable
  <2>5. MessagesOK'
    <3>1. \A q \in Process : \A c \in calls'[q] : c \in calls[q] \/ c.message = 0
      BY <1>30, AskCalls DEF Halt, StopRuntime
    <3> QED
      BY <1>30, <3>1, LenProperties DEF Halt, MessagesOK, DurableOK
  <2>6. TaskOK'
    BY <1>30 DEF Halt, durable, budgets, TaskOK
  <2> QED
    BY <2>1, <2>2, <2>3, <2>4, <2>5, <2>6
<1>31. ASSUME NEW p \in Process, ArchiveProject(p) PROVE TypeOK'
  <2>1. DurableOK'
    <3>1. Moved(row, "STOPPED") \in RowType
      BY MovedType DEF DurableOK, Status
    <3> QED
      BY <1>31, <3>1 DEF ArchiveProject, DurableOK
  <2>2. CallsOK'
    <3>1. calls' \in [Process -> SUBSET CallType]
      BY <1>31, AskCalls DEF ArchiveProject, StopRuntime, CallsOK
    <3> QED
      BY <1>31, <3>1 DEF ArchiveProject, CallsOK
  <2>3. HistoryOK'
    BY <1>31, NewRowType DEF ArchiveProject, StopRuntime, Ask, HistoryOK, budgets
  <2>4. ControlOK'
    <3>1. \A q \in Process : calls'[q] # calls[q] => proc[q] = "up"
      BY <1>31 DEF ArchiveProject, StopRuntime, Ask, CallsOK, ControlOK, LoopFree
    <3> QED
      BY <1>31, <3>1 DEF ArchiveProject, ControlOK, TaskOK, durable
  <2>5. MessagesOK'
    <3>1. \A q \in Process : \A c \in calls'[q] : c \in calls[q] \/ c.message = 0
      BY <1>31, AskCalls DEF ArchiveProject, StopRuntime
    <3> QED
      BY <1>31, <3>1, LenProperties DEF ArchiveProject, MessagesOK, DurableOK
  <2>6. TaskOK'
    BY <1>31 DEF ArchiveProject, durable, budgets, TaskOK
  <2> QED
    BY <2>1, <2>2, <2>3, <2>4, <2>5, <2>6
<1>32. ASSUME NEW p \in Process, Steer(p) PROVE TypeOK'
  <2>1. DurableOK'
    <3>1. inbox' \in Seq({"PENDING", "ACKNOWLEDGED"})
      BY <1>32, StoreType DEF Steer, DurableOK
    <3> QED
      BY <1>32, <3>1 DEF Steer, DurableOK
  <2>2. CallsOK'
    <3>1. Len(inbox) + 1 \in Nat
      BY <1>32, StoreType DEF Steer, DurableOK
    <3>2. calls' \in [Process -> SUBSET CallType]
      BY <1>32, <3>1, AskCalls DEF Steer, CallsOK
    <3> QED
      BY <1>32, <3>2 DEF Steer, CallsOK
  <2>3. ControlOK'
    <3>1. \A q \in Process : calls'[q] # calls[q] => proc[q] = "up"
      BY <1>32 DEF Steer, Ask, CallsOK, ControlOK, LoopFree
    <3> QED
      BY <1>32, <3>1 DEF Steer, ControlOK, TaskOK, durable
  <2>4. MessagesOK'
    <3>1. Len(inbox) \in Nat /\ Len(inbox') = Len(inbox) + 1
      BY <1>32, StoreType DEF Steer, DurableOK
    <3>2. \A q \in Process : \A c \in calls'[q] : c \in calls[q] \/ c.message = Len(inbox) + 1
      BY <1>32, <3>1, AskCalls DEF Steer
    <3>3. \A q \in Process : \A c \in calls[q] : c.message \in Nat
      BY DEF CallsOK, CallType
    <3> QED
      BY <1>32, <3>1, <3>2, <3>3 DEF Steer, MessagesOK
  <2>5. TaskOK' /\ HistoryOK'
    BY <1>32 DEF Steer, durable, budgets, TaskOK, HistoryOK
  <2> QED
    BY <2>1, <2>2, <2>3, <2>4, <2>5
<1>33. ASSUME NEW p \in Process, Interrupt(p) PROVE TypeOK'
  <2>1. DurableOK'
    <3>1. inbox' \in Seq({"PENDING", "ACKNOWLEDGED"})
      BY <1>33, StoreType DEF Interrupt, DurableOK
    <3> QED
      BY <1>33, <3>1, PauseType DEF Interrupt, DurableOK
  <2>2. CallsOK'
    <3>1. Len(inbox) + 1 \in Nat
      BY <1>33, StoreType DEF Interrupt, DurableOK
    <3>2. calls' \in [Process -> SUBSET CallType]
      BY <1>33, <3>1, AskCalls DEF Interrupt, CallsOK
    <3> QED
      BY <1>33, <3>2 DEF Interrupt, CallsOK
  <2>3. HistoryOK'
    BY <1>33, NewRowType DEF Interrupt, Ask, HistoryOK, budgets
  <2>4. ControlOK'
    <3>1. \A q \in Process : calls'[q] # calls[q] => proc[q] = "up"
      BY <1>33 DEF Interrupt, Ask, CallsOK, ControlOK, LoopFree
    <3> QED
      BY <1>33, <3>1 DEF Interrupt, ControlOK, TaskOK, durable
  <2>5. MessagesOK'
    <3>1. Len(inbox) \in Nat /\ Len(inbox') = Len(inbox) + 1
      BY <1>33, StoreType DEF Interrupt, DurableOK
    <3>2. \A q \in Process : \A c \in calls'[q] : c \in calls[q] \/ c.message = Len(inbox) + 1
      BY <1>33, <3>1, AskCalls DEF Interrupt
    <3>3. \A q \in Process : \A c \in calls[q] : c.message \in Nat
      BY DEF CallsOK, CallType
    <3> QED
      BY <1>33, <3>1, <3>2, <3>3 DEF Interrupt, MessagesOK
  <2>6. TaskOK'
    BY <1>33 DEF Interrupt, durable, budgets, TaskOK
  <2> QED
    BY <2>1, <2>2, <2>3, <2>4, <2>5, <2>6
<1>34. ASSUME NEW p \in Process, ChangeResource(p) PROVE TypeOK'
  <2>1. DurableOK'
    <3>1. inbox' \in Seq({"PENDING", "ACKNOWLEDGED"})
      BY <1>34, StoreType DEF ChangeResource, SetResource, DurableOK
    <3> QED
      BY <1>34, <3>1 DEF ChangeResource, SetResource, DurableOK
  <2>2. TaskOK'
    BY <1>34, NewRowType DEF ChangeResource, SetResource, Ask, RunIfActive, EnsureRunning, TaskOK, ProcType, PcType, SessionType, Busy
  <2>3. CallsOK'
    <3>1. Len(inbox) + 1 \in Nat
      BY <1>34, StoreType DEF ChangeResource, SetResource, DurableOK
    <3>2. calls' \in [Process -> SUBSET CallType]
      BY <1>34, <3>1, AskCalls DEF ChangeResource, SetResource, CallsOK
    <3> QED
      BY <1>34, <3>2 DEF ChangeResource, SetResource, CallsOK
  <2>4. ControlOK'
    <3>1. \A q \in Process : pc'[q] # pc[q] \/ calls'[q] # calls[q] => proc[q] = "up"
      BY <1>34 DEF ChangeResource, SetResource, RunIfActive, EnsureRunning, TaskOK, CallsOK, Ask, LoopFree
    <3>2. \A q \in Process : pc'[q] # pc[q] => pc[q] = "off" /\ pc'[q] = "boot"
      BY <1>34 DEF ChangeResource, SetResource, RunIfActive, EnsureRunning, TaskOK
    <3> QED
      BY <1>34, <3>1, <3>2 DEF ChangeResource, SetResource, ControlOK, TaskOK
  <2>5. MessagesOK'
    <3>1. Len(inbox) \in Nat /\ Len(inbox') = Len(inbox) + 1
      BY <1>34, StoreType DEF ChangeResource, SetResource, DurableOK
    <3>2. \A q \in Process : \A c \in calls'[q] : c \in calls[q] \/ c.message = Len(inbox) + 1
      BY <1>34, <3>1, AskCalls DEF ChangeResource, SetResource
    <3>3. \A q \in Process : \A c \in calls[q] : c.message \in Nat
      BY DEF CallsOK, CallType
    <3> QED
      BY <1>34, <3>1, <3>2, <3>3 DEF ChangeResource, SetResource, MessagesOK
  <2>6. HistoryOK'
    BY <1>34 DEF ChangeResource, SetResource, durable, budgets, HistoryOK
  <2> QED
    BY <2>1, <2>2, <2>3, <2>4, <2>5, <2>6
<1>35. ASSUME WakeDue PROVE TypeOK'
  BY <1>35 DEF WakeDue, local, durable, budgets, DurableOK, RowType, TaskOK, CallsOK, HistoryOK, ControlOK, MessagesOK
<1>36. ASSUME LeaseExpires PROVE TypeOK'
  BY <1>36 DEF LeaseExpires, local, durable, budgets, DurableOK, TaskOK, CallsOK, HistoryOK, ControlOK, MessagesOK
<1>37. ASSUME UNCHANGED vars PROVE TypeOK'
  BY <1>37 DEF vars, local, durable, budgets, DurableOK, TaskOK, CallsOK, HistoryOK, ControlOK, MessagesOK
<1> QED
  BY <1>1, <1>2, <1>3, <1>4, <1>5, <1>6, <1>7, <1>8, <1>9, <1>10, <1>11, <1>12, <1>13, <1>14, <1>15, <1>16, <1>17, <1>18, <1>19, <1>20, <1>21, <1>22, <1>23, <1>24, <1>25, <1>26, <1>27, <1>28, <1>29, <1>30, <1>31, <1>32, <1>33, <1>34, <1>35, <1>36, <1>37 DEF Next, TaskStep, ProviderStep, CallStep, HeartbeatStep, HumanStep

\* Every variable keeps its type in every reachable state, whatever the set of
\* processes and the bounds.
THEOREM TypeCorrect == Spec => []TypeOK
<1>1. Init => TypeOK
  BY InitTypeOK
<1>2. TypeOK /\ [Next]_vars => TypeOK'
  BY NextTypeOK
<1> QED
  BY <1>1, <1>2, PTL DEF Spec

-----------------------------------------------------------------------------
(* The lifecycle *)

\* A process that read the row before its compare-and-swap read a version that
\* the row has had: the same version means the same status and cursor.
SeenIsPast ==
  \A p \in Process :
    /\ seen[p].version <= row.version
    /\ seen[p].version = row.version
         => seen[p].status = row.status /\ seen[p].cursor = row.cursor

\* The first version of a row is the new one.
FirstVersion ==
  row.version >= 1 /\ (row.version = 1 => row.status = "CREATED" /\ row.cursor = 0)

\* An archived project is stopped.
ArchivedIsStopped == archived => row.status = "STOPPED"

\* A retry or a failure is written over a row that was read active.
FailureReadActive ==
  \A p \in Process : pc[p] \in {"reschedule", "giveup"} => seen[p].status \in Active

LifecycleInv == TypeOK /\ SeenIsPast /\ FirstVersion /\ ArchivedIsStopped /\ FailureReadActive

\* What one step can do to the row and to the archive mark.
Wakes == row' = [row EXCEPT !.wake = "due"] /\ archived' = archived

PersonMoves ==
  /\ ~archived /\ archived' = archived
  /\ commands' = commands + 1
  /\ \E action \in {"start", "resume", "pause", "stop"}, s \in Status :
       <<action, row.status, s>> \in PROJECT_TRANSITIONS /\ row' = Moved(row, s)

InterruptPauses ==
  archived' = archived /\ row.status \in Active /\ row' = Moved(row, "PAUSED")

Archives ==
  ~archived /\ row.status \notin Active /\ row' = Moved(row, "STOPPED") /\ archived' = TRUE

RuntimeWrites ==
  /\ archived' = archived
  /\ row' \in RowType
  /\ row'.version = row.version + 1 /\ row'.cursor >= row.cursor
  /\ \/ row'.status = row.status
     \/ row.status \in Active /\ row'.status \in Active \cup {"COMPLETE", "FAILED"}

RowEffect ==
  \/ row' = row /\ archived' = archived
  \/ Wakes \/ PersonMoves \/ InterruptPauses \/ Archives \/ RuntimeWrites

\* change_project_state keeps the cursor and raises the version.
LEMMA MovedFields ==
  ASSUME NEW r \in RowType, NEW s \in Status
  PROVE  /\ Moved(r, s).status = s
         /\ Moved(r, s).version = r.version + 1
         /\ Moved(r, s).cursor = r.cursor
  BY DEF Moved, Checkpointed

\* Whichever way a step touches the row: what it keeps and what it raises.
LEMMA RowEffectFields ==
  ASSUME row \in RowType, archived \in BOOLEAN, RowEffect
  PROVE  \/ /\ row' = row /\ archived' = archived
         \/ Wakes
         \/ /\ row'.version = row.version + 1 /\ row'.cursor >= row.cursor
            /\ \/ /\ ~archived /\ archived' = archived /\ commands' = commands + 1
                  /\ \E action \in {"start", "resume", "pause", "stop"} :
                       <<action, row.status, row'.status>> \in PROJECT_TRANSITIONS
               \/ archived' = archived /\ row.status \in Active /\ row'.status = "PAUSED"
               \/ archived' = TRUE /\ ~archived /\ row.status \notin Active /\ row'.status = "STOPPED"
               \/ archived' = archived /\ row'.status = row.status
               \/ /\ archived' = archived /\ row.status \in Active
                  /\ row'.status \in Active \cup {"COMPLETE", "FAILED"}
<1>0. row.version \in Nat /\ row.cursor \in Nat /\ "PAUSED" \in Status /\ "STOPPED" \in Status
  BY DEF RowType, Status
<1>1. CASE PersonMoves
  BY <1>0, <1>1, MovedFields DEF PersonMoves
<1>2. CASE InterruptPauses
  BY <1>0, <1>2, MovedFields DEF InterruptPauses
<1>3. CASE Archives
  <2>1. row' = Moved(row, "STOPPED") /\ ~archived /\ row.status \notin Active
    BY <1>3 DEF Archives
  <2>2. /\ row'.status = "STOPPED"
        /\ row'.version = row.version + 1 /\ row'.cursor = row.cursor
    BY <1>0, <2>1, MovedFields
  <2>3. row'.cursor >= row.cursor
    BY <1>0, <2>2
  <2>4. archived' = TRUE
    BY <1>3 DEF Archives
  <2> QED
    BY <2>1, <2>2, <2>3, <2>4
<1>4. CASE RuntimeWrites
  BY <1>4 DEF RuntimeWrites
<1> QED
  BY <1>1, <1>2, <1>3, <1>4 DEF RowEffect

LEMMA StepRowEffect == LifecycleInv /\ [Next]_vars => RowEffect
<1> SUFFICES ASSUME LifecycleInv, [Next]_vars PROVE RowEffect
  OBVIOUS
<1>1. ASSUME NEW p \in Process, CommitTurn(p) PROVE RowEffect
  <2>1. CASE SwapSucceeds(p)
    <3> DEFINE step == IF seen[p].status \in Active THEN "plan" ELSE seen[p].step
    <3>1. pc[p] = "commit" /\ seen[p].version = row.version
      BY <1>1, <2>1 DEF CommitTurn, SwapSucceeds
    <3>2. seen[p].status = row.status /\ seen[p].cursor = row.cursor
      BY <3>1 DEF LifecycleInv, SeenIsPast
    <3>3. row' = [Checkpointed(seen[p], CheckpointStatus(p), CheckpointCursor(p), "none", step)
                   EXCEPT !.thread = "kept"]
      BY <1>1, <2>1 DEF CommitTurn
    <3>4. CheckpointStatus(p) \in Status /\ CheckpointCursor(p) \in Nat
          /\ CheckpointCursor(p) >= seen[p].cursor
      BY <3>1, CheckpointValues DEF LifecycleInv
    <3>5. seen[p] \in RowType /\ step \in {"plan", "retry", "repair"}
      BY SeenRow DEF LifecycleInv, TypeOK
    <3> HIDE DEF step
    <3>6. row' \in RowType
      BY <3>3, <3>4, <3>5, CheckpointedType
    <3>7. /\ row'.version = row.version + 1 /\ row'.cursor >= row.cursor
          /\ row'.status = CheckpointStatus(p)
      BY <3>1, <3>2, <3>3, <3>4 DEF Checkpointed
    <3>8. \/ CheckpointStatus(p) = row.status
          \/ row.status \in Active /\ CheckpointStatus(p) \in Active \cup {"COMPLETE"}
      BY <3>1, <3>2 DEF CheckpointStatus, LifecycleInv, TypeOK, ControlOK, Decision, Active
    <3> QED
      BY <1>1, <3>6, <3>7, <3>8 DEF CommitTurn, RowEffect, RuntimeWrites
  <2>2. CASE ~SwapSucceeds(p)
    BY <1>1, <2>2 DEF CommitTurn, RowEffect
  <2> QED
    BY <2>1, <2>2
<1>2. ASSUME NEW p \in Process, BindContinuation(p) PROVE RowEffect
  <2>1. CASE SwapSucceeds(p)
    <3> DEFINE r == Checkpointed(seen[p], seen[p].status, seen[p].cursor, "none", seen[p].step)
    <3>1. seen[p].version = row.version
      BY <2>1 DEF SwapSucceeds
    <3>2. seen[p].status = row.status /\ seen[p].cursor = row.cursor
      BY <3>1 DEF LifecycleInv, SeenIsPast
    <3>3. row' = [r EXCEPT !.thread = "kept"]
      BY <1>2, <2>1 DEF BindContinuation
    <3>4. seen[p] \in RowType /\ seen[p].status \in Status /\ seen[p].cursor \in Nat
          /\ seen[p].step \in {"plan", "retry", "repair"}
      BY SeenRow DEF LifecycleInv, TypeOK, RowType
    <3>5. /\ r.version = row.version + 1 /\ r.cursor = row.cursor /\ r.status = row.status
          /\ r \in RowType
      BY <3>1, <3>2, <3>4, CheckpointedType DEF Checkpointed
    <3> HIDE DEF r
    <3>6. /\ row'.version = row.version + 1 /\ row'.cursor = row.cursor
          /\ row'.status = row.status /\ row' \in RowType
      BY <3>3, <3>5 DEF RowType
    <3>7. row'.cursor >= row.cursor
      BY <3>2, <3>4, <3>6
    <3>8. archived' = archived
      BY <1>2 DEF BindContinuation
    <3> QED
      BY <3>6, <3>7, <3>8 DEF RowEffect, RuntimeWrites
  <2>2. CASE ~SwapSucceeds(p)
    BY <1>2, <2>2 DEF BindContinuation, RowEffect
  <2> QED
    BY <2>1, <2>2
<1>3. ASSUME NEW p \in Process, ScheduleRetry(p) PROVE RowEffect
  <2>1. CASE SwapSucceeds(p)
    <3>1. seen[p].version = row.version
      BY <2>1 DEF SwapSucceeds
    <3>2. seen[p].status = row.status /\ seen[p].cursor = row.cursor /\ row.status \in Active
      BY <1>3, <3>1 DEF ScheduleRetry, LifecycleInv, SeenIsPast, FailureReadActive
    <3>3. "WAITING" \in Status
      BY DEF Status, Active
    <3>4. row' = Checkpointed(seen[p], "WAITING", seen[p].cursor, "future", "retry")
      BY <1>3, <2>1 DEF ScheduleRetry
    <3>6. seen[p] \in RowType /\ seen[p].cursor \in Nat
      BY SeenRow DEF LifecycleInv, TypeOK, RowType
    <3>7. row' \in RowType
      BY <3>3, <3>4, <3>6, CheckpointedType
    <3>5. row'.version = row.version + 1 /\ row'.cursor >= row.cursor /\ row'.status = "WAITING"
      BY <3>1, <3>2, <3>4, <3>6 DEF Checkpointed
    <3> QED
      BY <1>3, <3>2, <3>7, <3>5 DEF ScheduleRetry, RowEffect, RuntimeWrites, Active
  <2>2. CASE ~SwapSucceeds(p)
    BY <1>3, <2>2 DEF ScheduleRetry, RowEffect
  <2> QED
    BY <2>1, <2>2
<1>4. ASSUME NEW p \in Process, GiveUp(p) PROVE RowEffect
  <2>1. CASE SwapSucceeds(p)
    <3>1. seen[p].version = row.version
      BY <2>1 DEF SwapSucceeds
    <3>2. seen[p].status = row.status /\ seen[p].cursor = row.cursor /\ row.status \in Active
      BY <1>4, <3>1 DEF GiveUp, LifecycleInv, SeenIsPast, FailureReadActive
    <3>3. "FAILED" \in Status
      BY DEF Status, Active
    <3>4. row' = Checkpointed(seen[p], "FAILED", seen[p].cursor, "none", "repair")
      BY <1>4, <2>1 DEF GiveUp
    <3>6. seen[p] \in RowType /\ seen[p].cursor \in Nat
      BY SeenRow DEF LifecycleInv, TypeOK, RowType
    <3>7. row' \in RowType
      BY <3>3, <3>4, <3>6, CheckpointedType
    <3>5. row'.version = row.version + 1 /\ row'.cursor >= row.cursor /\ row'.status = "FAILED"
      BY <3>1, <3>2, <3>4, <3>6 DEF Checkpointed
    <3> QED
      BY <1>4, <3>2, <3>7, <3>5 DEF GiveUp, RowEffect, RuntimeWrites, Active
  <2>2. CASE ~SwapSucceeds(p)
    BY <1>4, <2>2 DEF GiveUp, RowEffect
  <2> QED
    BY <2>1, <2>2
<1>5. ASSUME NEW p \in Process, NEW action \in {"start", "resume"}, Launch(p, action) PROVE RowEffect
  BY <1>5 DEF Launch, Transition, RowEffect, PersonMoves
<1>6. ASSUME NEW p \in Process, NEW action \in {"pause", "stop"}, Halt(p, action) PROVE RowEffect
  BY <1>6 DEF Halt, Transition, RowEffect, PersonMoves
<1>7. ASSUME NEW p \in Process, ArchiveProject(p) PROVE RowEffect
  BY <1>7 DEF ArchiveProject, RowEffect, Archives
<1>8. ASSUME NEW p \in Process, Interrupt(p) PROVE RowEffect
  BY <1>8 DEF Interrupt, PauseIfActive, RowEffect, InterruptPauses
<1>9. ASSUME NEW p \in Process, InterruptReturns(p) PROVE RowEffect
  BY <1>9 DEF InterruptReturns, PauseIfActive, RowEffect, InterruptPauses
<1>10. ASSUME WakeDue PROVE RowEffect
  BY <1>10 DEF WakeDue, RowEffect, Wakes
<1>11. ASSUME UNCHANGED <<row, archived>> PROVE RowEffect
  BY <1>11 DEF RowEffect
<1>12. ASSUME NEW p \in Process,
         \/ Start(p) \/ Crash(p) \/ EnterLoop(p) \/ LeaveLoop(p) \/ BeginTurn(p)
         \/ ClaimCoordinator(p) \/ SnapshotTurn(p) \/ CollectFailure(p) \/ DiscardDecision(p) \/ CollectDecision(p)
         \/ FinishCommitted(p) \/ UnwindTurn(p) \/ HandleFailure(p) \/ ReadForBinding(p) \/ ProviderEnds(p)
         \/ AnswerSteer(p) \/ AnswerInterrupt(p) \/ SteerReturns(p) \/ StopReturns(p) \/ RefreshReturns(p)
         \/ SendBeat(p) \/ LandBeat(p) \/ LoseLease(p) \/ Steer(p) \/ ChangeResource(p)
       PROVE UNCHANGED <<row, archived>>
  BY <1>12 DEF Start, Crash, EnterLoop, LeaveLoop, BeginTurn, ClaimCoordinator, SnapshotTurn, Environment,
         CollectFailure, DiscardDecision, CollectDecision, FinishCommitted, UnwindTurn,
         HandleFailure, ReadForBinding, ProviderEnds, AnswerSteer, AnswerInterrupt,
         SteerReturns, StopReturns, RefreshReturns, SendBeat, LandBeat, LoseLease, Steer,
         ChangeResource, SetResource, durable
<1>13. ASSUME LeaseExpires \/ UNCHANGED vars PROVE UNCHANGED <<row, archived>>
  BY <1>13 DEF LeaseExpires, vars, durable
<1> QED
  BY <1>1, <1>2, <1>3, <1>4, <1>5, <1>6, <1>7, <1>8, <1>9, <1>10, <1>11, <1>12, <1>13
     DEF Next, TaskStep, ProviderStep, CallStep, HeartbeatStep, HumanStep

\* A process reads the row without writing it, or forgets what it read.
LEMMA StepSeen ==
  ASSUME TypeOK, [Next]_vars, NEW q \in Process
  PROVE  \/ seen'[q] = seen[q] \/ seen'[q] = NewRow
         \/ seen'[q] = row /\ row' = row
<1> DEFINE Goal == \/ seen'[q] = seen[q] \/ seen'[q] = NewRow
                   \/ seen'[q] = row /\ row' = row
<1>1. ASSUME NEW p \in Process, ReadForBinding(p) \/ CollectDecision(p) \/ HandleFailure(p) \/ Crash(p) \/ BindContinuation(p) \/ CommitTurn(p) \/ ScheduleRetry(p) \/ GiveUp(p) PROVE Goal
  BY <1>1 DEF ReadForBinding, CollectDecision, HandleFailure, Crash, BindContinuation, CommitTurn,
         ScheduleRetry, GiveUp, TypeOK, TaskOK, durable
<1>2. ASSUME NEW p \in Process,
         \/ Start(p) \/ EnterLoop(p) \/ LeaveLoop(p) \/ BeginTurn(p) \/ ClaimCoordinator(p)
         \/ SnapshotTurn(p) \/ CollectFailure(p) \/ DiscardDecision(p) \/ FinishCommitted(p) \/ UnwindTurn(p)
         \/ ProviderEnds(p) \/ AnswerSteer(p) \/ AnswerInterrupt(p) \/ SteerReturns(p) \/ InterruptReturns(p)
         \/ StopReturns(p) \/ RefreshReturns(p) \/ SendBeat(p) \/ LandBeat(p) \/ LoseLease(p)
         \/ ArchiveProject(p) \/ Steer(p) \/ Interrupt(p) \/ ChangeResource(p)
       PROVE seen' = seen
  BY <1>2 DEF Start, EnterLoop, LeaveLoop, BeginTurn, ClaimCoordinator, SnapshotTurn, Environment,
         CollectFailure, DiscardDecision, FinishCommitted, UnwindTurn, ProviderEnds,
         AnswerSteer, AnswerInterrupt, SteerReturns, InterruptReturns, StopReturns,
         RefreshReturns, SendBeat, LandBeat, LoseLease, ArchiveProject, Steer, Interrupt,
         ChangeResource, SetResource
<1>3. ASSUME NEW p \in Process, NEW action, Launch(p, action) \/ Halt(p, action) PROVE seen' = seen
  BY <1>3 DEF Launch, Halt
<1>4. ASSUME WakeDue \/ LeaseExpires \/ UNCHANGED vars PROVE seen' = seen
  BY <1>4 DEF WakeDue, LeaseExpires, vars, local
<1> HIDE DEF Goal
<1>5. seen' = seen => Goal
  BY DEF Goal
<1>6. Goal
  BY <1>1, <1>2, <1>3, <1>4, <1>5
     DEF Next, TaskStep, ProviderStep, CallStep, HeartbeatStep, HumanStep
<1> QED
  BY <1>6 DEF Goal

\* Only _run_project's failure handler starts a retry or a failure checkpoint,
\* and nothing is read over what it read.
LEMMA StepFailureRead ==
  ASSUME LifecycleInv, [Next]_vars
  PROVE  FailureReadActive'
<1> USE DEF LifecycleInv
<1>1. ASSUME NEW p \in Process, HandleFailure(p) PROVE FailureReadActive'
  BY <1>1 DEF HandleFailure, FailureReadActive, TypeOK, TaskOK
<1>2. ASSUME NEW p \in Process, ReadForBinding(p) PROVE FailureReadActive'
  BY <1>2 DEF ReadForBinding, FailureReadActive, TypeOK, TaskOK, LoopFree, Busy, ControlOK
<1>3. ASSUME NEW p \in Process, CollectDecision(p) PROVE FailureReadActive'
  BY <1>3 DEF CollectDecision, FailureReadActive, TypeOK, TaskOK
<1>4. ASSUME NEW p \in Process, Crash(p) PROVE FailureReadActive'
  BY <1>4 DEF Crash, FailureReadActive, TypeOK, TaskOK
<1>5. ASSUME NEW p \in Process, BindContinuation(p) PROVE FailureReadActive'
  BY <1>5 DEF BindContinuation, FailureReadActive, TypeOK, TaskOK, ControlOK
<1>6. ASSUME NEW p \in Process, CommitTurn(p) PROVE FailureReadActive'
  BY <1>6 DEF CommitTurn, FailureReadActive, TypeOK, TaskOK
<1>7. ASSUME NEW p \in Process, ScheduleRetry(p) PROVE FailureReadActive'
  BY <1>7 DEF ScheduleRetry, FailureReadActive, TypeOK, TaskOK
<1>8. ASSUME NEW p \in Process, GiveUp(p) PROVE FailureReadActive'
  BY <1>8 DEF GiveUp, FailureReadActive, TypeOK, TaskOK
<1>9. ASSUME NEW p \in Process,
         \/ Start(p) \/ EnterLoop(p) \/ LeaveLoop(p) \/ BeginTurn(p) \/ ClaimCoordinator(p)
         \/ SnapshotTurn(p) \/ CollectFailure(p) \/ DiscardDecision(p) \/ FinishCommitted(p) \/ UnwindTurn(p)
         \/ ProviderEnds(p) \/ AnswerSteer(p) \/ AnswerInterrupt(p) \/ SteerReturns(p) \/ InterruptReturns(p)
         \/ StopReturns(p) \/ RefreshReturns(p) \/ SendBeat(p) \/ LandBeat(p) \/ LoseLease(p)
         \/ ArchiveProject(p) \/ Steer(p) \/ Interrupt(p) \/ ChangeResource(p)
       PROVE /\ seen' = seen
             /\ \A q \in Process : pc'[q] \in {"reschedule", "giveup"} => pc'[q] = pc[q]
  BY <1>9 DEF Start, EnterLoop, LeaveLoop, BeginTurn, ClaimCoordinator, SnapshotTurn, Environment,
         CollectFailure, DiscardDecision, FinishCommitted, UnwindTurn, ProviderEnds,
         AnswerSteer, AnswerInterrupt, SteerReturns, InterruptReturns, StopReturns,
         RefreshReturns, SendBeat, LandBeat, LoseLease, ArchiveProject, Steer, Interrupt,
         ChangeResource, SetResource, RunIfActive, EnsureRunning, TypeOK, TaskOK
<1>10. ASSUME NEW p \in Process, NEW action, Launch(p, action) \/ Halt(p, action)
       PROVE /\ seen' = seen
             /\ \A q \in Process : pc'[q] \in {"reschedule", "giveup"} => pc'[q] = pc[q]
  BY <1>10 DEF Launch, Halt, EnsureRunning, TypeOK, TaskOK
<1>11. ASSUME WakeDue \/ LeaseExpires \/ UNCHANGED vars
       PROVE seen' = seen /\ pc' = pc
  BY <1>11 DEF WakeDue, LeaseExpires, vars, local
<1>12. ASSUME seen' = seen, \A q \in Process : pc'[q] \in {"reschedule", "giveup"} => pc'[q] = pc[q]
       PROVE FailureReadActive'
  BY <1>12 DEF FailureReadActive
<1> QED
  BY <1>1, <1>2, <1>3, <1>4, <1>5, <1>6, <1>7, <1>8, <1>9, <1>10, <1>11, <1>12
     DEF Next, TaskStep, ProviderStep, CallStep, HeartbeatStep, HumanStep

LEMMA LifecycleInvariant == Spec => []LifecycleInv
<1>1. Init => LifecycleInv
  BY InitTypeOK DEF Init, LifecycleInv, SeenIsPast, FirstVersion, ArchivedIsStopped, FailureReadActive, NewRow
<1>2. LifecycleInv /\ [Next]_vars => LifecycleInv'
  <2> SUFFICES ASSUME LifecycleInv, [Next]_vars PROVE LifecycleInv'
    OBVIOUS
  <2>1. TypeOK'
    BY NextTypeOK DEF LifecycleInv
  <2>2. RowEffect
    BY StepRowEffect
  <2>3. row \in RowType /\ row.version \in Nat /\ row.status \in Status /\ row.cursor \in Nat
    BY DEF LifecycleInv, TypeOK, DurableOK, RowType
  <2>4. \/ row'.version = row.version /\ row'.status = row.status /\ row'.cursor = row.cursor
        \/ row'.version = row.version + 1
    BY <2>2, <2>3, RowEffectFields DEF Wakes, RowType, LifecycleInv, TypeOK, DurableOK
  <2>5. FirstVersion'
    BY <2>3, <2>4 DEF LifecycleInv, FirstVersion
  <2>6. SeenIsPast'
    <3> SUFFICES ASSUME NEW q \in Process
                 PROVE  /\ seen'[q].version <= row'.version
                        /\ seen'[q].version = row'.version
                             => seen'[q].status = row'.status /\ seen'[q].cursor = row'.cursor
      BY DEF SeenIsPast
    <3>1. /\ seen[q].version <= row.version
          /\ seen[q].version \in Nat
          /\ seen[q].version = row.version
               => seen[q].status = row.status /\ seen[q].cursor = row.cursor
      BY SeenRow DEF LifecycleInv, SeenIsPast, TypeOK
    <3>2. CASE seen'[q] = seen[q]
      BY <2>3, <2>4, <3>1, <3>2
    <3>3. CASE seen'[q] = NewRow
      BY <2>3, <2>4, <2>5, <3>3 DEF NewRow, FirstVersion
    <3>4. CASE seen'[q] = row /\ row' = row
      BY <2>3, <3>4
    <3> QED
      BY <3>2, <3>3, <3>4, StepSeen DEF LifecycleInv
  <2>7. ArchivedIsStopped'
    <3>1. archived \in BOOLEAN /\ (archived => row.status = "STOPPED")
      BY DEF LifecycleInv, TypeOK, DurableOK, ArchivedIsStopped
    <3>2. CASE Wakes
      BY <2>3, <3>1, <3>2 DEF Wakes, RowType, ArchivedIsStopped
    <3> QED
      BY <2>2, <2>3, <3>1, <3>2, RowEffectFields DEF ArchivedIsStopped, Active
  <2>8. FailureReadActive'
    BY StepFailureRead
  <2> QED
    BY <2>1, <2>5, <2>6, <2>7, <2>8 DEF LifecycleInv
<1> QED
  BY <1>1, <1>2, PTL DEF Spec

\* The supervisor, with every interleaving of processes, people, providers and
\* crashes, implements the lifecycle that change_project_state promises.
THEOREM ImplementsLifecycle == Spec => LifecycleContract
<1>1. Init => Lifecycle!LifecycleInit
  BY DEF Init, NewRow, Lifecycle!LifecycleInit
<1>2. LifecycleInv /\ [Next]_vars => [Lifecycle!LifecycleNext]_(Lifecycle!lifecycleVars)
  <2> SUFFICES ASSUME LifecycleInv, [Next]_vars
               PROVE  Lifecycle!LifecycleNext \/ UNCHANGED <<row.status, archived>>
    BY DEF Lifecycle!lifecycleVars
  <2> USE DEF Lifecycle!LifecycleNext, Lifecycle!ManagedStatus
  <2>0. RowEffect /\ row \in RowType /\ archived \in BOOLEAN
    BY StepRowEffect DEF LifecycleInv, TypeOK, DurableOK
  <2>1. CASE row' = row /\ archived' = archived
    BY <2>1
  <2>2. CASE Wakes
    BY <2>0, <2>2 DEF Wakes, RowType
  <2>3. CASE PersonMoves
    <3>1. \E s \in Status : row'.status = s /\ \E action \in {"start", "resume", "pause", "stop"} :
                              <<action, row.status, s>> \in PROJECT_TRANSITIONS
      BY <2>3 DEF PersonMoves, Moved, Checkpointed
    <3> QED
      BY <2>3, <3>1 DEF PersonMoves, PROJECT_TRANSITIONS, Lifecycle!Command, Lifecycle!Start, Lifecycle!Pause,
         Lifecycle!Resume, Lifecycle!Stop
  <2>4. CASE InterruptPauses
    BY <2>0, <2>4 DEF InterruptPauses, Moved, Checkpointed, Active, LifecycleInv, ArchivedIsStopped, Lifecycle!Command,
       Lifecycle!Pause
  <2>5. CASE Archives
    BY <2>5 DEF Archives, Moved, Checkpointed, Active, Lifecycle!Archive
  <2>6. CASE RuntimeWrites
    BY <2>0, <2>6 DEF RuntimeWrites, Active, LifecycleInv, ArchivedIsStopped, Lifecycle!Checkpoint
  <2> QED
    BY <2>0, <2>1, <2>2, <2>3, <2>4, <2>5, <2>6 DEF RowEffect
<1> QED
  BY <1>1, <1>2, LifecycleInvariant, PTL DEF Spec, LifecycleContract, Lifecycle!LifecycleSpec

\* Only a start or resume command sets a project running.
THEOREM PeopleDecide == Spec => OnlyPeopleResume
<1>1. LifecycleInv /\ [Next]_vars
        => [row.status \notin Active /\ row'.status \in Active => commands' = commands + 1]_vars
  <2> SUFFICES ASSUME LifecycleInv, [Next]_vars, row.status \notin Active, row'.status \in Active
               PROVE  commands' = commands + 1
    OBVIOUS
  <2>1. RowEffect /\ row \in RowType
    BY StepRowEffect DEF LifecycleInv, TypeOK, DurableOK
  <2> QED
    BY <2>1 DEF RowEffect, Wakes, PersonMoves, InterruptPauses, Archives, RuntimeWrites, Moved, Checkpointed, RowType, Active
<1> QED
  BY <1>1, LifecycleInvariant, PTL DEF Spec, OnlyPeopleResume

\* Versions rise with every write and the guidance cursor never goes back.
THEOREM CheckpointsAdvance == Spec => CheckpointsOnlyAdvance
<1>1. LifecycleInv /\ [Next]_vars
        => [/\ row'.cursor >= row.cursor
            /\ row'.version > row.version \/ row' = [row EXCEPT !.wake = row'.wake]]_vars
  <2> SUFFICES ASSUME LifecycleInv, [Next]_vars
               PROVE  /\ row'.cursor >= row.cursor
                      /\ row'.version > row.version \/ row' = [row EXCEPT !.wake = row'.wake]
    OBVIOUS
  <2>1. RowEffect /\ row \in RowType /\ row.cursor \in Nat /\ row.version \in Nat
    BY StepRowEffect DEF LifecycleInv, TypeOK, DurableOK, RowType
  <2>2. CASE row' = row
    BY <2>1, <2>2 DEF RowType
  <2>3. CASE Wakes
    BY <2>1, <2>3 DEF Wakes, RowType
  <2>4. archived \in BOOLEAN
    BY DEF LifecycleInv, TypeOK, DurableOK
  <2>5. \/ row' = row /\ archived' = archived
        \/ Wakes
        \/ row'.version = row.version + 1 /\ row'.cursor >= row.cursor
    BY <2>1, <2>4, RowEffectFields
  <2> QED
    BY <2>1, <2>2, <2>3, <2>5
<1> QED
  BY <1>1, LifecycleInvariant, PTL DEF Spec, CheckpointsOnlyAdvance

-----------------------------------------------------------------------------
(* Mutual exclusion of turns *)

\* Between claiming and releasing, a process holds a lease that has not lapsed,
\* as long as no heartbeat was late.
TurnHoldsLease ==
  stalls = 0 => \A p \in Process : InTurn(p) => lease.owner = p /\ lease.state = "held"

LeaseInv == TypeOK /\ TurnHoldsLease

LEMMA LeaseInvariant == Spec => []LeaseInv
<1>1. Init => LeaseInv
  BY InitTypeOK DEF Init, LeaseInv, TurnHoldsLease, InTurn
<1>2. LeaseInv /\ [Next]_vars => LeaseInv'
  <2> SUFFICES ASSUME LeaseInv, [Next]_vars PROVE TurnHoldsLease'
    BY NextTypeOK DEF LeaseInv
  <2> USE DEF LeaseInv, TurnHoldsLease, InTurn
  <2>1. ASSUME NEW p \in Process, ClaimCoordinator(p) PROVE TurnHoldsLease'
    BY <2>1, ConstantsOK DEF ClaimCoordinator, LeaseAvailable, TypeOK, TaskOK, budgets
  <2>2. ASSUME NEW p \in Process, UnwindTurn(p) PROVE TurnHoldsLease'
    BY <2>2, ConstantsOK DEF UnwindTurn, ReleaseLease, TypeOK, TaskOK, budgets
  <2>3. ASSUME NEW p \in Process, LandBeat(p) PROVE TurnHoldsLease'
    BY <2>3, ConstantsOK DEF LandBeat, LeaseAvailable, TypeOK, TaskOK, budgets
  <2>4. ASSUME LeaseExpires PROVE TurnHoldsLease'
    <3>1. CASE proc[lease.owner] = "dead"
      <4>1. stalls' = stalls /\ pc' = pc /\ lease.owner # NoProcess
        BY <2>4, <3>1 DEF LeaseExpires, local
      <4>2. stalls = 0 => \A p \in Process : ~InTurn(p)
        BY <3>1 DEF TypeOK, ControlOK
      <4> QED
        BY <4>1, <4>2
    <3>2. CASE proc[lease.owner] # "dead"
      BY <2>4, <3>2 DEF LeaseExpires, TypeOK, HistoryOK
    <3> QED
      BY <3>1, <3>2
  <2>5. ASSUME NEW p \in Process,
           \/ Start(p) \/ Crash(p) \/ EnterLoop(p) \/ LeaveLoop(p) \/ BeginTurn(p)
           \/ SnapshotTurn(p) \/ CollectFailure(p) \/ DiscardDecision(p) \/ CollectDecision(p) \/ CommitTurn(p)
           \/ FinishCommitted(p) \/ HandleFailure(p) \/ ScheduleRetry(p) \/ GiveUp(p) \/ ReadForBinding(p)
           \/ BindContinuation(p) \/ ProviderEnds(p) \/ AnswerSteer(p) \/ AnswerInterrupt(p) \/ SteerReturns(p)
           \/ InterruptReturns(p) \/ StopReturns(p) \/ RefreshReturns(p) \/ SendBeat(p) \/ LoseLease(p)
           \/ ArchiveProject(p) \/ Steer(p) \/ Interrupt(p) \/ ChangeResource(p)
         PROVE /\ lease' = lease /\ stalls' = stalls
               /\ \A q \in Process : InTurn(q)' => InTurn(q)
    BY <2>5 DEF Start, Crash, EnterLoop, LeaveLoop, BeginTurn, SnapshotTurn, Environment, CollectFailure,
         DiscardDecision, CollectDecision, CommitTurn, FinishCommitted, HandleFailure,
         ScheduleRetry, GiveUp, ReadForBinding, BindContinuation, ProviderEnds, AnswerSteer,
         AnswerInterrupt, SteerReturns, InterruptReturns, StopReturns, RefreshReturns,
         SendBeat, LoseLease, ArchiveProject, Steer, Interrupt, ChangeResource, SetResource, RunIfActive, EnsureRunning, durable, budgets, TypeOK, TaskOK
  <2>6. ASSUME NEW p \in Process, NEW action, Launch(p, action) \/ Halt(p, action)
         PROVE /\ lease' = lease /\ stalls' = stalls
               /\ \A q \in Process : InTurn(q)' => InTurn(q)
    BY <2>6 DEF Launch, Halt, EnsureRunning, TypeOK, TaskOK
  <2>7. ASSUME WakeDue \/ UNCHANGED vars
         PROVE lease' = lease /\ stalls' = stalls /\ pc' = pc
    BY <2>7 DEF WakeDue, vars, durable, local, budgets
  <2>8. ASSUME lease' = lease, stalls' = stalls, \A q \in Process : InTurn(q)' => InTurn(q)
         PROVE TurnHoldsLease'
    BY <2>8
  <2> QED
    BY <2>1, <2>2, <2>3, <2>4, <2>5, <2>6, <2>7, <2>8
       DEF Next, TaskStep, ProviderStep, CallStep, HeartbeatStep, HumanStep
<1> QED
  BY <1>1, <1>2, PTL DEF Spec

\* Until a heartbeat is late, two processes never work on the project's turn.
THEOREM TurnsExclude == Spec => []OneTurn
<1>1. LeaseInv => OneTurn
  BY DEF LeaseInv, TurnHoldsLease, OneTurn
<1> QED
  BY <1>1, LeaseInvariant, PTL

-----------------------------------------------------------------------------
(* What the runtime had *)

\* What a turn has taken, and what a session has taken, was delivered.
TakenIsDelivered ==
  \A p \in Process :
    /\ turn[p].messages \cup live[p] \subseteq delivered
    /\ \A c \in calls[p] :
         c.op \in {"steer", "interrupt"} /\ c.answer = "yes" => c.message \in delivered

DeliveryInv == TypeOK /\ AcknowledgedWasDelivered /\ TakenIsDelivered

\* How a turn ended says nothing about its messages.
LEMMA OutcomeKeepsMessages ==
  ASSUME TypeOK, NEW p \in Process, NEW out, turn' = [turn EXCEPT ![p].out = out]
  PROVE  \A q \in Process : turn'[q].messages = turn[q].messages /\ turn'[q].run = turn[q].run
<1> DEFINE t == [turn[p] EXCEPT !.out = out]
<1>1. t.messages = turn[p].messages /\ t.run = turn[p].run
  BY DEF TypeOK, TaskOK, TurnType
<1>2. turn' = [turn EXCEPT ![p] = t] /\ turn \in [Process -> TurnType]
  BY DEF TypeOK, TaskOK
<1> HIDE DEF t
<1> QED
  BY <1>1, <1>2

LEMMA DeliveryInvariant == Spec => []DeliveryInv
<1>1. Init => DeliveryInv
  BY InitTypeOK DEF Init, DeliveryInv, AcknowledgedWasDelivered, TakenIsDelivered, NoTurn
<1>2. DeliveryInv /\ [Next]_vars => DeliveryInv'
  <2> SUFFICES ASSUME DeliveryInv, [Next]_vars
               PROVE  AcknowledgedWasDelivered' /\ TakenIsDelivered'
    BY NextTypeOK DEF DeliveryInv
  <2> DEFINE Goal == AcknowledgedWasDelivered' /\ TakenIsDelivered'
             Same == calls' = calls /\ live' = live /\ inbox' = inbox
  <2>0. /\ TypeOK
        /\ inbox \in Seq({"PENDING", "ACKNOWLEDGED"}) /\ DOMAIN inbox = 1..Len(inbox)
        /\ turn \in [Process -> TurnType] /\ live \in [Process -> SUBSET Nat]
        /\ calls \in [Process -> SUBSET CallType]
    BY DEF DeliveryInv, TypeOK, DurableOK, TaskOK, CallsOK
  \* Steps that leave all of it alone
  <2>1. ASSUME turn' = turn, Same, delivered' = delivered PROVE Goal
    BY <2>1 DEF DeliveryInv, AcknowledgedWasDelivered, TakenIsDelivered
  \* A turn forgets its messages or has none yet
  <2>2. ASSUME NEW p \in Process, NEW t, t.messages \subseteq turn[p].messages,
               turn' = [turn EXCEPT ![p] = t], Same, delivered' = delivered
        PROVE  Goal
    BY <2>0, <2>2 DEF DeliveryInv, AcknowledgedWasDelivered, TakenIsDelivered
  <2>3. ASSUME NEW p \in Process, NEW m, turn' = turn, live' = live, delivered' = delivered,
               \/ calls' = calls
               \/ calls' = [calls EXCEPT ![p] = @ \cup {m}] /\ m.answer = "pending"
               \/ calls' = [calls EXCEPT ![p] = @ \ {m}],
               inbox' = inbox \/ inbox' = Append(inbox, "PENDING")
        PROVE  Goal
    <3>1. \A q \in Process : \A c \in calls'[q] : c \in calls[q] \/ c.answer = "pending"
      BY <2>0, <2>3
    <3>2. TakenIsDelivered'
      BY <2>3, <3>1 DEF DeliveryInv, TakenIsDelivered
    <3>3. \A i \in DOMAIN inbox' : inbox'[i] = "ACKNOWLEDGED" => i \in DOMAIN inbox /\ inbox[i] = "ACKNOWLEDGED"
      BY <2>0, <2>3
    <3>4. AcknowledgedWasDelivered'
      BY <2>3, <3>3 DEF DeliveryInv, AcknowledgedWasDelivered
    <3> QED
      BY <3>2, <3>4
  <2>4. ASSUME NEW p \in Process, Crash(p) PROVE Goal
    BY <2>0, <2>4 DEF Crash, durable, budgets, NoTurn, DeliveryInv, AcknowledgedWasDelivered, TakenIsDelivered
  <2>5. ASSUME NEW p \in Process, BeginTurn(p) PROVE Goal
    <3>1. [NoTurn EXCEPT !.retry = IF row.wake = "due" THEN NextRetryCount ELSE 0].messages = {}
      BY DEF NoTurn
    <3> QED
      BY <2>2, <2>5, <3>1 DEF BeginTurn, durable
  <2>6. ASSUME NEW p \in Process, ClaimCoordinator(p) PROVE Goal
    <3>1. NoTurn.messages = {}
      BY DEF NoTurn
    <3> QED
      BY <2>1, <2>2, <2>6, <3>1 DEF ClaimCoordinator
  <2>7. ASSUME NEW p \in Process, SnapshotTurn(p) PROVE Goal
    <3>1. turn'[p].messages = PromptMessages /\ \A q \in Process \ {p} : turn'[q] = turn[q]
      BY <2>0, <2>7 DEF SnapshotTurn, TurnType
    <3>2. Same /\ delivered' = delivered \cup PromptMessages
      BY <2>7 DEF SnapshotTurn
    <3> QED
      BY <3>1, <3>2 DEF DeliveryInv, AcknowledgedWasDelivered, TakenIsDelivered
  <2>8. ASSUME NEW p \in Process, CollectDecision(p) PROVE Goal
    <3>1. /\ turn'[p].messages = turn[p].messages \cup live[p] /\ live'[p] = {}
          /\ \A q \in Process \ {p} : turn'[q] = turn[q] /\ live'[q] = live[q]
      BY <2>0, <2>8 DEF CollectDecision, TurnType
    <3>2. calls' = calls /\ inbox' = inbox /\ delivered' = delivered
      BY <2>8 DEF CollectDecision, durable
    <3> QED
      BY <3>1, <3>2 DEF DeliveryInv, AcknowledgedWasDelivered, TakenIsDelivered
  <2>9. ASSUME NEW p \in Process, CommitTurn(p) PROVE Goal
    <3>1. \A q \in Process : turn'[q].messages = turn[q].messages
      BY <2>0, <2>9, OutcomeKeepsMessages DEF CommitTurn
    <3>2. calls' = calls /\ live' = live /\ delivered' = delivered
      BY <2>9 DEF CommitTurn
    <3>3. TakenIsDelivered'
      BY <3>1, <3>2 DEF DeliveryInv, TakenIsDelivered
    <3>4. \A i \in DOMAIN inbox' :
            inbox'[i] = "ACKNOWLEDGED" =>
              i \in DOMAIN inbox /\ (inbox[i] = "ACKNOWLEDGED" \/ i \in turn[p].messages)
      BY <2>0, <2>9 DEF CommitTurn, Acknowledged
    <3>5. AcknowledgedWasDelivered'
      BY <3>2, <3>4 DEF DeliveryInv, AcknowledgedWasDelivered, TakenIsDelivered
    <3> QED
      BY <3>3, <3>5
  <2>10. ASSUME NEW p \in Process, HandleFailure(p) \/ UnwindTurn(p) PROVE Goal
    <3>1. NoTurn.messages = {}
      BY DEF NoTurn
    <3> QED
      BY <2>1, <2>2, <2>10, <3>1 DEF HandleFailure, UnwindTurn, durable
  <2>11. ASSUME NEW p \in Process, BindContinuation(p) \/ ProviderEnds(p) \/ DiscardDecision(p) PROVE Goal
    <3>1. \A q \in Process : turn'[q].messages = turn[q].messages
      <4>1. turn' = turn \/ \E out : turn' = [turn EXCEPT ![p].out = out]
        BY <2>11 DEF BindContinuation, ProviderEnds, DiscardDecision
      <4> QED
        BY <2>0, <4>1, OutcomeKeepsMessages
    <3>2. Same /\ delivered' = delivered
      BY <2>11 DEF BindContinuation, ProviderEnds, DiscardDecision, durable
    <3> QED
      BY <3>1, <3>2 DEF DeliveryInv, AcknowledgedWasDelivered, TakenIsDelivered
  <2>12. ASSUME NEW p \in Process, AnswerSteer(p) \/ AnswerInterrupt(p) PROVE Goal
    <3>1. PICK c \in calls[p], answer \in {"yes", "no", "raised"} :
            /\ Answered(p, c, answer)
            /\ delivered \subseteq delivered'
            /\ answer = "yes" /\ c.op \in {"steer", "interrupt"} => c.message \in delivered'
      <4>1. CASE AnswerSteer(p)
        BY <4>1, AnswerSets DEF AnswerSteer
      <4>2. CASE AnswerInterrupt(p)
        BY <4>2, AnswerSets DEF AnswerInterrupt
      <4> QED
        BY <2>12, <4>1, <4>2
    <3>2. /\ \A q \in Process \ {p} : calls'[q] = calls[q]
          /\ \A d \in calls'[p] :
               d \in calls[p] \/ (d.op = c.op /\ d.message = c.message /\ (d.answer = "yes" => answer = "yes"))
      <4>1. c \in CallType
        BY <2>0
      <4>2. /\ [c EXCEPT !.answer = answer].op = c.op
            /\ [c EXCEPT !.answer = answer].message = c.message
            /\ [c EXCEPT !.answer = answer].answer = answer
        BY <4>1 DEF CallType
      <4> QED
        BY <2>0, <3>1, <4>2 DEF Answered
    <3>3. turn' = turn /\ live' = live /\ inbox' = inbox
      BY <2>12 DEF AnswerSteer, AnswerInterrupt, durable
    <3> QED
      BY <3>1, <3>2, <3>3 DEF DeliveryInv, AcknowledgedWasDelivered, TakenIsDelivered
  <2>13. ASSUME NEW p \in Process, SteerReturns(p) \/ InterruptReturns(p) PROVE Goal
    <3>1. PICK c \in calls[p] : c.op \in {"steer", "interrupt"} /\ AcceptLive(p, c)
                                /\ calls' = [calls EXCEPT ![p] = @ \ {c}]
      BY <2>13 DEF SteerReturns, InterruptReturns, Resumes
    <3>2. \A q \in Process : calls'[q] \subseteq calls[q]
      BY <2>0, <3>1
    <3>3. \A q \in Process : \A m \in live'[q] : m \in live[q] \/ (q = p /\ m = c.message /\ c.answer = "yes")
      BY <2>0, <3>1 DEF AcceptLive
    <3>4. turn' = turn /\ inbox' = inbox /\ delivered' = delivered
      BY <2>13 DEF SteerReturns, InterruptReturns, durable
    <3> QED
      BY <3>1, <3>2, <3>3, <3>4 DEF DeliveryInv, AcknowledgedWasDelivered, TakenIsDelivered
  <2>14. ASSUME NEW p \in Process, StopReturns(p) \/ RefreshReturns(p) PROVE Goal
    BY <2>3, <2>14 DEF StopReturns, RefreshReturns, Resumes, durable
  <2>15. ASSUME NEW p \in Process, NEW action,
                \/ Launch(p, action) \/ Halt(p, action) \/ ArchiveProject(p) \/ LoseLease(p)
                \/ Steer(p) \/ Interrupt(p) \/ ChangeResource(p)
         PROVE  Goal
    <3> DEFINE New(op, m) == [op |-> op, message |-> m, answer |-> "pending"]
    <3>1. \A op, m : New(op, m).answer = "pending"
      OBVIOUS
    <3>2. PICK op, m : calls' = calls \/ calls' = [calls EXCEPT ![p] = @ \cup {New(op, m)}]
      BY <2>15 DEF Launch, Halt, ArchiveProject, LoseLease, Steer, Interrupt, ChangeResource, StopRuntime, Ask
    <3>3. /\ turn' = turn /\ live' = live /\ delivered' = delivered
          /\ inbox' = inbox \/ inbox' = Append(inbox, "PENDING")
      BY <2>15 DEF Launch, Halt, ArchiveProject, LoseLease, Steer, Interrupt, ChangeResource, Store, durable
    <3> HIDE DEF New
    <3> QED
      BY <2>3, <3>1, <3>2, <3>3
  <2>16. ASSUME NEW p \in Process,
                \/ Start(p) \/ EnterLoop(p) \/ LeaveLoop(p) \/ CollectFailure(p) \/ FinishCommitted(p)
                \/ ScheduleRetry(p) \/ GiveUp(p) \/ ReadForBinding(p) \/ SendBeat(p) \/ LandBeat(p)
         PROVE  Goal
    BY <2>1, <2>16 DEF Start, EnterLoop, LeaveLoop, CollectFailure, FinishCommitted, ScheduleRetry, GiveUp,
         ReadForBinding, SendBeat, LandBeat, durable
  <2>17. ASSUME WakeDue \/ LeaseExpires \/ UNCHANGED vars PROVE Goal
    BY <2>1, <2>17 DEF WakeDue, LeaseExpires, vars, durable, local
  <2> QED
    BY <2>4, <2>5, <2>6, <2>7, <2>8, <2>9, <2>10, <2>11, <2>12, <2>13, <2>14, <2>15, <2>16, <2>17
       DEF Next, TaskStep, ProviderStep, CallStep, HeartbeatStep, HumanStep
<1> QED
  BY <1>1, <1>2, PTL DEF Spec

\* Guidance is acknowledged only when the runtime had it, for any number of
\* servers: what a turn acknowledges comes from its prompt or was taken by its
\* session (CommitTurn, AcceptLive, AnswerSteer, AnswerInterrupt).
THEOREM AcknowledgementsAreTrue == Spec => []AcknowledgedWasDelivered
<1>1. DeliveryInv => AcknowledgedWasDelivered
  BY DEF DeliveryInv
<1> QED
  BY <1>1, DeliveryInvariant, PTL

-----------------------------------------------------------------------------
(* The run records *)

Dead == {p \in Process : proc[p] = "dead"}

InProgress == {turn[p].run : p \in {q \in Process : pc[q] \in {"turn", "commit", "finish"}}}
Orphans == {i \in DOMAIN runs : runs[i].status = "RUNNING"} \ InProgress

SettledInv ==
  /\ TypeOK
  /\ IsFiniteSet(Dead)
  /\ Cardinality(Orphans) <= Cardinality(Dead)

AtWork(p) == pc[p] \in {"turn", "commit", "finish"}

\* The work of the others goes on.
OthersWork(p) ==
  \A q \in Process \ {p} : AtWork(q) => AtWork(q)' /\ turn'[q].run = turn[q].run

LEMMA OrphansFinite ==
  ASSUME runs \in Seq(RunType)
  PROVE  IsFiniteSet(Orphans)
<1>1. IsFiniteSet(1..Len(runs)) /\ DOMAIN runs = 1..Len(runs)
  BY FS_Interval
<1> QED
  BY <1>1, FS_Subset DEF Orphans

\* A record that is not open after a step, or is somebody's, is no new orphan.
LEMMA OrphansShrink ==
  ASSUME NEW p \in Process, OthersWork(p),
         \A i \in DOMAIN runs' :
           runs'[i].status = "RUNNING" =>
             \/ i \in DOMAIN runs /\ runs[i].status = "RUNNING"
             \/ AtWork(p)' /\ turn'[p].run = i,
         AtWork(p) =>
           \/ AtWork(p)' /\ turn'[p].run = turn[p].run
           \/ turn[p].run \in DOMAIN runs' /\ runs'[turn[p].run].status # "RUNNING"
  PROVE  Orphans' \subseteq Orphans
<1> SUFFICES ASSUME NEW i \in DOMAIN runs', runs'[i].status = "RUNNING", i \notin InProgress'
             PROVE  i \in Orphans
  BY DEF Orphans
<1>1. \A q \in Process : AtWork(q)' => turn'[q].run # i
  BY DEF InProgress, AtWork
<1>2. i \in DOMAIN runs /\ runs[i].status = "RUNNING"
  BY <1>1
<1>3. \A q \in Process : AtWork(q) => turn[q].run # i
  BY <1>1 DEF OthersWork
<1> QED
  BY <1>2, <1>3 DEF Orphans, InProgress, AtWork

LEMMA SettledStep ==
  ASSUME SettledInv, runs' \in Seq(RunType), TypeOK', Orphans' \subseteq Orphans, Dead' = Dead
  PROVE  SettledInv'
<1>1. IsFiniteSet(Orphans)
  BY OrphansFinite DEF SettledInv, TypeOK, DurableOK
<1>2. IsFiniteSet(Orphans') /\ Cardinality(Orphans') <= Cardinality(Orphans)
  BY <1>1, FS_Subset
<1>3. Cardinality(Orphans) \in Nat /\ Cardinality(Orphans') \in Nat /\ Cardinality(Dead) \in Nat
  BY <1>1, <1>2, FS_CardinalityType DEF SettledInv
<1>4. Cardinality(Orphans') <= Cardinality(Dead)
  BY <1>2, <1>3 DEF SettledInv
<1> QED
  BY <1>4 DEF SettledInv

\* Closing a record leaves the others as they are.
LEMMA ClosedRecord ==
  ASSUME TypeOK, NEW p \in Process, AtWork(p),
         NEW status \in RunStatus \ {"RUNNING"}, FinishRun(p, status)
  PROVE  /\ DOMAIN runs' = DOMAIN runs /\ runs' \in Seq(RunType)
         /\ turn[p].run \in DOMAIN runs
         /\ runs'[turn[p].run].status # "RUNNING"
         /\ runs'[turn[p].run].status = status
         /\ \A i \in DOMAIN runs : i # turn[p].run => runs'[i] = runs[i]
         /\ \A i \in DOMAIN runs : runs'[i].retry = runs[i].retry
<1>1. turn[p].run \in DOMAIN runs /\ runs \in Seq(RunType)
  BY DEF TypeOK, ControlOK, AtWork, DurableOK
<1>2. DOMAIN runs' = DOMAIN runs /\ runs' \in Seq(RunType)
  BY <1>1, FinishRunType
<1> DEFINE i == turn[p].run
           e == [runs[i] EXCEPT !.status = status]
<1>3. runs[i] \in RunType
  BY <1>1, ElementOfSeq, LenProperties
<1>4. e.status = status /\ e.retry = runs[i].retry
  BY <1>3 DEF RunType
<1>5. runs' = [runs EXCEPT ![i] = e]
  BY DEF FinishRun
<1> HIDE DEF e
<1> QED
  BY <1>1, <1>2, <1>4, <1>5

LEMMA SettledInvariant == Spec => []SettledInv
<1>1. Init => SettledInv
  <2> SUFFICES ASSUME Init PROVE SettledInv
    OBVIOUS
  <2>1. Orphans = {} /\ Dead = {}
    BY DEF Init, Orphans, Dead
  <2> QED
    BY <2>1, InitTypeOK, FS_EmptySet DEF SettledInv
<1>2. SettledInv /\ [Next]_vars => SettledInv'
  <2> SUFFICES ASSUME SettledInv, [Next]_vars PROVE SettledInv'
    OBVIOUS
  <2>0. /\ TypeOK /\ TypeOK' /\ runs' \in Seq(RunType) /\ runs \in Seq(RunType)
        /\ turn \in [Process -> TurnType] /\ pc \in [Process -> PcType] /\ proc \in [Process -> ProcType]
    BY NextTypeOK DEF SettledInv, TypeOK, DurableOK, TaskOK
  \* Steps that leave the records and those who work on them alone
  <2>1. ASSUME NEW p \in Process, runs' = runs, OthersWork(p), Dead' = Dead,
               AtWork(p) => AtWork(p)' /\ turn'[p].run = turn[p].run
        PROVE  SettledInv'
    BY <2>0, <2>1, OrphansShrink, SettledStep
  \* Steps that close a record
  <2>2. ASSUME NEW p \in Process, NEW status \in RunStatus \ {"RUNNING"}, AtWork(p),
               FinishRun(p, status), OthersWork(p), Dead' = Dead
        PROVE  SettledInv'
    <3>1. /\ DOMAIN runs' = DOMAIN runs /\ turn[p].run \in DOMAIN runs
          /\ runs'[turn[p].run].status # "RUNNING"
          /\ \A i \in DOMAIN runs : i # turn[p].run => runs'[i] = runs[i]
      BY <2>0, <2>2, ClosedRecord
    <3>2. Orphans' \subseteq Orphans
      BY <2>2, <3>1, OrphansShrink
    <3> QED
      BY <2>0, <2>2, <3>2, SettledStep
  <2>3. ASSUME NEW p \in Process, SnapshotTurn(p) PROVE SettledInv'
    <3> DEFINE r == [status |-> "RUNNING", retry |-> turn[p].retry]
    <3>1. runs' = Append(runs, r) /\ pc[p] = "snapshot" /\ AtWork(p)' /\ Dead' = Dead
      BY <2>0, <2>3 DEF SnapshotTurn, AtWork, Dead
    <3>2. turn'[p].run = Len(runs) + 1 /\ OthersWork(p)
      BY <2>0, <2>3 DEF SnapshotTurn, AtWork, OthersWork, TurnType
    <3> HIDE DEF r
    <3>3. \A i \in DOMAIN runs' : i = Len(runs) + 1 \/ (i \in DOMAIN runs /\ runs'[i] = runs[i])
      BY <2>0, <3>1
    <3>4. Orphans' \subseteq Orphans
      BY <3>1, <3>2, <3>3, OrphansShrink DEF AtWork
    <3> QED
      BY <2>0, <3>1, <3>4, SettledStep
  <2>4. ASSUME NEW p \in Process, Crash(p) PROVE SettledInv'
    <3> DEFINE i == turn[p].run
    <3>1. runs' = runs /\ Dead' = Dead \cup {p} /\ p \notin Dead /\ OthersWork(p)
      BY <2>0, <2>4 DEF Crash, Dead, OthersWork, AtWork, durable
    <3>2. Orphans' \subseteq Orphans \cup {i}
      BY <2>0, <3>1 DEF Orphans, InProgress, OthersWork, AtWork
    <3>3. IsFiniteSet(Orphans) /\ IsFiniteSet(Dead) /\ Cardinality(Orphans) <= Cardinality(Dead)
      BY <2>0, OrphansFinite DEF SettledInv
    <3>31. Cardinality(Orphans) \in Nat /\ Cardinality(Dead) \in Nat
      BY <3>3, FS_CardinalityType
    <3>32. /\ IsFiniteSet(Orphans \cup {i})
          /\ Cardinality(Orphans \cup {i}) = IF i \in Orphans THEN Cardinality(Orphans) ELSE Cardinality(Orphans) + 1
      BY <3>3, FS_AddElement
    <3>33. IsFiniteSet(Dead \cup {p}) /\ Cardinality(Dead \cup {p}) = Cardinality(Dead) + 1
      BY <3>1, <3>3, FS_AddElement
    <3>4. /\ IsFiniteSet(Orphans \cup {i}) /\ Cardinality(Orphans \cup {i}) <= Cardinality(Orphans) + 1
          /\ IsFiniteSet(Dead') /\ Cardinality(Dead') = Cardinality(Dead) + 1
          /\ Cardinality(Orphans) \in Nat /\ Cardinality(Dead) \in Nat
      BY <3>1, <3>31, <3>32, <3>33
    <3>5. IsFiniteSet(Orphans') /\ Cardinality(Orphans') <= Cardinality(Orphans \cup {i})
      BY <3>2, <3>4, FS_Subset
    <3>6. Cardinality(Orphans') \in Nat /\ Cardinality(Orphans \cup {i}) \in Nat
      BY <3>4, <3>5, FS_CardinalityType
    <3>7. Cardinality(Orphans') <= Cardinality(Dead')
      BY <3>3, <3>4, <3>5, <3>6
    <3> QED
      BY <2>0, <3>4, <3>7 DEF SettledInv
  <2>5. ASSUME NEW p \in Process, CollectFailure(p) PROVE SettledInv'
    <3>1. RaisedStatus \in RunStatus \ {"RUNNING"} /\ FinishRun(p, RaisedStatus)
      BY <2>5 DEF CollectFailure, RaisedStatus, RunStatus
    <3>2. AtWork(p) /\ OthersWork(p) /\ Dead' = Dead
      BY <2>0, <2>5 DEF CollectFailure, OthersWork, AtWork, Dead
    <3> QED
      BY <2>2, <3>1, <3>2
  <2>6. ASSUME NEW p \in Process, DiscardDecision(p) PROVE SettledInv'
    <3>1. PICK status \in RunStatus \ {"RUNNING"} : FinishRun(p, status)
      BY <2>6 DEF DiscardDecision, RaisedStatus, RunStatus
    <3>2. AtWork(p) /\ Dead' = Dead
      BY <2>6 DEF DiscardDecision, AtWork, Dead
    <3>3. OthersWork(p)
      BY <2>0, <2>6 DEF DiscardDecision, OthersWork, AtWork
    <3> QED
      BY <2>2, <3>1, <3>2, <3>3
  <2>7. ASSUME NEW p \in Process, CommitTurn(p) PROVE SettledInv'
    <3>1. AtWork(p) /\ OthersWork(p) /\ Dead' = Dead
      BY <2>0, <2>7 DEF CommitTurn, OthersWork, AtWork, Dead
    <3>2. CASE SwapSucceeds(p)
      <4>1. turn' = [turn EXCEPT ![p].out = "committed"] /\ runs' = runs /\ AtWork(p)'
        BY <2>0, <2>7, <3>2 DEF CommitTurn, AtWork
      <4> QED
        BY <2>0, <2>1, <3>1, <4>1, OutcomeKeepsMessages
    <3>3. CASE ~SwapSucceeds(p)
      <4>1. RaisedStatus \in RunStatus \ {"RUNNING"} /\ FinishRun(p, RaisedStatus)
        BY <2>7, <3>3 DEF CommitTurn, RaisedStatus, RunStatus
      <4> QED
        BY <2>2, <3>1, <4>1
    <3> QED
      BY <3>2, <3>3
  <2>8. ASSUME NEW p \in Process, FinishCommitted(p) PROVE SettledInv'
    <3>1. "COMPLETED" \in RunStatus \ {"RUNNING"} /\ FinishRun(p, "COMPLETED")
      BY <2>8 DEF FinishCommitted, RunStatus
    <3>2. AtWork(p) /\ OthersWork(p) /\ Dead' = Dead
      BY <2>0, <2>8 DEF FinishCommitted, OthersWork, AtWork, Dead
    <3> QED
      BY <2>2, <3>1, <3>2
  \* A decision takes live messages; a provider's answer names an outcome
  <2>9. ASSUME NEW p \in Process, CollectDecision(p) PROVE SettledInv'
    <3>1. [turn[p] EXCEPT !.messages = @ \cup live[p]].run = turn[p].run
      BY <2>0 DEF TurnType
    <3>2. turn'[p].run = turn[p].run /\ AtWork(p)' /\ OthersWork(p)
      BY <2>0, <2>9, <3>1 DEF CollectDecision, AtWork, OthersWork
    <3>3. runs' = runs /\ Dead' = Dead
      BY <2>9 DEF CollectDecision, durable, Dead
    <3> QED
      BY <2>1, <3>2, <3>3
  <2>10. ASSUME NEW p \in Process, BindContinuation(p) \/ ProviderEnds(p) PROVE SettledInv'
    <3>1. turn' = turn \/ \E out : turn' = [turn EXCEPT ![p].out = out]
      BY <2>10 DEF BindContinuation, ProviderEnds
    <3>2. \A q \in Process : turn'[q].run = turn[q].run
      BY <2>0, <3>1, OutcomeKeepsMessages
    <3>3. pc' = pc /\ runs' = runs /\ Dead' = Dead
      BY <2>10 DEF BindContinuation, ProviderEnds, durable, Dead
    <3> QED
      BY <2>1, <3>2, <3>3 DEF AtWork, OthersWork
  <2>11. ASSUME NEW p \in Process,
                \/ Start(p) \/ EnterLoop(p) \/ LeaveLoop(p) \/ BeginTurn(p) \/ ClaimCoordinator(p)
                \/ UnwindTurn(p) \/ HandleFailure(p) \/ ScheduleRetry(p) \/ GiveUp(p)
         PROVE  SettledInv'
    <3>1. ~AtWork(p)
      BY <2>0, <2>11 DEF Start, EnterLoop, LeaveLoop, BeginTurn, ClaimCoordinator, UnwindTurn, HandleFailure,
           ScheduleRetry, GiveUp, AtWork, TypeOK, ControlOK
    <3>2. runs' = runs /\ OthersWork(p)
      BY <2>0, <2>11 DEF Start, EnterLoop, LeaveLoop, BeginTurn, ClaimCoordinator, UnwindTurn, HandleFailure,
           ScheduleRetry, GiveUp, AtWork, OthersWork, durable
    <3>3. Dead' = Dead
      BY <2>0, <2>11 DEF Start, EnterLoop, LeaveLoop, BeginTurn, ClaimCoordinator, UnwindTurn, HandleFailure,
           ScheduleRetry, GiveUp, Dead
    <3> QED
      BY <2>1, <3>1, <3>2, <3>3
  <2>12. ASSUME NEW p \in Process, NEW action,
                \/ ReadForBinding(p) \/ AnswerSteer(p) \/ AnswerInterrupt(p) \/ SteerReturns(p)
                \/ InterruptReturns(p) \/ StopReturns(p) \/ RefreshReturns(p) \/ SendBeat(p)
                \/ LandBeat(p) \/ LoseLease(p) \/ Launch(p, action) \/ Halt(p, action)
                \/ ArchiveProject(p) \/ Steer(p) \/ Interrupt(p) \/ ChangeResource(p)
         PROVE  SettledInv'
    <3>1. /\ runs' = runs /\ turn' = turn /\ proc' = proc
          /\ pc' = pc \/ (pc[p] = "off" /\ pc' = [pc EXCEPT ![p] = "boot"])
      BY <2>12 DEF ReadForBinding, AnswerSteer, AnswerInterrupt, SteerReturns, InterruptReturns, StopReturns,
           RefreshReturns, SendBeat, LandBeat, LoseLease, Launch, Halt, ArchiveProject, Steer, Interrupt,
           ChangeResource, RunIfActive, EnsureRunning, durable
    <3> QED
      BY <2>0, <2>1, <3>1 DEF AtWork, OthersWork, Dead
  <2>13. ASSUME WakeDue \/ LeaseExpires \/ UNCHANGED vars PROVE SettledInv'
    <3>1. runs' = runs /\ turn' = turn /\ proc' = proc /\ pc' = pc
      BY <2>13 DEF WakeDue, LeaseExpires, vars, durable, local
    <3>2. Orphans' = Orphans /\ Dead' = Dead
      BY <3>1 DEF Orphans, InProgress, Dead
    <3> QED
      BY <2>0, <3>2, SettledStep
  <2> QED
    BY <2>3, <2>4, <2>5, <2>6, <2>7, <2>8, <2>9, <2>10, <2>11, <2>12, <2>13
       DEF Next, TaskStep, ProviderStep, CallStep, HeartbeatStep, HumanStep
<1> QED
  BY <1>1, <1>2, PTL DEF Spec

\* The records shown to the team are settled, for any number of servers: a
\* crash abandons at most the one turn its process was in (start_run, and the
\* finish_run on every path out of _run_turn).
THEOREM RecordsSettle == Spec => []RunsSettled
<1>1. SettledInv => RunsSettled
  BY DEF SettledInv, RunsSettled, Orphans, InProgress, Dead
<1> QED
  BY <1>1, SettledInvariant, PTL

-----------------------------------------------------------------------------
(* One server *)

\* One server: at most one process is up.
OneServer == UpProcesses = {} \/ \E p \in Process : UpProcesses = {p}

\* What holds of the one server p.  The Claude adapter answers without
\* suspending: nothing waits for it while the task is between two awaits.  The
\* row a failure was read from is the one it is written over, a turn is prepared
\* for an active project, and an active project has its task.
Attended(p) ==
  /\ pc[p] \in Busy /\ ~Codex => \A c \in calls[p] : c.answer = "yes"
  /\ pc[p] \in {"reschedule", "giveup"} => seen[p].version = row.version
  /\ pc[p] \in {"claim", "snapshot"} => row.status \in Active
  /\ proc[p] = "up" /\ row.status \in Active => pc[p] # "off"

ServerInv == OneServer /\ \A p \in Process : Attended(p)

\* Nothing goes on in the other processes.
LEMMA OthersAreDown ==
  ASSUME TypeOK, OneServer, NEW p \in Process, proc[p] = "up", NEW q \in Process \ {p}
  PROVE  proc[q] # "up" /\ pc[q] = "off" /\ session[q] = "none" /\ calls[q] = {}
<1>1. proc[q] # "up"
  BY DEF OneServer, UpProcesses
<1> QED
  BY <1>1 DEF TypeOK, ControlOK

LEMMA ServerStep ==
  ASSUME TypeOK, ServerInv, NEW p \in Process, proc[p] = "up", Attended(p)',
         \A q \in Process \ {p} : proc'[q] = proc[q] /\ pc'[q] = pc[q]
  PROVE  ServerInv'
<1>1. \A q \in Process \ {p} : proc[q] # "up" /\ pc[q] = "off"
  BY OthersAreDown DEF ServerInv
<1>2. \A q \in Process \ {p} : Attended(q)'
  BY <1>1 DEF Attended, Busy
<1>3. OneServer'
  BY <1>1 DEF OneServer, UpProcesses
<1> QED
  BY <1>2, <1>3 DEF ServerInv

\* A process that is to start finds no other up.
LEMMA StartsAlone ==
  ASSUME MaxUp <= 1, OneServer, NEW p \in Process, Start(p)
  PROVE  UpProcesses = {}
<1> SUFFICES ASSUME NEW q \in Process, UpProcesses = {q} PROVE FALSE
  BY DEF OneServer
<1>1. Cardinality(UpProcesses) = 1
  BY FS_Singleton
<1> QED
  BY <1>1, ConstantsOK DEF Start

\* What a step of the server does while its task is between two awaits.
LEMMA RowKept ==
  ASSUME TypeOK, ServerInv, NEW p \in Process, NEW op, NEW c, Resumes(p, c, op)
  PROVE  pc[p] \notin Busy /\ proc[p] = "up"
  BY DEF ServerInv, Attended, Resumes, LoopFree, TypeOK, ControlOK

LEMMA ServerInvariant ==
  ASSUME MaxUp <= 1
  PROVE  Spec => []ServerInv
<1>1. Init => ServerInv
  BY DEF Init, ServerInv, OneServer, UpProcesses, Attended, Busy
<1>2. LifecycleInv /\ LifecycleInv' /\ ServerInv /\ [Next]_vars => ServerInv'
  <2> SUFFICES ASSUME LifecycleInv, LifecycleInv', ServerInv, [Next]_vars PROVE ServerInv'
    OBVIOUS
  <2>0. /\ TypeOK /\ pc \in [Process -> PcType] /\ proc \in [Process -> ProcType]
        /\ seen \in [Process -> RowType] /\ row \in RowType /\ calls \in [Process -> SUBSET CallType]
    BY DEF LifecycleInv, TypeOK, TaskOK, CallsOK, DurableOK
  <2>down. ASSUME NEW p \in Process, proc[p] # "up" PROVE pc[p] = "off" /\ session[p] = "none" /\ calls[p] = {}
    BY <2>0, <2>down DEF TypeOK, ControlOK
  \* Steps that leave alone what Attended is about
  <2>1. ASSUME pc' = pc, proc' = proc,
               \A p \in Process : calls'[p] \subseteq calls[p],
               row'.version = row.version /\ row'.status = row.status,
               \A p \in Process : pc[p] \in {"reschedule", "giveup"} => seen'[p] = seen[p]
        PROVE  ServerInv'
    BY <2>1 DEF ServerInv, Attended, OneServer, UpProcesses
  \* Steps of a server that is not between two awaits
  <2>2. ASSUME NEW p \in Process, proc[p] = "up", pc[p] \notin Busy, proc' = proc,
               \/ pc' = pc /\ (row'.status \in Active => pc[p] # "off")
               \/ pc[p] = "off" /\ pc' = [pc EXCEPT ![p] = "boot"]
        PROVE  ServerInv'
    <3>1. pc'[p] \notin Busy \cup {"off"} \/ (pc'[p] = "off" /\ row'.status \notin Active)
      BY <2>0, <2>2 DEF Busy
    <3>2. Attended(p)'
      BY <3>1 DEF Attended, Busy
    <3> QED
      BY <2>0, <2>2, <3>2, ServerStep
  <2>3. ASSUME NEW p \in Process, Start(p) PROVE ServerInv'
    <3>1. UpProcesses = {}
      BY <2>3, StartsAlone DEF ServerInv
    <3>2. UpProcesses' = {p}
      BY <2>0, <2>3, <3>1 DEF Start, UpProcesses
    <3>3. \A q \in Process \ {p} : proc'[q] # "up" /\ pc'[q] = "off"
      BY <2>0, <2>3, <2>down, <3>1 DEF Start, UpProcesses
    <3>4. pc'[p] \in {"off", "boot"} /\ (row'.status \in Active => pc'[p] = "boot")
      BY <2>0, <2>3 DEF Start, durable
    <3> QED
      BY <3>2, <3>3, <3>4 DEF ServerInv, OneServer, Attended, Busy
  <2>4. ASSUME NEW p \in Process, Crash(p) PROVE ServerInv'
    <3>1. Attended(p)' /\ \A q \in Process \ {p} : proc'[q] = proc[q] /\ pc'[q] = pc[q]
      BY <2>0, <2>4 DEF Crash, Attended, Busy
    <3> QED
      BY <2>0, <2>4, <3>1, ServerStep DEF Crash
  <2>5. ASSUME NEW p \in Process,
               \/ EnterLoop(p) \/ LeaveLoop(p) \/ BeginTurn(p) \/ ClaimCoordinator(p)
               \/ SnapshotTurn(p) \/ CollectFailure(p) \/ DiscardDecision(p) \/ CollectDecision(p)
               \/ FinishCommitted(p) \/ UnwindTurn(p)
        PROVE  ServerInv'
    <3>1. pc[p] # "off" /\ proc[p] = "up"
      BY <2>0, <2>5, <2>down DEF EnterLoop, LeaveLoop, BeginTurn, ClaimCoordinator, SnapshotTurn, CollectFailure,
           DiscardDecision, CollectDecision, FinishCommitted, UnwindTurn
    <3>2. /\ row' = row /\ calls' = calls /\ proc' = proc
          /\ \A q \in Process \ {p} : pc'[q] = pc[q]
      BY <2>0, <2>5 DEF EnterLoop, LeaveLoop, BeginTurn, ClaimCoordinator, SnapshotTurn, CollectFailure,
           DiscardDecision, CollectDecision, FinishCommitted, UnwindTurn, durable
    <3>3. /\ pc'[p] \in Busy => pc[p] \in Busy \/ LoopFree(p)
          /\ pc'[p] \notin {"reschedule", "giveup"}
          /\ pc'[p] \in {"claim", "snapshot"} => pc[p] = "claim" \/ row.status \in Active
          /\ pc'[p] = "off" => row.status \notin Active
      BY <2>0, <2>5 DEF EnterLoop, LeaveLoop, BeginTurn, ClaimCoordinator, SnapshotTurn, CollectFailure,
           DiscardDecision, CollectDecision, FinishCommitted, UnwindTurn, Busy
    <3>4. Attended(p)'
      BY <3>1, <3>2, <3>3 DEF Attended, ServerInv, LoopFree
    <3> QED
      BY <2>0, <3>1, <3>2, <3>4, ServerStep
  <2>6. ASSUME NEW p \in Process, CommitTurn(p) PROVE ServerInv'
    <3>1. /\ pc[p] \in Busy /\ calls' = calls /\ proc' = proc /\ pc'[p] \in {"finish", "unwind"}
          /\ \A q \in Process \ {p} : pc'[q] = pc[q]
      BY <2>0, <2>6 DEF CommitTurn, Busy
    <3>2. proc[p] = "up" /\ Attended(p)'
      BY <2>down, <3>1 DEF Attended, ServerInv, Busy
    <3> QED
      BY <2>0, <3>1, <3>2, ServerStep
  <2>7. ASSUME NEW p \in Process, HandleFailure(p) PROVE ServerInv'
    <3>1. /\ pc[p] \in Busy /\ calls' = calls /\ proc' = proc /\ row' = row /\ seen'[p] = row
          /\ \A q \in Process \ {p} : pc'[q] = pc[q]
      BY <2>0, <2>7 DEF HandleFailure, Busy, durable
    <3>2. pc'[p] \in {"off", "head", "reschedule", "giveup"} /\ (pc'[p] = "off" => row.status \notin Active)
      BY <2>0, <2>7 DEF HandleFailure, Halted, Active
    <3>3. proc[p] = "up" /\ Attended(p)'
      BY <2>down, <3>1, <3>2 DEF Attended, ServerInv, Busy
    <3> QED
      BY <2>0, <3>1, <3>3, ServerStep
  <2>8. ASSUME NEW p \in Process, ScheduleRetry(p) \/ GiveUp(p) PROVE ServerInv'
    <3>1. SwapSucceeds(p) /\ proc[p] = "up"
      BY <2>8, <2>down DEF ServerInv, Attended, SwapSucceeds, ScheduleRetry, GiveUp
    <3>2. /\ proc' = proc
          /\ \A q \in Process \ {p} : pc'[q] = pc[q]
          /\ \/ pc'[p] = "head"
             \/ pc'[p] = "off" /\ row'.status = "FAILED"
      BY <2>0, <2>8, <3>1 DEF ScheduleRetry, GiveUp, Checkpointed
    <3>3. Attended(p)'
      BY <3>2 DEF Attended, Busy, Active
    <3> QED
      BY <2>0, <3>1, <3>2, <3>3, ServerStep
  <2>9. ASSUME NEW p \in Process, ReadForBinding(p) \/ BindContinuation(p) \/ ProviderEnds(p) PROVE ServerInv'
    <3>1. pc[p] = "turn" /\ proc[p] = "up"
      BY <2>0, <2>9 DEF ReadForBinding, BindContinuation, ProviderEnds, TypeOK, ControlOK
    <3>2. pc' = pc /\ proc' = proc
      BY <2>9 DEF ReadForBinding, BindContinuation, ProviderEnds
    <3> QED
      BY <2>2, <3>1, <3>2 DEF Busy
  <2>10. ASSUME NEW p \in Process, AnswerSteer(p) \/ AnswerInterrupt(p) PROVE ServerInv'
    <3>1. /\ pc' = pc /\ proc' = proc /\ row' = row /\ seen' = seen
          /\ \A q \in Process \ {p} : calls'[q] = calls[q]
      BY <2>0, <2>10 DEF AnswerSteer, AnswerInterrupt, Answered, durable
    <3>2. \E c \in calls[p] : c.answer = "pending"
      BY <2>10 DEF AnswerSteer, AnswerInterrupt
    <3>3. Attended(p)' /\ proc[p] = "up"
      BY <2>down, <3>1, <3>2 DEF ServerInv, Attended
    <3> QED
      BY <2>0, <3>1, <3>3, ServerStep
  <2>11. ASSUME NEW p \in Process,
                SteerReturns(p) \/ InterruptReturns(p) \/ StopReturns(p) \/ RefreshReturns(p)
         PROVE  ServerInv'
    <3>1. pc[p] \notin Busy /\ proc[p] = "up"
      BY <2>0, <2>11, RowKept DEF SteerReturns, InterruptReturns, StopReturns, RefreshReturns
    <3>2. /\ proc' = proc
          /\ \/ pc' = pc /\ (row'.status \in Active => row.status \in Active)
             \/ pc[p] = "off" /\ pc' = [pc EXCEPT ![p] = "boot"]
      BY <2>11, MovedFields, <2>0 DEF SteerReturns, InterruptReturns, StopReturns, RefreshReturns, PauseIfActive,
           RunIfActive, EnsureRunning, durable, Active, Status
    <3> QED
      BY <2>2, <3>1, <3>2 DEF ServerInv, Attended
  <2>12. ASSUME NEW p \in Process,
                SendBeat(p) \/ LandBeat(p) \/ LoseLease(p) \/ Steer(p) \/ Interrupt(p) \/ ChangeResource(p)
         PROVE  ServerInv'
    <3>1. CASE LandBeat(p)
      BY <2>1, <3>1 DEF LandBeat
    <3>2. CASE ~LandBeat(p)
      <4>1. pc[p] \notin Busy /\ proc[p] = "up" /\ proc' = proc
        BY <2>12, <3>2 DEF SendBeat, LoseLease, Steer, Interrupt, ChangeResource, LoopFree
      <4>2. \/ pc' = pc /\ (row'.status \in Active => row.status \in Active)
            \/ pc[p] = "off" /\ pc' = [pc EXCEPT ![p] = "boot"]
        BY <2>12, <3>2, MovedFields, <2>0 DEF SendBeat, LoseLease, Steer, Interrupt, ChangeResource,
             PauseIfActive, RunIfActive, EnsureRunning, durable, Active, Status
      <4> QED
        BY <2>2, <4>1, <4>2 DEF ServerInv, Attended
    <3> QED
      BY <3>1, <3>2
  <2>13. ASSUME NEW p \in Process, NEW action \in {"start", "resume"}, Launch(p, action) PROVE ServerInv'
    <3>1. /\ pc[p] \notin Busy /\ proc[p] = "up" /\ proc' = proc
          /\ \/ pc' = pc /\ pc[p] # "off"
             \/ pc[p] = "off" /\ pc' = [pc EXCEPT ![p] = "boot"]
      BY <2>13 DEF Launch, LoopFree, EnsureRunning
    <3> QED
      BY <2>2, <3>1
  <2>14. ASSUME NEW p \in Process, NEW action \in {"pause", "stop"}, Halt(p, action) PROVE ServerInv'
    <3>1. pc[p] \notin Busy /\ proc[p] = "up" /\ proc' = proc /\ pc' = pc
      BY <2>14 DEF Halt, LoopFree
    <3>2. row'.status \notin Active
      <4>1. CASE \E s \in Status : <<action, row.status, s>> \in PROJECT_TRANSITIONS /\ row' = Moved(row, s)
        <5>1. PICK s \in Status : <<action, row.status, s>> \in PROJECT_TRANSITIONS /\ row' = Moved(row, s)
          BY <4>1
        <5>2. s \in {"PAUSED", "STOPPED"}
          BY <2>14, <5>1 DEF PROJECT_TRANSITIONS
        <5> QED
          BY <2>0, <5>1, <5>2, MovedFields DEF Active
      <4>2. CASE <<action, row.status>> \in IDEMPOTENT /\ row' = row
        BY <2>14, <4>2 DEF IDEMPOTENT, Active
      <4> QED
        BY <2>14, <4>1, <4>2 DEF Halt, Transition
    <3> QED
      BY <2>2, <3>1, <3>2
  <2>15. ASSUME NEW p \in Process, ArchiveProject(p) PROVE ServerInv'
    <3>1. pc[p] \notin Busy /\ proc[p] = "up" /\ proc' = proc /\ pc' = pc
      BY <2>15 DEF ArchiveProject, LoopFree
    <3>2. row'.status \notin Active
      BY <2>0, <2>15, MovedFields DEF ArchiveProject, LifecycleInv, ArchivedIsStopped, Active, Status
    <3> QED
      BY <2>2, <3>1, <3>2
  <2>16. ASSUME WakeDue \/ LeaseExpires \/ UNCHANGED vars PROVE ServerInv'
    <3>1. pc' = pc /\ proc' = proc /\ calls' = calls /\ seen' = seen
      BY <2>16 DEF WakeDue, LeaseExpires, vars, durable, local
    <3>2. row'.version = row.version /\ row'.status = row.status
      BY <2>0, <2>16 DEF WakeDue, LeaseExpires, vars, durable, RowType
    <3> QED
      BY <2>1, <3>1, <3>2
  <2> QED
    BY <2>3, <2>4, <2>5, <2>6, <2>7, <2>8, <2>9, <2>10, <2>11, <2>12, <2>13, <2>14, <2>15, <2>16
       DEF Next, TaskStep, ProviderStep, CallStep, HeartbeatStep, HumanStep
<1> QED
  BY <1>1, <1>2, LifecycleInvariant, PTL DEF Spec

\* While one server at a time serves its users, a project that is to be run has
\* its task: no way a task ends leaves an active project with nobody to notice
\* (ensure_running, and every return and exception of _run_project).
THEOREM ActiveIsAttended ==
  ASSUME MaxUp <= 1
  PROVE  Spec => []ActiveHasLoop
<1>1. ServerInv => ActiveHasLoop
  BY DEF ServerInv, Attended, ActiveHasLoop
<1> QED
  BY <1>1, ServerInvariant, PTL

-----------------------------------------------------------------------------
(* Retries *)

\* The attempts a retry may have had by now: a crash and a resource change grant
\* one more each, a change whose flag is still up has not been used.
Slack == IF \E p \in Process : refresh[p] THEN 1 ELSE 0
Attempts == (RetryDelays + resources + Cardinality(Dead)) - Slack

FlagsInv ==
  /\ IsFiniteSet(Dead)
  /\ \A p \in Process :
       /\ refresh[p] => proc[p] = "up" /\ resources > 0
       /\ beat[p] # "none" => proc[p] = "up"
       /\ beat[p] = "claiming" => InTurn(p)
       /\ InTurn(p) => lease.owner = p
       /\ beat[p] # "refused" /\ ~lost[p]
       /\ pc[p] \in {"turn", "commit", "finish"} => turn[p].run = Len(runs)

\* Only a waiting project has a retry time.
WakeWaits == row.wake # "none" => row.status = "WAITING"

\* A failed turn of p is not accounted for yet.
Failing(p) ==
  pc[p] \in {"caught", "giveup"} \/ (pc[p] = "unwind" /\ turn[p].out \in Failure)

CountsInv ==
  /\ \A i \in DOMAIN runs : runs[i].retry <= Attempts
  /\ \A p \in Process : pc[p] \in {"claim", "snapshot"} => turn[p].retry <= Attempts
  /\ \A p \in Process : pc[p] = "reschedule" => NextRetryCount <= RetryDelays
  /\ row.wake # "none" /\ (\A p \in Process : ~Failing(p)) => NextRetryCount <= Attempts

LEMMA FlagsInvariant ==
  ASSUME MaxUp <= 1
  PROVE  Spec => []FlagsInv
<1>1. Init => FlagsInv
  <2> SUFFICES ASSUME Init PROVE FlagsInv
    OBVIOUS
  <2>1. Dead = {}
    BY DEF Init, Dead
  <2> QED
    BY <2>1, FS_EmptySet DEF Init, FlagsInv, InTurn
<1>2. LifecycleInv /\ LifecycleInv' /\ ServerInv /\ FlagsInv /\ [Next]_vars => FlagsInv'
  <2> SUFFICES ASSUME LifecycleInv, LifecycleInv', ServerInv, FlagsInv, [Next]_vars PROVE FlagsInv'
    OBVIOUS
  <2> DEFINE Flag(q) == refresh[q] => proc[q] = "up" /\ resources > 0
             Beat(q) == /\ beat[q] # "none" => proc[q] = "up"
                        /\ beat[q] = "claiming" => InTurn(q)
                        /\ beat[q] # "refused" /\ ~lost[q]
             Owns(q) == InTurn(q) => lease.owner = q
             Names(q) == AtWork(q) => turn[q].run = Len(runs)
  <2>0. /\ TypeOK /\ pc \in [Process -> PcType] /\ proc \in [Process -> ProcType]
        /\ turn \in [Process -> TurnType] /\ runs \in Seq(RunType) /\ resources \in Nat
        /\ refresh \in [Process -> BOOLEAN] /\ lost \in [Process -> BOOLEAN]
        /\ beat \in [Process -> BeatType]
    BY DEF LifecycleInv, TypeOK, TaskOK, CallsOK, DurableOK
  <2>1. /\ IsFiniteSet(Dead)
        /\ \A q \in Process : Flag(q) /\ Beat(q) /\ Owns(q) /\ Names(q)
    BY DEF FlagsInv, AtWork
  <2>2. ASSUME IsFiniteSet(Dead'), \A q \in Process : (Flag(q) /\ Beat(q) /\ Owns(q) /\ Names(q))'
        PROVE  FlagsInv'
    BY <2>2 DEF FlagsInv, AtWork
  <2>3. ASSUME Dead' = Dead PROVE IsFiniteSet(Dead')
    BY <2>1, <2>3
  \* Who is up is alone
  <2>4. \A p, q \in Process : proc[p] = "up" /\ p # q => proc[q] # "up" /\ pc[q] = "off"
    BY <2>0, OthersAreDown DEF ServerInv
  <2>5. \A q \in Process : pc[q] # "off" => proc[q] = "up"
    BY <2>0 DEF TypeOK, ControlOK
  \* Resources and their flags
  <2>6. \A q \in Process : Flag(q)'
    <3>1. ASSUME resources' = resources, proc' = proc, \A q \in Process : refresh'[q] => refresh[q]
          PROVE  \A q \in Process : Flag(q)'
      BY <2>1, <3>1
    <3>2. ASSUME NEW p \in Process, Start(p) \/ Crash(p) PROVE \A q \in Process : Flag(q)'
      BY <2>0, <2>1, <3>2 DEF Start, Crash, durable
    <3>3. ASSUME NEW p \in Process, ChangeResource(p) PROVE \A q \in Process : Flag(q)'
      <4>1. resources' = resources + 1 /\ proc' = proc /\ proc[p] = "up"
        BY <3>3 DEF ChangeResource, SetResource, LoopFree
      <4>2. \A q \in Process \ {p} : refresh'[q] = refresh[q]
        BY <2>0, <3>3 DEF ChangeResource
      <4> QED
        BY <2>0, <2>1, <4>1, <4>2
    <3>4. ASSUME NEW p \in Process, UnwindTurn(p) \/ HandleFailure(p) \/ RefreshReturns(p)
          PROVE  \A q \in Process : Flag(q)'
      <4>1. \A q \in Process : refresh'[q] => refresh[q]
        BY <2>0, <3>4 DEF UnwindTurn, HandleFailure, RefreshReturns
      <4> QED
        BY <3>1, <3>4, <4>1 DEF UnwindTurn, HandleFailure, RefreshReturns, durable
    <3>5. ASSUME NEW p \in Process, NEW action,
                 \/ EnterLoop(p) \/ LeaveLoop(p) \/ BeginTurn(p) \/ ClaimCoordinator(p) \/ SnapshotTurn(p)
                 \/ CollectFailure(p) \/ DiscardDecision(p) \/ CollectDecision(p) \/ CommitTurn(p)
                 \/ FinishCommitted(p) \/ ScheduleRetry(p) \/ GiveUp(p) \/ ReadForBinding(p)
                 \/ BindContinuation(p) \/ ProviderEnds(p) \/ AnswerSteer(p) \/ AnswerInterrupt(p)
                 \/ SteerReturns(p) \/ InterruptReturns(p) \/ StopReturns(p) \/ SendBeat(p) \/ LandBeat(p)
                 \/ LoseLease(p) \/ Launch(p, action) \/ Halt(p, action) \/ ArchiveProject(p) \/ Steer(p)
                 \/ Interrupt(p)
          PROVE  resources' = resources /\ proc' = proc /\ refresh' = refresh
      BY <3>5 DEF EnterLoop, LeaveLoop, BeginTurn, ClaimCoordinator, SnapshotTurn, CollectFailure,
           DiscardDecision, CollectDecision, CommitTurn, FinishCommitted, ScheduleRetry, GiveUp,
           ReadForBinding, BindContinuation, ProviderEnds, AnswerSteer, AnswerInterrupt, SteerReturns,
           InterruptReturns, StopReturns, SendBeat, LandBeat, LoseLease, Launch, Halt, ArchiveProject,
           Steer, Interrupt, durable
    <3>6. ASSUME WakeDue \/ LeaseExpires \/ UNCHANGED vars
          PROVE  resources' = resources /\ proc' = proc /\ refresh' = refresh
      BY <3>6 DEF WakeDue, LeaseExpires, vars, durable, local
    <3> QED
      BY <3>1, <3>2, <3>3, <3>4, <3>5, <3>6
         DEF Next, TaskStep, ProviderStep, CallStep, HeartbeatStep, HumanStep
  \* The dead are counted
  <2>7. IsFiniteSet(Dead')
    <3>1. ASSUME NEW p \in Process, Crash(p) PROVE IsFiniteSet(Dead')
      <4>1. Dead' = Dead \cup {p}
        BY <2>0, <3>1 DEF Crash, Dead
      <4>2. IsFiniteSet(Dead \cup {p})
        BY <2>1, FS_AddElement
      <4> QED
        BY <4>1, <4>2
    <3>2. ASSUME NEW p \in Process, Start(p) PROVE Dead' = Dead
      BY <2>0, <3>2 DEF Start, Dead
    <3>3. ASSUME proc' = proc PROVE Dead' = Dead
      BY <3>3 DEF Dead
    <3>4. \/ proc' = proc
          \/ \E p \in Process : Start(p) \/ Crash(p)
      <4>1. ASSUME NEW p \in Process, TaskStep(p) \/ ProviderStep(p) PROVE proc' = proc
        BY <4>1 DEF TaskStep, ProviderStep, EnterLoop, LeaveLoop, BeginTurn, ClaimCoordinator, SnapshotTurn,
             CollectFailure, DiscardDecision, CollectDecision, CommitTurn, FinishCommitted, UnwindTurn,
             HandleFailure, ScheduleRetry, GiveUp, ReadForBinding, BindContinuation, ProviderEnds
      <4>2. ASSUME NEW p \in Process, CallStep(p) \/ HeartbeatStep(p) PROVE proc' = proc
        BY <4>2 DEF CallStep, HeartbeatStep, AnswerSteer, AnswerInterrupt, SteerReturns, InterruptReturns,
             StopReturns, RefreshReturns, SendBeat, LandBeat, LoseLease
      <4>3. ASSUME NEW p \in Process, HumanStep(p) PROVE proc' = proc
        BY <4>3 DEF HumanStep, Launch, Halt, ArchiveProject, Steer, Interrupt, ChangeResource
      <4>4. ASSUME WakeDue \/ LeaseExpires \/ UNCHANGED vars PROVE proc' = proc
        BY <4>4 DEF WakeDue, LeaseExpires, vars
      <4> QED
        BY <4>1, <4>2, <4>3, <4>4 DEF Next
    <3> QED
      BY <2>3, <3>1, <3>2, <3>3, <3>4
  \* The heartbeat, the lease and the record of the turn
  <2>8. ASSUME pc' = pc, lease'.owner = lease.owner, beat' = beat, lost' = lost, proc' = proc, runs' = runs,
               \A q \in Process : turn'[q].run = turn[q].run
        PROVE  \A q \in Process : (Beat(q) /\ Owns(q) /\ Names(q))'
    BY <2>1, <2>8 DEF InTurn, AtWork
  \* Steps of a task that takes or gives up no lease and closes no record
  <2>9. ASSUME NEW p \in Process, proc[p] = "up", lease' = lease, beat' = beat, lost' = lost, proc' = proc,
               \A q \in Process \ {p} : pc'[q] = pc[q],
               InTurn(p)' <=> InTurn(p),
               AtWork(p)' => turn'[p].run = Len(runs')
        PROVE  \A q \in Process : (Beat(q) /\ Owns(q) /\ Names(q))'
    BY <2>1, <2>4, <2>9 DEF InTurn, AtWork
  <2>10. \A q \in Process : (Beat(q) /\ Owns(q) /\ Names(q))'
    <3>1. ASSUME NEW p \in Process, Start(p) PROVE \A q \in Process : (Beat(q) /\ Owns(q) /\ Names(q))'
      <4>1. \A q \in Process : proc[q] # "up"
        BY <3>1, StartsAlone DEF ServerInv, UpProcesses
      <4>2. \A q \in Process : pc'[q] \in {"off", "boot"} /\ beat'[q] = "none" /\ ~lost'[q]
        BY <2>0, <2>1, <2>5, <3>1, <4>1 DEF Start
      <4> QED
        BY <4>2 DEF InTurn, AtWork
    <3>2. ASSUME NEW p \in Process, Crash(p) PROVE \A q \in Process : (Beat(q) /\ Owns(q) /\ Names(q))'
      <4>1. \A q \in Process : pc'[q] = "off"
        BY <2>0, <2>4, <3>2 DEF Crash
      <4>2. beat'[p] = "none" /\ ~lost'[p] /\ \A q \in Process \ {p} : beat'[q] = beat[q] /\ lost'[q] = lost[q]
        BY <2>0, <3>2 DEF Crash
      <4>3. \A q \in Process \ {p} : beat[q] = "none"
        BY <2>0, <2>1, <2>4, <3>2 DEF Crash
      <4> QED
        BY <2>1, <4>1, <4>2, <4>3 DEF InTurn, AtWork
    <3>3. ASSUME NEW p \in Process,
                 \/ EnterLoop(p) \/ LeaveLoop(p) \/ BeginTurn(p) \/ HandleFailure(p) \/ ScheduleRetry(p)
                 \/ GiveUp(p)
          PROVE  \A q \in Process : (Beat(q) /\ Owns(q) /\ Names(q))'
      <4>1. /\ lease' = lease /\ beat' = beat /\ lost' = lost /\ proc' = proc
            /\ \A q \in Process \ {p} : pc'[q] = pc[q]
        BY <2>0, <3>3 DEF EnterLoop, LeaveLoop, BeginTurn, HandleFailure, ScheduleRetry, GiveUp, durable
      <4>2. pc[p] \in {"boot", "head", "caught", "reschedule", "giveup"}
        BY <3>3 DEF EnterLoop, LeaveLoop, BeginTurn, HandleFailure, ScheduleRetry, GiveUp
      <4>3. pc'[p] \in {"off", "head", "claim", "reschedule", "giveup"}
        BY <2>0, <3>3 DEF EnterLoop, LeaveLoop, BeginTurn, HandleFailure, ScheduleRetry, GiveUp
      <4> QED
        BY <2>5, <2>9, <4>1, <4>2, <4>3 DEF InTurn, AtWork
    <3>4. ASSUME NEW p \in Process, ClaimCoordinator(p) PROVE \A q \in Process : (Beat(q) /\ Owns(q) /\ Names(q))'
      <4>1. /\ beat' = beat /\ lost' = lost /\ proc' = proc /\ pc[p] = "claim"
            /\ \A q \in Process \ {p} : pc'[q] = pc[q]
            /\ \/ pc'[p] = "snapshot" /\ lease'.owner = p
               \/ pc'[p] = "head"
        BY <2>0, <3>4 DEF ClaimCoordinator
      <4>2. proc[p] = "up" /\ \A q \in Process \ {p} : pc[q] = "off"
        BY <2>4, <2>5, <4>1
      <4> QED
        BY <2>1, <4>1, <4>2 DEF InTurn, AtWork
    <3>5. ASSUME NEW p \in Process, SnapshotTurn(p) PROVE \A q \in Process : (Beat(q) /\ Owns(q) /\ Names(q))'
      <4>1. /\ lease' = lease /\ beat' = beat /\ lost' = lost /\ proc' = proc
            /\ pc[p] = "snapshot" /\ pc'[p] = "turn"
            /\ \A q \in Process \ {p} : pc'[q] = pc[q]
        BY <2>0, <3>5 DEF SnapshotTurn
      <4>2. turn'[p].run = Len(runs) + 1
        BY <2>0, <3>5 DEF SnapshotTurn, TurnType
      <4>3. Len(runs') = Len(runs) + 1
        BY <2>0, <3>5 DEF SnapshotTurn
      <4> QED
        BY <2>5, <2>9, <4>1, <4>2, <4>3 DEF InTurn
    <3>6. ASSUME NEW p \in Process,
                 \/ CollectFailure(p) \/ DiscardDecision(p) \/ CollectDecision(p) \/ CommitTurn(p)
                 \/ FinishCommitted(p)
          PROVE  \A q \in Process : (Beat(q) /\ Owns(q) /\ Names(q))'
      <4>1. /\ lease' = lease /\ beat' = beat /\ lost' = lost /\ proc' = proc
            /\ AtWork(p) /\ pc'[p] \in {"commit", "finish", "unwind"}
            /\ \A q \in Process \ {p} : pc'[q] = pc[q]
        BY <2>0, <3>6 DEF CollectFailure, DiscardDecision, CollectDecision, CommitTurn, FinishCommitted,
             AtWork, durable
      <4>2. pc'[p] \in {"commit", "finish"} => runs' = runs /\ turn'[p].run = turn[p].run
        <5>1. CASE CollectDecision(p)
          <6>1. [turn[p] EXCEPT !.messages = @ \cup live[p]].run = turn[p].run
            BY <2>0 DEF TurnType
          <6> QED
            BY <2>0, <5>1, <6>1 DEF CollectDecision, durable
        <5>2. CASE CommitTurn(p)
          <6>1. pc'[p] = "finish" => runs' = runs /\ turn' = [turn EXCEPT ![p].out = "committed"]
            BY <2>0, <5>2 DEF CommitTurn
          <6>2. pc'[p] # "commit"
            BY <2>0, <5>2 DEF CommitTurn
          <6> QED
            BY <2>0, <6>1, <6>2, OutcomeKeepsMessages
        <5>3. CASE CollectFailure(p) \/ DiscardDecision(p) \/ FinishCommitted(p)
          BY <2>0, <5>3 DEF CollectFailure, DiscardDecision, FinishCommitted
        <5> QED
          BY <3>6, <5>1, <5>2, <5>3
      <4>3. AtWork(p)' => turn'[p].run = Len(runs')
        BY <2>1, <4>1, <4>2 DEF AtWork
      <4> QED
        BY <2>5, <2>9, <4>1, <4>3 DEF InTurn, AtWork
    <3>7. ASSUME NEW p \in Process, UnwindTurn(p) PROVE \A q \in Process : (Beat(q) /\ Owns(q) /\ Names(q))'
      <4>1. /\ proc' = proc /\ pc[p] = "unwind" /\ pc'[p] \in {"caught", "head"}
            /\ beat'[p] \in {"orphan", "none"} /\ ~lost'[p]
            /\ \A q \in Process \ {p} : pc'[q] = pc[q] /\ beat'[q] = beat[q] /\ lost'[q] = lost[q]
        BY <2>0, <3>7 DEF UnwindTurn
      <4>2. proc[p] = "up" /\ \A q \in Process \ {p} : pc[q] = "off"
        BY <2>4, <2>5, <4>1
      <4> QED
        BY <2>1, <4>1, <4>2 DEF InTurn, AtWork
    <3>8. ASSUME NEW p \in Process, SendBeat(p) PROVE \A q \in Process : (Beat(q) /\ Owns(q) /\ Names(q))'
      BY <2>0, <2>1, <3>8 DEF SendBeat, LoopFree, InTurn, AtWork, durable
    <3>9. ASSUME NEW p \in Process, LandBeat(p) PROVE \A q \in Process : (Beat(q) /\ Owns(q) /\ Names(q))'
      <4>1. proc[p] = "up" /\ \A q \in Process \ {p} : pc[q] = "off"
        BY <2>1, <2>4, <3>9 DEF LandBeat
      <4>2. InTurn(p) => LeaseAvailable(p)
        BY <2>1 DEF LeaseAvailable
      <4>3. beat'[p] = "none" /\ \A q \in Process \ {p} : beat'[q] = beat[q]
        BY <2>0, <2>1, <3>9, <4>2 DEF LandBeat
      <4>4. InTurn(p) => lease'.owner = p
        BY <3>9, <4>2 DEF LandBeat
      <4>5. pc' = pc /\ proc' = proc /\ lost' = lost /\ turn' = turn /\ runs' = runs
        BY <3>9 DEF LandBeat
      <4> QED
        BY <2>1, <4>1, <4>3, <4>4, <4>5 DEF InTurn, AtWork
    <3>10. ASSUME NEW p \in Process, LoseLease(p) PROVE FALSE
      BY <2>1, <3>10 DEF LoseLease
    <3>11. ASSUME NEW p \in Process, ReadForBinding(p) \/ BindContinuation(p) \/ ProviderEnds(p)
           PROVE  \A q \in Process : (Beat(q) /\ Owns(q) /\ Names(q))'
      <4>1. turn' = turn \/ \E out : turn' = [turn EXCEPT ![p].out = out]
        BY <3>11 DEF ReadForBinding, BindContinuation, ProviderEnds
      <4>2. \A q \in Process : turn'[q].run = turn[q].run
        BY <2>0, <4>1, OutcomeKeepsMessages
      <4>3. pc' = pc /\ lease' = lease /\ beat' = beat /\ lost' = lost /\ proc' = proc /\ runs' = runs
        BY <3>11 DEF ReadForBinding, BindContinuation, ProviderEnds, durable
      <4> QED
        BY <2>8, <4>2, <4>3
    <3>12. ASSUME NEW p \in Process, NEW action,
                  \/ AnswerSteer(p) \/ AnswerInterrupt(p) \/ SteerReturns(p) \/ InterruptReturns(p)
                  \/ StopReturns(p) \/ RefreshReturns(p) \/ Launch(p, action) \/ Halt(p, action)
                  \/ ArchiveProject(p) \/ Steer(p) \/ Interrupt(p) \/ ChangeResource(p)
           PROVE  \A q \in Process : (Beat(q) /\ Owns(q) /\ Names(q))'
      <4>1. /\ lease' = lease /\ beat' = beat /\ lost' = lost /\ proc' = proc /\ runs' = runs /\ turn' = turn
            /\ pc' = pc \/ (pc[p] = "off" /\ pc' = [pc EXCEPT ![p] = "boot"])
        BY <3>12 DEF AnswerSteer, AnswerInterrupt, SteerReturns, InterruptReturns, StopReturns, RefreshReturns,
             Launch, Halt, ArchiveProject, Steer, Interrupt, ChangeResource, RunIfActive, EnsureRunning, durable
      <4>2. \A q \in Process : (InTurn(q)' <=> InTurn(q)) /\ (AtWork(q)' <=> AtWork(q))
        BY <2>0, <4>1 DEF InTurn, AtWork
      <4> QED
        BY <2>1, <4>1, <4>2
    <3>13. ASSUME WakeDue \/ LeaseExpires \/ UNCHANGED vars
           PROVE  \A q \in Process : (Beat(q) /\ Owns(q) /\ Names(q))'
      <4>1. /\ pc' = pc /\ beat' = beat /\ lost' = lost /\ proc' = proc /\ runs' = runs /\ turn' = turn
        BY <3>13 DEF WakeDue, LeaseExpires, vars, durable, local
      <4>2. lease'.owner = lease.owner
        BY <2>0, <3>13 DEF WakeDue, LeaseExpires, vars, durable, TypeOK, DurableOK
      <4> QED
        BY <2>8, <4>1, <4>2
    <3> QED
      BY <3>1, <3>2, <3>3, <3>4, <3>5, <3>6, <3>7, <3>8, <3>9, <3>10, <3>11, <3>12, <3>13
         DEF Next, TaskStep, ProviderStep, CallStep, HeartbeatStep, HumanStep
  <2> QED
    BY <2>2, <2>6, <2>7, <2>10
<1> QED
  BY <1>1, <1>2, LifecycleInvariant, ServerInvariant, PTL DEF Spec

\* Whoever writes the row clears its retry time, but for the retry itself.
LEMMA RowWake ==
  ASSUME TypeOK, [Next]_vars
  PROVE  \/ row' = row
         \/ row'.wake = "none"
         \/ WakeDue /\ row.wake = "future" /\ row'.wake = "due" /\ row'.status = row.status
         \/ \E p \in Process :
              ScheduleRetry(p) /\ SwapSucceeds(p) /\ row'.status = "WAITING" /\ row'.wake = "future"
<1>0. row \in RowType
  BY DEF TypeOK, DurableOK
<1>1. \A r, s : Moved(r, s).wake = "none"
  BY DEF Moved, Checkpointed
<1>2. ASSUME NEW p \in Process, BindContinuation(p) \/ CommitTurn(p) \/ GiveUp(p)
      PROVE  row' = row \/ row'.wake = "none"
  BY <1>2 DEF BindContinuation, CommitTurn, GiveUp, Checkpointed
<1>3. ASSUME NEW p \in Process, ScheduleRetry(p)
      PROVE  row' = row \/ (SwapSucceeds(p) /\ row'.status = "WAITING" /\ row'.wake = "future")
  BY <1>3 DEF ScheduleRetry, Checkpointed
<1>4. ASSUME NEW p \in Process, NEW action,
             \/ Launch(p, action) \/ Halt(p, action) \/ ArchiveProject(p) \/ Interrupt(p) \/ InterruptReturns(p)
      PROVE  row' = row \/ row'.wake = "none"
  BY <1>1, <1>4 DEF Launch, Halt, Transition, ArchiveProject, Interrupt, InterruptReturns, PauseIfActive
<1>5. ASSUME NEW p \in Process,
             \/ Start(p) \/ Crash(p) \/ EnterLoop(p) \/ LeaveLoop(p) \/ BeginTurn(p) \/ ClaimCoordinator(p)
             \/ SnapshotTurn(p) \/ CollectFailure(p) \/ DiscardDecision(p) \/ CollectDecision(p)
             \/ FinishCommitted(p) \/ UnwindTurn(p) \/ HandleFailure(p) \/ ReadForBinding(p) \/ ProviderEnds(p)
             \/ AnswerSteer(p) \/ AnswerInterrupt(p) \/ SteerReturns(p) \/ StopReturns(p) \/ RefreshReturns(p)
             \/ SendBeat(p) \/ LandBeat(p) \/ LoseLease(p) \/ Steer(p) \/ ChangeResource(p)
      PROVE  row' = row
  BY <1>5 DEF Start, Crash, EnterLoop, LeaveLoop, BeginTurn, ClaimCoordinator, SnapshotTurn, CollectFailure,
       DiscardDecision, CollectDecision, FinishCommitted, UnwindTurn, HandleFailure, ReadForBinding,
       ProviderEnds, AnswerSteer, AnswerInterrupt, SteerReturns, StopReturns, RefreshReturns, SendBeat,
       LandBeat, LoseLease, Steer, ChangeResource, durable
<1>6. ASSUME WakeDue
      PROVE  row.wake = "future" /\ row'.wake = "due" /\ row'.status = row.status
  BY <1>0, <1>6 DEF WakeDue, RowType
<1>7. ASSUME LeaseExpires \/ UNCHANGED vars PROVE row' = row
  BY <1>7 DEF LeaseExpires, vars, durable
<1> QED
  BY <1>2, <1>3, <1>4, <1>5, <1>6, <1>7
     DEF Next, TaskStep, ProviderStep, CallStep, HeartbeatStep, HumanStep

LEMMA WakeInvariant == Spec => []WakeWaits
<1>1. Init => WakeWaits
  BY DEF Init, WakeWaits, NewRow
<1>2. TypeOK /\ WakeWaits /\ [Next]_vars => WakeWaits'
  BY RowWake DEF WakeWaits
<1> QED
  BY <1>1, <1>2, TypeCorrect, PTL DEF Spec

\* The attempts are a number, no less than the policy's, and never become fewer.
LEMMA AttemptsType ==
  ASSUME TypeOK, FlagsInv
  PROVE  /\ Attempts \in Nat /\ RetryDelays \in Nat /\ RetryDelays <= Attempts
         /\ Cardinality(Dead) \in Nat /\ Slack \in {0, 1} /\ resources \in Nat
         /\ Attempts <= RetryDelays + resources + Cardinality(Dead)
<1>1. Cardinality(Dead) \in Nat
  BY FS_CardinalityType DEF FlagsInv
<1>2. resources \in Nat /\ RetryDelays \in Nat
  BY ConstantsOK DEF TypeOK, DurableOK
<1>3. Slack \in {0, 1} /\ Slack <= resources
  BY <1>2 DEF Slack, FlagsInv
<1> QED
  BY <1>1, <1>2, <1>3 DEF Attempts

LEMMA AttemptsTypeNext ==
  ASSUME TypeOK', FlagsInv'
  PROVE  Attempts' \in Nat /\ RetryDelays <= Attempts'
<1>1. Cardinality(Dead') \in Nat
  BY FS_CardinalityType DEF FlagsInv
<1>2. resources' \in Nat /\ RetryDelays \in Nat
  BY ConstantsOK DEF TypeOK, DurableOK
<1>3. Slack' \in {0, 1} /\ Slack' <= resources'
  BY <1>2 DEF Slack, FlagsInv
<1> QED
  BY <1>1, <1>2, <1>3 DEF Attempts

LEMMA AttemptsKept ==
  ASSUME TypeOK, FlagsInv, Dead' = Dead,
         \/ resources' = resources /\ \A p \in Process : refresh'[p] => refresh[p]
         \/ resources' = resources + 1
  PROVE  Attempts' \in Nat /\ Attempts <= Attempts'
<1>1. Slack' \in {0, 1}
  BY DEF Slack
<1>2. resources' = resources => Slack' <= Slack
  <2>1. resources \in Nat
    BY DEF TypeOK, DurableOK
  <2> QED
    BY <2>1 DEF Slack
<1> QED
  BY <1>1, <1>2, AttemptsType DEF Attempts

\* The count of a next retry is one more than the retries so far.
LEMMA NextCountBound ==
  ASSUME runs \in Seq(RunType), NEW n \in Nat, \A i \in DOMAIN runs : runs[i].retry <= n
  PROVE  NextRetryCount \in Nat /\ NextRetryCount <= n + 1
<1>1. NextRetryCount \in Nat
  BY RetryCountType
<1>2. CASE runs # <<>>
  <2>1. Len(runs) \in DOMAIN runs /\ runs[Len(runs)] \in RunType
    BY <1>2, EmptySeq, ElementOfSeq, LenProperties
  <2>2. runs[Len(runs)].retry \in Nat
    BY <2>1 DEF RunType
  <2> QED
    BY <1>1, <2>1, <2>2 DEF NextRetryCount
<1> QED
  BY <1>1, <1>2 DEF NextRetryCount

LEMMA CountsInvariant ==
  ASSUME MaxUp <= 1
  PROVE  Spec => []CountsInv
<1>1. Init => CountsInv
  BY DEF Init, CountsInv, NewRow
<1>2. /\ LifecycleInv /\ LifecycleInv' /\ ServerInv /\ FlagsInv /\ FlagsInv' /\ WakeWaits /\ WakeWaits'
      /\ CountsInv /\ [Next]_vars
      => CountsInv'
  <2> SUFFICES ASSUME LifecycleInv, LifecycleInv', ServerInv, FlagsInv, FlagsInv', WakeWaits, WakeWaits',
                      CountsInv, [Next]_vars
               PROVE  CountsInv'
    OBVIOUS
  <2>0. /\ TypeOK /\ TypeOK' /\ pc \in [Process -> PcType] /\ proc \in [Process -> ProcType]
        /\ turn \in [Process -> TurnType] /\ runs \in Seq(RunType) /\ runs' \in Seq(RunType)
        /\ resources \in Nat /\ refresh \in [Process -> BOOLEAN] /\ row \in RowType
    BY DEF LifecycleInv, TypeOK, TaskOK, CallsOK, DurableOK
  <2>1. /\ Attempts \in Nat /\ RetryDelays \in Nat /\ RetryDelays <= Attempts
        /\ Attempts' \in Nat /\ RetryDelays <= Attempts'
    BY <2>0, AttemptsType, AttemptsTypeNext
  <2>2. \A p, q \in Process : proc[p] = "up" /\ p # q => proc[q] # "up" /\ pc[q] = "off"
    BY <2>0, OthersAreDown DEF ServerInv
  <2>3. \A q \in Process : pc[q] # "off" => proc[q] = "up"
    BY <2>0 DEF TypeOK, ControlOK
  <2>4. /\ NextRetryCount \in Nat /\ NextRetryCount <= Attempts + 1
        /\ \A i \in DOMAIN runs : runs[i].retry \in Nat
    <3>1. \A i \in DOMAIN runs : runs[i] \in RunType
      BY <2>0, ElementOfSeq, LenProperties
    <3> QED
      BY <2>0, <2>1, <3>1, NextCountBound DEF CountsInv, RunType
  \* Steps that leave the records and the counts alone
  <2>5. ASSUME runs' = runs, Attempts <= Attempts',
               \A q \in Process : pc'[q] \in {"claim", "snapshot"} =>
                 pc[q] \in {"claim", "snapshot"} /\ turn'[q] = turn[q],
               \A q \in Process : pc'[q] = "reschedule" => pc[q] = "reschedule",
               row'.wake # "none" => row.wake # "none" /\ \A q \in Process : Failing(q) => Failing(q)'
        PROVE  CountsInv'
    <3>1. NextRetryCount' = NextRetryCount
      BY <2>5 DEF NextRetryCount
    <3>2. \A i \in DOMAIN runs' : runs'[i].retry <= Attempts'
      BY <2>1, <2>4, <2>5 DEF CountsInv
    <3>3. \A q \in Process : pc'[q] \in {"claim", "snapshot"} => turn'[q].retry <= Attempts'
      <4>1. \A q \in Process : turn[q].retry \in Nat
        BY <2>0 DEF TurnType
      <4> QED
        BY <2>1, <2>5, <4>1 DEF CountsInv
    <3>4. \A q \in Process : pc'[q] = "reschedule" => NextRetryCount' <= RetryDelays
      BY <2>5, <3>1 DEF CountsInv
    <3>5. row'.wake # "none" /\ (\A q \in Process : ~Failing(q)') => NextRetryCount' <= Attempts'
      BY <2>1, <2>4, <2>5, <3>1 DEF CountsInv
    <3> QED
      BY <3>2, <3>3, <3>4, <3>5 DEF CountsInv
  \* The same of the one server
  <2>6. ASSUME NEW p \in Process, proc[p] = "up", runs' = runs, Attempts <= Attempts',
               \A q \in Process \ {p} : pc'[q] = pc[q],
               pc'[p] \in {"claim", "snapshot"} => pc[p] \in {"claim", "snapshot"} /\ turn'[p] = turn[p],
               pc'[p] # "reschedule",
               row'.wake # "none" => row.wake # "none" /\ (Failing(p) => Failing(p)')
        PROVE  CountsInv'
    <3>1. \A q \in Process \ {p} : pc'[q] = "off" /\ ~Failing(q)
      BY <2>2, <2>6 DEF Failing
    <3>2. /\ \A q \in Process : pc'[q] \in {"claim", "snapshot"} =>
               pc[q] \in {"claim", "snapshot"} /\ turn'[q] = turn[q]
          /\ \A q \in Process : pc'[q] = "reschedule" => pc[q] = "reschedule"
          /\ row'.wake # "none" => row.wake # "none" /\ \A q \in Process : Failing(q) => Failing(q)'
      BY <2>6, <3>1
    <3> QED
      BY <2>5, <2>6, <3>2
  \* Steps that close the record of the turn
  <2>7. ASSUME NEW p \in Process, NEW status \in RunStatus \ {"RUNNING"}, AtWork(p),
               FinishRun(p, status), Attempts <= Attempts',
               \A q \in Process \ {p} : pc'[q] = pc[q],
               pc'[p] = "unwind",
               status = "FAILED" => turn'[p].out \in Failure
        PROVE  CountsInv'
    <3>1. proc[p] = "up" /\ turn[p].run = Len(runs)
      BY <2>3, <2>7 DEF FlagsInv, AtWork
    <3>2. /\ DOMAIN runs' = DOMAIN runs
          /\ \A i \in DOMAIN runs : runs'[i].retry = runs[i].retry
          /\ runs'[Len(runs)].status = status
      BY <2>0, <2>7, <3>1, ClosedRecord
    <3>3. \A i \in DOMAIN runs' : runs'[i].retry <= Attempts'
      BY <2>1, <2>4, <2>7, <3>2 DEF CountsInv
    <3>4. \A q \in Process : pc'[q] \in {"off", "unwind"}
      BY <2>2, <2>7, <3>1
    <3>5. status # "FAILED" => NextRetryCount' = 0
      <4>1. Len(runs') = Len(runs)
        BY <2>0, <3>2, LenProperties
      <4> QED
        BY <3>2, <4>1 DEF NextRetryCount
    <3>6. status = "FAILED" => Failing(p)'
      BY <2>7 DEF Failing
    <3> QED
      BY <2>1, <3>3, <3>4, <3>5, <3>6 DEF CountsInv
  <2>8. ASSUME proc' = proc,
               \/ resources' = resources /\ \A q \in Process : refresh'[q] => refresh[q]
               \/ resources' = resources + 1
        PROVE  Attempts <= Attempts'
    <3>1. Dead' = Dead
      BY <2>8 DEF Dead
    <3> QED
      BY <2>0, <2>8, <3>1, AttemptsKept
  <2>9. ASSUME row' = row \/ row'.wake = "none" \/ WakeDue PROVE row'.wake # "none" => row.wake # "none"
    BY <2>9 DEF WakeDue
  <2>10. ASSUME NEW p \in Process, Start(p) PROVE CountsInv'
    <3>1. \A q \in Process : pc[q] = "off" /\ pc'[q] \in {"off", "boot"}
      BY <2>0, <2>3, <2>10, StartsAlone DEF ServerInv, UpProcesses, Start
    <3>2. runs' = runs /\ row' = row /\ resources' = resources /\ refresh' = refresh
      BY <2>10 DEF Start, durable
    <3>3. Dead' = Dead
      BY <2>0, <2>10 DEF Start, Dead
    <3>4. Attempts <= Attempts'
      BY <2>0, <3>2, <3>3, AttemptsKept
    <3> QED
      BY <2>5, <3>1, <3>2, <3>4 DEF Failing
  <2>11. ASSUME NEW p \in Process, Crash(p) PROVE CountsInv'
    <3>1. /\ runs' = runs /\ row' = row /\ resources' = resources
          /\ Dead' = Dead \cup {p} /\ p \notin Dead
      BY <2>0, <2>11 DEF Crash, durable, Dead
    <3>2. \A q \in Process : pc'[q] = "off"
      BY <2>0, <2>2, <2>11 DEF Crash
    <3>3. \A q \in Process : ~refresh'[q]
      BY <2>0, <2>2, <2>11 DEF Crash, FlagsInv
    <3>4. Cardinality(Dead') = Cardinality(Dead) + 1
      <4>1. Cardinality(Dead \cup {p}) = Cardinality(Dead) + 1
        BY <3>1, FS_AddElement DEF FlagsInv
      <4> QED
        BY <3>1, <4>1
    <3>5. Slack' = 0
      BY <3>3 DEF Slack
    <3>6. Attempts + 1 <= Attempts'
      BY <2>0, <3>1, <3>4, <3>5, AttemptsType DEF Attempts
    <3>7. NextRetryCount' = NextRetryCount
      BY <3>1 DEF NextRetryCount
    <3>8. \A i \in DOMAIN runs' : runs'[i].retry <= Attempts'
      BY <2>1, <2>4, <3>1, <3>6 DEF CountsInv
    <3>9. NextRetryCount' <= Attempts'
      BY <2>1, <2>4, <3>6, <3>7
    <3> QED
      BY <3>2, <3>8, <3>9 DEF CountsInv
  <2>12. ASSUME NEW p \in Process, BeginTurn(p) PROVE CountsInv'
    <3>1. /\ runs' = runs /\ row' = row /\ proc' = proc /\ resources' = resources /\ refresh' = refresh
          /\ pc[p] = "head" /\ pc'[p] = "claim" /\ \A q \in Process \ {p} : pc'[q] = pc[q]
      BY <2>0, <2>12 DEF BeginTurn, durable
    <3>2. \A q \in Process : ~Failing(q) /\ (q # p => pc'[q] = "off")
      BY <2>2, <2>3, <3>1 DEF Failing
    <3>3. NextRetryCount' = NextRetryCount /\ Attempts <= Attempts'
      BY <2>8, <3>1 DEF NextRetryCount
    <3>4. row.wake # "none" => NextRetryCount <= Attempts
      BY <3>2 DEF CountsInv
    <3>5. turn'[p].retry = IF row.wake = "due" THEN NextRetryCount ELSE 0
      BY <2>0, <2>12 DEF BeginTurn, NoTurn
    <3>6. turn'[p].retry <= Attempts'
      BY <2>1, <2>4, <3>3, <3>4, <3>5
    <3>7. \A i \in DOMAIN runs' : runs'[i].retry <= Attempts'
      BY <2>1, <2>4, <3>1, <3>3 DEF CountsInv
    <3>8. row'.wake # "none" => NextRetryCount' <= Attempts'
      BY <2>1, <2>4, <3>1, <3>3, <3>4
    <3> QED
      BY <3>1, <3>2, <3>6, <3>7, <3>8 DEF CountsInv
  <2>13. ASSUME NEW p \in Process, SnapshotTurn(p) PROVE CountsInv'
    <3> DEFINE r == [status |-> "RUNNING", retry |-> turn[p].retry]
    <3>1. /\ runs' = Append(runs, r) /\ r.retry = turn[p].retry /\ r.status = "RUNNING"
          /\ proc' = proc /\ resources' = resources /\ refresh' = refresh
          /\ pc[p] = "snapshot" /\ pc'[p] = "turn" /\ \A q \in Process \ {p} : pc'[q] = pc[q]
      BY <2>0, <2>13 DEF SnapshotTurn
    <3> HIDE DEF r
    <3>2. Attempts <= Attempts' /\ turn[p].retry <= Attempts /\ turn[p].retry \in Nat
      BY <2>0, <2>8, <3>1 DEF CountsInv, TurnType
    <3>3. /\ Len(runs') = Len(runs) + 1 /\ runs'[Len(runs')] = r /\ runs' # <<>>
          /\ \A i \in DOMAIN runs' : runs'[i] = r \/ (i \in DOMAIN runs /\ runs'[i] = runs[i])
      BY <2>0, <3>1
    <3>4. \A i \in DOMAIN runs' : runs'[i].retry <= Attempts'
      BY <2>1, <2>4, <3>1, <3>2, <3>3 DEF CountsInv
    <3>5. NextRetryCount' = 0
      BY <3>1, <3>3 DEF NextRetryCount
    <3>6. \A q \in Process : pc'[q] \in {"off", "turn"}
      BY <2>2, <2>3, <3>1
    <3> QED
      BY <2>1, <3>4, <3>5, <3>6 DEF CountsInv
  <2>14. ASSUME NEW p \in Process, CollectFailure(p) \/ DiscardDecision(p) \/ FinishCommitted(p) PROVE CountsInv'
    <3>1. /\ proc' = proc /\ resources' = resources /\ refresh' = refresh /\ AtWork(p) /\ pc'[p] = "unwind"
          /\ \A q \in Process \ {p} : pc'[q] = pc[q]
      BY <2>0, <2>14 DEF CollectFailure, DiscardDecision, FinishCommitted, AtWork
    <3>2. PICK status \in RunStatus \ {"RUNNING"} :
            FinishRun(p, status) /\ (status = "FAILED" => turn'[p].out \in Failure)
      <4>1. CASE CollectFailure(p)
        BY <4>1 DEF CollectFailure, RaisedStatus, RunStatus
      <4>2. CASE DiscardDecision(p)
        <5>1. ~lost[p]
          BY DEF FlagsInv
        <5> QED
          BY <4>2, <5>1 DEF DiscardDecision, RunStatus
      <4>3. CASE FinishCommitted(p)
        BY <4>3 DEF FinishCommitted, RunStatus
      <4> QED
        BY <2>14, <4>1, <4>2, <4>3
    <3> QED
      BY <2>7, <2>8, <3>1, <3>2
  <2>15. ASSUME NEW p \in Process, CommitTurn(p) PROVE CountsInv'
    <3>1. /\ proc' = proc /\ resources' = resources /\ refresh' = refresh /\ AtWork(p) /\ proc[p] = "up"
          /\ \A q \in Process \ {p} : pc'[q] = pc[q]
      BY <2>0, <2>3, <2>15 DEF CommitTurn, AtWork
    <3>2. CASE SwapSucceeds(p)
      <4>1. row'.wake = "none" /\ runs' = runs /\ pc'[p] = "finish"
        BY <2>0, <2>15, <3>2 DEF CommitTurn, Checkpointed
      <4> QED
        BY <2>6, <2>8, <3>1, <4>1
    <3>3. CASE ~SwapSucceeds(p)
      <4>1. /\ RaisedStatus \in RunStatus \ {"RUNNING"} /\ FinishRun(p, RaisedStatus)
            /\ pc'[p] = "unwind" /\ turn' = [turn EXCEPT ![p].out = "fatal"]
        BY <2>0, <2>15, <3>3 DEF CommitTurn, RaisedStatus, RunStatus
      <4>2. turn'[p].out = "fatal"
        BY <2>0, <4>1 DEF TurnType
      <4> QED
        BY <2>7, <2>8, <3>1, <4>1, <4>2 DEF Failure
    <3> QED
      BY <3>2, <3>3
  <2>16. ASSUME NEW p \in Process, HandleFailure(p) PROVE CountsInv'
    <3>1. /\ runs' = runs /\ row' = row /\ proc' = proc /\ resources' = resources
          /\ pc[p] = "caught" /\ proc[p] = "up" /\ \A q \in Process \ {p} : pc'[q] = pc[q]
      BY <2>0, <2>3, <2>16 DEF HandleFailure, durable
    <3>2. \A q \in Process : refresh'[q] => refresh[q]
      BY <2>0, <2>16 DEF HandleFailure
    <3>3. \A q \in Process \ {p} : pc'[q] = "off" /\ ~refresh[q]
      BY <2>2, <3>1 DEF FlagsInv
    <3>4. Attempts <= Attempts' /\ NextRetryCount' = NextRetryCount
      BY <2>8, <3>1, <3>2 DEF NextRetryCount
    <3>5. \A i \in DOMAIN runs' : runs'[i].retry <= Attempts'
      BY <2>1, <2>4, <3>1, <3>4 DEF CountsInv
    <3>6. pc'[p] \in {"off", "head", "reschedule", "giveup"}
      BY <2>0, <2>16 DEF HandleFailure
    <3>7. pc'[p] = "reschedule" => NextRetryCount <= RetryDelays
      BY <2>0, <2>16 DEF HandleFailure, RetryAllowed
    <3>8. row'.wake # "none" /\ ~Failing(p)' => NextRetryCount' <= Attempts'
      <4>1. CASE row.status \notin Active
        BY <3>1, <4>1 DEF WakeWaits, Active
      <4>2. CASE row.status \in Active /\ refresh[p]
        <5>1. \A q \in Process : ~refresh'[q]
          BY <2>0, <2>16, <3>3 DEF HandleFailure
        <5>2. Slack = 1 /\ Slack' = 0
          BY <4>2, <5>1 DEF Slack
        <5>3. Dead' = Dead
          BY <3>1 DEF Dead
        <5>4. Attempts + 1 <= Attempts'
          BY <2>0, <3>1, <5>2, <5>3, AttemptsType DEF Attempts
        <5> QED
          BY <2>1, <2>4, <3>4, <5>4
      <4>3. CASE row.status \in Active /\ ~refresh[p]
        <5>1. pc'[p] \in {"reschedule", "giveup"}
          BY <2>0, <2>16, <4>3 DEF HandleFailure, Active, Halted
        <5> QED
          BY <2>1, <2>4, <3>4, <3>7, <5>1 DEF Failing
      <4> QED
        BY <4>1, <4>2, <4>3
    <3> QED
      BY <3>3, <3>4, <3>5, <3>6, <3>7, <3>8 DEF CountsInv
  <2>17. ASSUME NEW p \in Process, ScheduleRetry(p) \/ GiveUp(p) PROVE CountsInv'
    <3>1. /\ runs' = runs /\ proc' = proc /\ resources' = resources /\ refresh' = refresh
          /\ pc[p] \in {"reschedule", "giveup"} /\ pc'[p] \in {"head", "off"}
          /\ \A q \in Process \ {p} : pc'[q] = pc[q]
      BY <2>0, <2>17 DEF ScheduleRetry, GiveUp
    <3>2. proc[p] = "up" /\ Attempts <= Attempts' /\ SwapSucceeds(p)
      BY <2>3, <2>8, <3>1 DEF ServerInv, Attended, SwapSucceeds
    <3>3. CASE GiveUp(p)
      <4>1. row'.wake = "none"
        BY <3>2, <3>3 DEF GiveUp, Checkpointed
      <4> QED
        BY <2>6, <3>1, <3>2, <4>1
    <3>4. CASE ScheduleRetry(p)
      <4>1. NextRetryCount' = NextRetryCount /\ NextRetryCount <= RetryDelays
        BY <3>1, <3>4 DEF ScheduleRetry, NextRetryCount, CountsInv
      <4>2. \A i \in DOMAIN runs' : runs'[i].retry <= Attempts'
        BY <2>1, <2>4, <3>1, <3>2 DEF CountsInv
      <4>3. \A q \in Process : pc'[q] \in {"head", "off"}
        BY <2>2, <3>1, <3>2
      <4> QED
        BY <2>1, <2>4, <4>1, <4>2, <4>3 DEF CountsInv
    <3> QED
      BY <2>17, <3>3, <3>4
  <2>18. ASSUME NEW p \in Process, UnwindTurn(p) PROVE CountsInv'
    <3>1. /\ runs' = runs /\ row' = row /\ proc' = proc /\ resources' = resources
          /\ \A q \in Process : refresh'[q] => refresh[q]
      BY <2>0, <2>18 DEF UnwindTurn
    <3>2. pc[p] = "unwind" /\ pc'[p] \in {"caught", "head"} /\ \A q \in Process \ {p} : pc'[q] = pc[q]
      BY <2>0, <2>18 DEF UnwindTurn
    <3>3. Failing(p) => Failing(p)'
      BY <2>0, <2>18 DEF UnwindTurn, Failing
    <3> QED
      BY <2>3, <2>6, <2>8, <3>1, <3>2, <3>3
  <2>19. ASSUME NEW p \in Process,
                EnterLoop(p) \/ LeaveLoop(p) \/ ClaimCoordinator(p) \/ CollectDecision(p)
         PROVE  CountsInv'
    <3>1. /\ runs' = runs /\ row' = row /\ proc' = proc /\ resources' = resources /\ refresh' = refresh
          /\ pc[p] \in {"boot", "head", "claim", "turn"}
          /\ pc'[p] \in {"head", "off", "snapshot", "commit"}
          /\ \A q \in Process \ {p} : pc'[q] = pc[q]
      BY <2>0, <2>19 DEF EnterLoop, LeaveLoop, ClaimCoordinator, CollectDecision, durable
    <3>2. pc'[p] = "snapshot" => pc[p] = "claim" /\ turn' = turn
      BY <2>0, <2>19 DEF EnterLoop, LeaveLoop, ClaimCoordinator, CollectDecision
    <3>3. ~Failing(p) /\ Attempts <= Attempts' /\ proc[p] = "up"
      BY <2>3, <2>8, <3>1 DEF Failing
    <3> QED
      BY <2>6, <3>1, <3>2, <3>3
  <2>20. ASSUME NEW p \in Process, ReadForBinding(p) \/ BindContinuation(p) \/ ProviderEnds(p) PROVE CountsInv'
    <3>1. /\ runs' = runs /\ proc' = proc /\ resources' = resources /\ refresh' = refresh /\ pc' = pc
      BY <2>20 DEF ReadForBinding, BindContinuation, ProviderEnds, durable
    <3>2. pc[p] = "turn" /\ proc[p] = "up"
      BY <2>0, <2>20 DEF ReadForBinding, BindContinuation, ProviderEnds, TypeOK, ControlOK
    <3>3. row' = row \/ row'.wake = "none"
      BY <2>20 DEF ReadForBinding, BindContinuation, ProviderEnds, durable, Checkpointed
    <3> QED
      BY <2>6, <2>8, <3>1, <3>2, <3>3 DEF Failing
  <2>21. ASSUME NEW p \in Process, NEW action,
                \/ AnswerSteer(p) \/ AnswerInterrupt(p) \/ SteerReturns(p) \/ InterruptReturns(p)
                \/ StopReturns(p) \/ RefreshReturns(p) \/ SendBeat(p) \/ LandBeat(p) \/ LoseLease(p)
                \/ Launch(p, action) \/ Halt(p, action) \/ ArchiveProject(p) \/ Steer(p) \/ Interrupt(p)
                \/ ChangeResource(p)
         PROVE  CountsInv'
    <3>1. /\ runs' = runs /\ proc' = proc /\ turn' = turn
          /\ pc' = pc \/ (pc[p] = "off" /\ pc' = [pc EXCEPT ![p] = "boot"])
      BY <2>21 DEF AnswerSteer, AnswerInterrupt, SteerReturns, InterruptReturns, StopReturns, RefreshReturns,
           SendBeat, LandBeat, LoseLease, Launch, Halt, ArchiveProject, Steer, Interrupt, ChangeResource,
           RunIfActive, EnsureRunning, durable
    <3>2. \/ resources' = resources /\ \A q \in Process : refresh'[q] => refresh[q]
          \/ resources' = resources + 1
      BY <2>0, <2>21 DEF AnswerSteer, AnswerInterrupt, SteerReturns, InterruptReturns, StopReturns,
           RefreshReturns, SendBeat, LandBeat, LoseLease, Launch, Halt, ArchiveProject, Steer, Interrupt,
           ChangeResource, SetResource, durable
    <3>3. row' = row \/ row'.wake = "none"
      <4>1. \A r, s : Moved(r, s).wake = "none"
        BY DEF Moved, Checkpointed
      <4> QED
        BY <2>21, <4>1 DEF AnswerSteer, AnswerInterrupt, SteerReturns, InterruptReturns, StopReturns,
           RefreshReturns, SendBeat, LandBeat, LoseLease, Launch, Halt, Transition, ArchiveProject, Steer,
           Interrupt, PauseIfActive, ChangeResource, durable
    <3>4. /\ \A q \in Process : pc'[q] = pc[q] \/ (pc[q] = "off" /\ pc'[q] = "boot")
          /\ Attempts <= Attempts'
      BY <2>0, <2>8, <3>1, <3>2
    <3> QED
      BY <2>5, <3>1, <3>3, <3>4 DEF Failing
  <2>22. ASSUME WakeDue \/ LeaseExpires \/ UNCHANGED vars PROVE CountsInv'
    <3>1. /\ runs' = runs /\ proc' = proc /\ turn' = turn /\ pc' = pc
          /\ resources' = resources /\ refresh' = refresh
          /\ row' = row \/ WakeDue
      BY <2>22 DEF WakeDue, LeaseExpires, vars, durable, local
    <3> QED
      BY <2>5, <2>8, <2>9, <3>1 DEF Failing
  <2> QED
    BY <2>10, <2>11, <2>12, <2>13, <2>14, <2>15, <2>16, <2>17, <2>18, <2>19, <2>20, <2>21, <2>22
       DEF Next, TaskStep, ProviderStep, CallStep, HeartbeatStep, HumanStep
<1> QED
  BY <1>1, <1>2, LifecycleInvariant, ServerInvariant, FlagsInvariant, WakeInvariant, PTL DEF Spec

\* A retry is bounded: while one server at a time runs the project, an attempt is
\* one of the policy's or stands for a crash or a change of resources, however
\* these interleave with the failure and its checkpoints (the failure
\* branch of _run_project, next_retry_count, finish_run).
THEOREM RetriesAreBounded ==
  ASSUME MaxUp <= 1
  PROVE  Spec => []RetryBounded
<1>1. TypeOK /\ FlagsInv /\ CountsInv => RetryBounded
  <2> SUFFICES ASSUME TypeOK, FlagsInv, CountsInv, NEW i \in DOMAIN runs
               PROVE  runs[i].retry <= RetryDelays + resources + Cardinality(Dead)
    BY DEF RetryBounded, Dead
  <2>1. runs[i] \in RunType
    BY ElementOfSeq, LenProperties DEF TypeOK, DurableOK
  <2>2. runs[i].retry \in Nat /\ runs[i].retry <= Attempts
    BY <2>1 DEF RunType, CountsInv
  <2> QED
    BY <2>2, AttemptsType
<1> QED
  BY <1>1, TypeCorrect, FlagsInvariant, CountsInvariant, PTL

-----------------------------------------------------------------------------
(* A halt reaches the provider *)

\* The stop flag of a turn at work for a halted project is set, or about to be.
ToldToStop(p) ==
  stop[p] # "no" \/ \E c \in calls[p] : c.op # "steer" /\ c.answer = "pending"

\* While the provider works, Claude's interrupt sets the flag, whatever it answers.
LEMMA InterruptHeard ==
  ASSUME ~Codex, NEW p \in Process, session[p] \in {"starting", "binding", "active"},
         stop \in [Process -> StopType], NEW answer \in InterruptAnswers(p)
  PROVE  answer # "no" /\ "no" \notin StopsAfter(p, answer)
BY DEF InterruptAnswers, Interruptible, StopsAfter, StopType

HaltInv ==
  \A p \in Process :
    /\ \A c \in calls[p] : c.op = "interrupt" => interrupts > 0
    /\ row.status \in Halted /\ interrupts = 0 /\ session[p] \in {"starting", "binding", "active"}
         => ToldToStop(p)

LEMMA HaltInvariant ==
  ASSUME MaxUp <= 1, Engine = "claude-code"
  PROVE  Spec => []HaltInv
<1>1. Init => HaltInv
  BY DEF Init, HaltInv
<1>2. LifecycleInv /\ LifecycleInv' /\ ServerInv /\ HaltInv /\ [Next]_vars => HaltInv'
  <2> SUFFICES ASSUME LifecycleInv, LifecycleInv', ServerInv, HaltInv, [Next]_vars PROVE HaltInv'
    OBVIOUS
  <2> DEFINE W == {"starting", "binding", "active"}
  <2>0. /\ TypeOK /\ pc \in [Process -> PcType] /\ session \in [Process -> SessionType]
        /\ stop \in [Process -> StopType] /\ calls \in [Process -> SUBSET CallType]
        /\ row \in RowType /\ seen \in [Process -> RowType] /\ interrupts \in Nat /\ ~Codex
    BY DEF LifecycleInv, TypeOK, TaskOK, CallsOK, DurableOK, HistoryOK, Codex
  <2>1. ASSUME NEW p \in Process, interrupts' = interrupts,
               \A q \in Process \ {p} : session'[q] = session[q] /\ stop'[q] = stop[q] /\ calls'[q] = calls[q],
               row'.status \in Halted => row.status \in Halted,
               session'[p] \in W => session[p] \in W /\ (stop[p] # "no" => stop'[p] # "no"),
               \A c \in calls[p] : c.op # "steer" /\ c.answer = "pending" => c \in calls'[p],
               \A c \in calls'[p] : c.op = "interrupt" => \E d \in calls[p] : d.op = "interrupt"
        PROVE  HaltInv'
    BY <2>0, <2>1 DEF HaltInv, ToldToStop
  <2>2. ASSUME NEW p \in Process, proc[p] = "up",
               \A q \in Process \ {p} : session'[q] = session[q] /\ calls'[q] = calls[q],
               \A c \in calls'[p] : c.op = "interrupt" => interrupts' > 0,
               row'.status \in Halted /\ interrupts' = 0 /\ session'[p] \in W => ToldToStop(p)'
        PROVE  HaltInv'
    BY <2>0, <2>2, OthersAreDown DEF HaltInv, ServerInv
  <2>3. ASSUME NEW p \in Process,
               \/ Start(p) \/ EnterLoop(p) \/ LeaveLoop(p) \/ BeginTurn(p) \/ ClaimCoordinator(p)
               \/ CollectFailure(p) \/ DiscardDecision(p) \/ CollectDecision(p) \/ FinishCommitted(p)
               \/ UnwindTurn(p) \/ HandleFailure(p) \/ SendBeat(p) \/ LandBeat(p) \/ ReadForBinding(p)
        PROVE  HaltInv'
    <3>1. /\ row' = row /\ calls' = calls /\ stop' = stop /\ interrupts' = interrupts
          /\ \A q \in Process \ {p} : session'[q] = session[q]
      BY <2>0, <2>3 DEF Start, EnterLoop, LeaveLoop, BeginTurn, ClaimCoordinator, CollectFailure,
           DiscardDecision, CollectDecision, FinishCommitted, UnwindTurn, HandleFailure, SendBeat, LandBeat,
           ReadForBinding, durable, budgets
    <3>2. session'[p] \in W => session[p] \in W
      BY <2>0, <2>3 DEF Start, EnterLoop, LeaveLoop, BeginTurn, ClaimCoordinator, CollectFailure,
           DiscardDecision, CollectDecision, FinishCommitted, UnwindTurn, HandleFailure, SendBeat, LandBeat,
           ReadForBinding
    <3> QED
      BY <2>1, <3>1, <3>2
  <2>4. ASSUME NEW p \in Process, Crash(p) \/ ProviderEnds(p) PROVE HaltInv'
    <3>1. /\ row' = row /\ interrupts' = interrupts /\ session'[p] \notin W /\ calls'[p] \subseteq calls[p]
          /\ \A q \in Process \ {p} : session'[q] = session[q] /\ calls'[q] = calls[q]
      BY <2>0, <2>4 DEF Crash, ProviderEnds, durable, budgets
    <3>2. proc[p] = "up"
      BY <2>0, <2>4 DEF Crash, ProviderEnds, TypeOK, ControlOK
    <3> QED
      BY <2>2, <3>1, <3>2 DEF HaltInv
  <2>5. ASSUME NEW p \in Process, SnapshotTurn(p) PROVE HaltInv'
    <3>1. /\ row' = row /\ interrupts' = interrupts /\ calls' = calls /\ pc[p] = "snapshot"
          /\ \A q \in Process \ {p} : session'[q] = session[q]
      BY <2>0, <2>5 DEF SnapshotTurn, budgets
    <3>2. proc[p] = "up" /\ row.status \in Active
      BY <2>0, <3>1 DEF ServerInv, Attended, TypeOK, ControlOK
    <3> QED
      BY <2>2, <3>1, <3>2 DEF HaltInv, Active, Halted
  <2>6. ASSUME NEW p \in Process, CommitTurn(p) \/ ScheduleRetry(p) \/ GiveUp(p) PROVE HaltInv'
    <3>1. /\ interrupts' = interrupts /\ calls' = calls /\ session' = session
          /\ pc[p] \in {"commit", "reschedule", "giveup"}
      BY <2>6 DEF CommitTurn, ScheduleRetry, GiveUp, budgets
    <3>2. proc[p] = "up" /\ session[p] \notin W
      BY <2>0, <3>1 DEF TypeOK, ControlOK
    <3> QED
      BY <2>2, <3>1, <3>2 DEF HaltInv
  <2>7. ASSUME NEW p \in Process, BindContinuation(p) PROVE HaltInv'
    <3>1. /\ interrupts' = interrupts /\ calls' = calls /\ session[p] = "binding"
          /\ \A q \in Process \ {p} : session'[q] = session[q] /\ stop'[q] = stop[q]
      BY <2>0, <2>7 DEF BindContinuation, budgets
    <3>2. CASE SwapSucceeds(p)
      <4>1. seen[p].status = row.status
        BY <3>2 DEF SwapSucceeds, LifecycleInv, SeenIsPast
      <4>2. row'.status = seen[p].status /\ stop' = stop
        BY <2>7, <3>2 DEF BindContinuation, Checkpointed
      <4> QED
        BY <2>1, <3>1, <4>1, <4>2
    <3>3. CASE ~SwapSucceeds(p)
      <4>1. row' = row /\ session'[p] = "done"
        BY <2>0, <2>7, <3>3 DEF BindContinuation
      <4> QED
        BY <2>1, <3>1, <4>1
    <3> QED
      BY <3>2, <3>3
  <2>8. ASSUME NEW p \in Process, AnswerSteer(p) PROVE HaltInv'
    <3>1. PICK c \in calls[p], answer \in SteerAnswers(p) : c.op = "steer" /\ Answered(p, c, answer)
      BY <2>8 DEF AnswerSteer
    <3>2. c \in CallType /\ [c EXCEPT !.answer = answer].op = "steer"
      BY <2>0, <3>1 DEF CallType
    <3>3. /\ \A q \in Process \ {p} : calls'[q] = calls[q]
          /\ \A d \in calls[p] : d.op # "steer" => d \in calls'[p]
          /\ \A d \in calls'[p] : d.op # "steer" => d \in calls[p]
      BY <2>0, <3>1, <3>2 DEF Answered
    <3>4. session' = session /\ stop' = stop /\ row' = row /\ interrupts' = interrupts
      BY <2>8 DEF AnswerSteer, durable, budgets
    <3> QED
      BY <2>1, <3>3, <3>4
  <2>9. ASSUME NEW p \in Process, AnswerInterrupt(p) PROVE HaltInv'
    <3>1. PICK c \in calls[p], answer \in InterruptAnswers(p) : Answered(p, c, answer)
      BY <2>9 DEF AnswerInterrupt
    <3>2. c \in CallType /\ [c EXCEPT !.answer = answer].op = c.op
      BY <2>0, <3>1 DEF CallType
    <3>3. /\ \A q \in Process \ {p} : calls'[q] = calls[q]
          /\ \A d \in calls'[p] : d \in calls[p] \/ d.op = c.op
      BY <2>0, <3>1, <3>2 DEF Answered
    <3>4. session' = session /\ row' = row /\ interrupts' = interrupts
      BY <2>9 DEF AnswerInterrupt, durable, budgets
    <3>5. session[p] \in W => stop'[p] # "no"
      BY <2>0, <2>9, InterruptHeard DEF AnswerInterrupt
    <3>6. proc[p] = "up"
      BY <2>0, <3>1 DEF TypeOK, ControlOK
    <3> QED
      BY <2>2, <3>1, <3>3, <3>4, <3>5, <3>6 DEF HaltInv, ToldToStop
  <2>10. ASSUME NEW p \in Process,
                SteerReturns(p) \/ InterruptReturns(p) \/ StopReturns(p) \/ RefreshReturns(p)
         PROVE  HaltInv'
    <3>1. PICK c \in calls[p] : c.answer # "pending" /\ calls' = [calls EXCEPT ![p] = @ \ {c}]
      BY <2>10 DEF SteerReturns, InterruptReturns, StopReturns, RefreshReturns, Resumes
    <3>2. /\ \A q \in Process \ {p} : calls'[q] = calls[q]
          /\ \A d \in calls[p] : d.answer = "pending" => d \in calls'[p]
          /\ calls'[p] \subseteq calls[p]
      BY <2>0, <3>1
    <3>3. session' = session /\ stop' = stop /\ interrupts' = interrupts
      BY <2>10 DEF SteerReturns, InterruptReturns, StopReturns, RefreshReturns, durable, budgets
    <3>4. CASE ~InterruptReturns(p)
      <4>1. row' = row
        BY <2>10, <3>4 DEF SteerReturns, StopReturns, RefreshReturns, durable
      <4> QED
        BY <2>1, <3>2, <3>3, <4>1
    <3>5. CASE InterruptReturns(p)
      <4>1. interrupts > 0
        BY <3>5 DEF InterruptReturns, Resumes, HaltInv
      <4> QED
        BY <2>0, <3>2, <3>3, <4>1 DEF HaltInv
    <3> QED
      BY <3>4, <3>5
  <2>11. ASSUME NEW p \in Process,
                LoseLease(p) \/ Steer(p) \/ ChangeResource(p)
         PROVE  HaltInv'
    <3>1. PICK op \in {"stop", "steer", "refresh"} : calls' = calls \/ \E m : Ask(p, op, m)
      BY <2>11 DEF LoseLease, Steer, ChangeResource
    <3>2. /\ \A q \in Process \ {p} : calls'[q] = calls[q]
          /\ calls[p] \subseteq calls'[p]
          /\ \A d \in calls'[p] : d.op = "interrupt" => d \in calls[p]
      BY <2>0, <3>1 DEF Ask
    <3>3. row' = row /\ session' = session /\ stop' = stop /\ interrupts' = interrupts
      BY <2>11 DEF LoseLease, Steer, ChangeResource, durable, budgets
    <3> QED
      BY <2>1, <3>2, <3>3
  <2>12. ASSUME NEW p \in Process, Interrupt(p) PROVE HaltInv'
    <3>1. interrupts' = interrupts + 1 /\ proc[p] = "up" /\ session' = session
      BY <2>12 DEF Interrupt, LoopFree
    <3>2. \A q \in Process \ {p} : calls'[q] = calls[q]
      BY <2>0, <2>12 DEF Interrupt, Ask
    <3> QED
      BY <2>0, <2>2, <3>1, <3>2
  <2>13. ASSUME NEW p \in Process, NEW action \in {"start", "resume"}, Launch(p, action) PROVE HaltInv'
    <3>1. session' = session /\ stop' = stop /\ calls' = calls /\ interrupts' = interrupts
      BY <2>13 DEF Launch
    <3>2. row'.status \in Halted => row.status \in Halted
      <4>1. ASSUME NEW s \in Status, <<action, row.status, s>> \in PROJECT_TRANSITIONS, row' = Moved(row, s)
            PROVE  row'.status \notin Halted
        <5>1. s = "RUNNING"
          BY <2>13, <4>1 DEF PROJECT_TRANSITIONS
        <5> QED
          BY <2>0, <4>1, <5>1, MovedFields DEF Halted
      <4> QED
        BY <2>13, <4>1 DEF Launch, Transition
    <3> QED
      BY <2>1, <3>1, <3>2
  <2>14. ASSUME NEW p \in Process, NEW action, Halt(p, action) \/ ArchiveProject(p) PROVE HaltInv'
    <3>1. session' = session /\ stop' = stop /\ interrupts' = interrupts /\ proc[p] = "up" /\ StopRuntime(p)
      BY <2>14 DEF Halt, ArchiveProject, LoopFree
    <3> DEFINE told == [op |-> "stop", message |-> 0, answer |-> "pending"]
    <3>2. told.op = "stop" /\ told.answer = "pending"
      OBVIOUS
    <3>3. (calls' = calls /\ session[p] = "none") \/ calls' = [calls EXCEPT ![p] = @ \cup {told}]
      BY <3>1 DEF StopRuntime, Ask
    <3> HIDE DEF told
    <3>4. /\ \A q \in Process \ {p} : calls'[q] = calls[q]
          /\ \A d \in calls'[p] : d.op = "interrupt" => d \in calls[p]
          /\ session[p] = "none" \/ told \in calls'[p]
      BY <2>0, <3>2, <3>3
    <3> QED
      BY <2>2, <3>1, <3>2, <3>4 DEF HaltInv, ToldToStop
  <2>15. ASSUME WakeDue \/ LeaseExpires \/ UNCHANGED vars PROVE HaltInv'
    <3>1. session' = session /\ stop' = stop /\ calls' = calls /\ interrupts' = interrupts
      BY <2>15 DEF WakeDue, LeaseExpires, vars, durable, local, budgets
    <3>2. row'.status = row.status
      BY <2>0, <2>15 DEF WakeDue, LeaseExpires, vars, durable, RowType
    <3> QED
      BY <3>1, <3>2 DEF HaltInv, ToldToStop
  <2> QED
    BY <2>3, <2>4, <2>5, <2>6, <2>7, <2>8, <2>9, <2>10, <2>11, <2>12, <2>13, <2>14, <2>15
       DEF Next, TaskStep, ProviderStep, CallStep, HeartbeatStep, HumanStep
<1> QED
  BY <1>1, <1>2, LifecycleInvariant, ServerInvariant, PTL DEF Spec

\* A pause or stop of a Claude project on one server sets the stop flag of the
\* turn at work for it, however it is interleaved with the turn's start, its
\* binding and the calls of others (stop_runtime, the adapter's interrupt).
THEOREM HaltsAreHeard ==
  ASSUME MaxUp <= 1, Engine = "claude-code"
  PROVE  Spec => []HaltReachesTurn
<1>1. HaltInv => HaltReachesTurn
  BY DEF HaltInv, HaltReachesTurn, ToldToStop
<1> QED
  BY <1>1, HaltInvariant, PTL

-----------------------------------------------------------------------------
(* A resource change reaches the provider *)

\* The stop flag of a turn at work with an old environment is set, or about to
\* be, and nothing lowers the flag that discards what it decides.
Outdated(p) ==
  session[p] \in {"starting", "binding", "active"} =>
    /\ \A c \in calls[p] : c.op = "refresh" => c.answer # "no"
    /\ turn[p].env # resources => refresh[p] /\ ToldToStop(p)

ChangeInv == \A p \in Process : Outdated(p)

LEMMA ChangeInvariant ==
  ASSUME MaxUp <= 1, Engine = "claude-code"
  PROVE  Spec => []ChangeInv
<1>1. Init => ChangeInv
  BY DEF Init, ChangeInv, Outdated
<1>2. TypeOK /\ TypeOK' /\ ServerInv /\ ChangeInv /\ [Next]_vars => ChangeInv'
  <2> SUFFICES ASSUME TypeOK, TypeOK', ServerInv, ChangeInv, [Next]_vars PROVE ChangeInv'
    OBVIOUS
  <2> DEFINE W == {"starting", "binding", "active"}
  <2>0. /\ pc \in [Process -> PcType] /\ session \in [Process -> SessionType]
        /\ stop \in [Process -> StopType] /\ calls \in [Process -> SUBSET CallType]
        /\ turn \in [Process -> TurnType] /\ refresh \in [Process -> BOOLEAN]
        /\ resources \in Nat /\ ~Codex
    BY DEF TypeOK, TaskOK, CallsOK, DurableOK, Codex
  \* The others have no session.
  <2>1. ASSUME NEW p \in Process, proc[p] = "up", Outdated(p)',
               \A q \in Process \ {p} : session'[q] = session[q]
        PROVE  ChangeInv'
    BY <2>1, OthersAreDown DEF ChangeInv, Outdated, ServerInv
  <2>2. ASSUME NEW p \in Process, resources' = resources,
               \A q \in Process \ {p} : /\ session'[q] = session[q] /\ stop'[q] = stop[q]
                                        /\ calls'[q] = calls[q] /\ turn'[q].env = turn[q].env
                                        /\ refresh'[q] = refresh[q],
               session'[p] \in W => /\ session[p] \in W /\ (stop[p] # "no" => stop'[p] # "no")
                                    /\ turn'[p].env = turn[p].env /\ refresh'[p] = refresh[p],
               \A c \in calls[p] : c.op # "steer" /\ c.answer = "pending" => c \in calls'[p],
               \A c \in calls'[p] : c \in calls[p] \/ c.answer # "no" \/ c.op # "refresh"
        PROVE  ChangeInv'
    BY <2>0, <2>2 DEF ChangeInv, Outdated, ToldToStop
  <2>3. ASSUME NEW p \in Process,
               \/ Start(p) \/ EnterLoop(p) \/ LeaveLoop(p) \/ BeginTurn(p) \/ ClaimCoordinator(p)
               \/ CollectFailure(p) \/ DiscardDecision(p) \/ CollectDecision(p) \/ FinishCommitted(p)
               \/ UnwindTurn(p) \/ HandleFailure(p) \/ SendBeat(p) \/ LandBeat(p) \/ ReadForBinding(p)
               \/ CommitTurn(p) \/ ScheduleRetry(p) \/ GiveUp(p)
        PROVE  ChangeInv'
    <3>1. /\ resources' = resources /\ calls' = calls /\ stop' = stop
          /\ \A q \in Process \ {p} : /\ session'[q] = session[q] /\ turn'[q] = turn[q]
                                      /\ refresh'[q] = refresh[q]
      BY <2>0, <2>3 DEF Start, EnterLoop, LeaveLoop, BeginTurn, ClaimCoordinator, CollectFailure,
           DiscardDecision, CollectDecision, FinishCommitted, UnwindTurn, HandleFailure, SendBeat, LandBeat,
           ReadForBinding, CommitTurn, ScheduleRetry, GiveUp, durable, budgets
    <3>2. session[p] \in W <=> pc[p] = "turn" /\ session[p] # "done"
      BY <2>0 DEF TypeOK, ControlOK, SessionType
    <3>3. session'[p] \in W => session[p] \in W
      BY <2>0, <2>3 DEF Start, EnterLoop, LeaveLoop, BeginTurn, ClaimCoordinator, CollectFailure,
           DiscardDecision, CollectDecision, FinishCommitted, UnwindTurn, HandleFailure, SendBeat, LandBeat,
           ReadForBinding, CommitTurn, ScheduleRetry, GiveUp
    <3>4. session'[p] \in W => turn' = turn /\ refresh' = refresh
      BY <2>3, <3>2, <3>3 DEF Start, EnterLoop, LeaveLoop, BeginTurn, ClaimCoordinator, CollectFailure,
           DiscardDecision, CollectDecision, FinishCommitted, UnwindTurn, HandleFailure, SendBeat, LandBeat,
           ReadForBinding, CommitTurn, ScheduleRetry, GiveUp
    <3> QED
      BY <2>2, <3>1, <3>3, <3>4
  <2>4. ASSUME NEW p \in Process, Crash(p) \/ ProviderEnds(p) PROVE ChangeInv'
    <3>1. session'[p] \notin W /\ \A q \in Process \ {p} : session'[q] = session[q]
      BY <2>0, <2>4 DEF Crash, ProviderEnds
    <3>2. proc[p] = "up"
      BY <2>0, <2>4 DEF Crash, ProviderEnds, TypeOK, ControlOK
    <3> QED
      BY <2>1, <3>1, <3>2 DEF Outdated
  <2>5. ASSUME NEW p \in Process, SnapshotTurn(p) PROVE ChangeInv'
    <3>1. /\ resources' = resources /\ calls' = calls /\ pc[p] = "snapshot"
          /\ turn'[p].env = resources
          /\ \A q \in Process \ {p} : session'[q] = session[q]
      BY <2>0, <2>5 DEF SnapshotTurn, TurnType, Environment
    <3>2. proc[p] = "up" /\ \A c \in calls[p] : c.answer = "yes"
      BY <2>0, <3>1 DEF ServerInv, Attended, TypeOK, ControlOK, Busy
    <3> QED
      BY <2>1, <3>1, <3>2 DEF Outdated
  <2>6. ASSUME NEW p \in Process, BindContinuation(p) PROVE ChangeInv'
    <3>1. /\ resources' = resources /\ calls' = calls /\ refresh' = refresh /\ session[p] = "binding"
          /\ \A q \in Process \ {p} : session'[q] = session[q] /\ stop'[q] = stop[q] /\ turn'[q] = turn[q]
      BY <2>0, <2>6 DEF BindContinuation
    <3>2. session'[p] \in W => turn' = turn /\ stop' = stop
      BY <2>0, <2>6 DEF BindContinuation
    <3> QED
      BY <2>2, <3>1, <3>2
  <2>7. ASSUME NEW p \in Process, AnswerSteer(p) PROVE ChangeInv'
    <3>1. PICK c \in calls[p], answer \in SteerAnswers(p) : c.op = "steer" /\ Answered(p, c, answer)
      BY <2>7 DEF AnswerSteer
    <3>2. c \in CallType /\ [c EXCEPT !.answer = answer].op = "steer"
      BY <2>0, <3>1 DEF CallType
    <3>3. /\ \A q \in Process \ {p} : calls'[q] = calls[q]
          /\ \A d \in calls[p] : d.op # "steer" => d \in calls'[p]
          /\ \A d \in calls'[p] : d.op # "steer" => d \in calls[p]
      BY <2>0, <3>1, <3>2 DEF Answered
    <3>4. session' = session /\ stop' = stop /\ turn' = turn /\ refresh' = refresh /\ resources' = resources
      BY <2>7 DEF AnswerSteer, durable
    <3> QED
      BY <2>2, <3>3, <3>4
  <2>8. ASSUME NEW p \in Process, AnswerInterrupt(p) PROVE ChangeInv'
    <3>1. PICK c \in calls[p], answer \in InterruptAnswers(p) : Answered(p, c, answer)
      BY <2>8 DEF AnswerInterrupt
    <3>2. c \in CallType /\ [c EXCEPT !.answer = answer].answer = answer
      BY <2>0, <3>1 DEF CallType
    <3>3. \A d \in calls'[p] : d \in calls[p] \/ d.answer = answer
      BY <2>0, <3>1, <3>2 DEF Answered
    <3>4. session' = session /\ turn' = turn /\ refresh' = refresh /\ resources' = resources
      BY <2>8 DEF AnswerInterrupt, durable
    <3>5. session[p] \in W => stop'[p] # "no" /\ answer # "no"
      BY <2>0, <2>8, <3>1, InterruptHeard DEF AnswerInterrupt
    <3>6. proc[p] = "up"
      BY <2>0, <3>1 DEF TypeOK, ControlOK
    <3>7. Outdated(p)'
      BY <3>3, <3>4, <3>5 DEF ChangeInv, Outdated, ToldToStop
    <3> QED
      BY <2>1, <3>4, <3>6, <3>7
  <2>9. ASSUME NEW p \in Process,
               SteerReturns(p) \/ InterruptReturns(p) \/ StopReturns(p) \/ RefreshReturns(p)
        PROVE  ChangeInv'
    <3>1. PICK c \in calls[p] :
            /\ c.answer # "pending" /\ calls' = [calls EXCEPT ![p] = @ \ {c}]
            /\ \/ refresh' = refresh
               \/ c.op = "refresh" /\ refresh' = [refresh EXCEPT ![p] = @ /\ c.answer # "no"]
      BY <2>9 DEF SteerReturns, InterruptReturns, StopReturns, RefreshReturns, Resumes
    <3>2. /\ \A q \in Process \ {p} : calls'[q] = calls[q] /\ refresh'[q] = refresh[q]
          /\ \A d \in calls[p] : d.answer = "pending" => d \in calls'[p]
          /\ calls'[p] \subseteq calls[p]
      BY <2>0, <3>1
    <3>3. session' = session /\ stop' = stop /\ turn' = turn /\ resources' = resources
      BY <2>9 DEF SteerReturns, InterruptReturns, StopReturns, RefreshReturns, durable
    <3>4. session[p] \in W => refresh'[p] = refresh[p]
      <4> SUFFICES ASSUME session[p] \in W, c.op = "refresh",
                          refresh' = [refresh EXCEPT ![p] = @ /\ c.answer # "no"]
                   PROVE  refresh'[p] = refresh[p]
        BY <3>1
      <4>1. c.answer # "no"
        BY <2>0, <3>1 DEF ChangeInv, Outdated, CallType
      <4> QED
        BY <2>0, <4>1
    <3> QED
      BY <2>2, <3>2, <3>3, <3>4
  <2>10. ASSUME NEW p \in Process, NEW op \in {"stop", "steer", "interrupt", "refresh"}, NEW m,
                calls' = calls \/ Ask(p, op, m)
         PROVE  /\ \A q \in Process \ {p} : calls'[q] = calls[q]
                /\ calls[p] \subseteq calls'[p]
                /\ \A d \in calls'[p] : d \in calls[p] \/ d.answer # "no"
    BY <2>0, <2>10 DEF Ask
  <2>11. ASSUME NEW p \in Process, ChangeResource(p) PROVE ChangeInv'
    <3>1. session' = session /\ turn' = turn /\ proc[p] = "up"
      BY <2>11 DEF ChangeResource, LoopFree
    <3>2. CASE session[p] = "none"
      BY <2>1, <3>1, <3>2 DEF Outdated
    <3>3. CASE session[p] # "none"
      <4>1. refresh'[p] /\ Ask(p, "refresh", Len(inbox) + 1)
        BY <2>0, <2>11, <3>3 DEF ChangeResource
      <4> DEFINE call == [op |-> "refresh", message |-> Len(inbox) + 1, answer |-> "pending"]
      <4>2. call \in calls'[p] /\ call.op # "steer" /\ call.answer = "pending"
        BY <2>0, <4>1 DEF Ask
      <4>3. ToldToStop(p)'
        BY <4>2 DEF ToldToStop
      <4>4. \A d \in calls'[p] : d \in calls[p] \/ d.answer # "no"
        BY <2>10, <4>1
      <4>5. Outdated(p)'
        BY <3>1, <4>1, <4>3, <4>4 DEF ChangeInv, Outdated
      <4> QED
        BY <2>1, <3>1, <4>5
    <3> QED
      BY <3>2, <3>3
  <2>12. ASSUME NEW p \in Process,
                \/ LoseLease(p) \/ Steer(p) \/ Interrupt(p)
                \/ \E action \in {"start", "resume"} : Launch(p, action)
                \/ \E action \in {"pause", "stop"} : Halt(p, action)
                \/ ArchiveProject(p)
         PROVE  ChangeInv'
    <3>1. \E op \in {"stop", "steer", "interrupt", "refresh"} : \E m : calls' = calls \/ Ask(p, op, m)
      BY <2>12 DEF LoseLease, Steer, Interrupt, Launch, Halt, ArchiveProject, StopRuntime
    <3>2. /\ \A q \in Process \ {p} : calls'[q] = calls[q]
          /\ calls[p] \subseteq calls'[p]
          /\ \A d \in calls'[p] : d \in calls[p] \/ d.answer # "no"
      BY <2>10, <3>1
    <3>3. session' = session /\ stop' = stop /\ turn' = turn /\ refresh' = refresh /\ resources' = resources
      BY <2>12 DEF LoseLease, Steer, Interrupt, Launch, Halt, ArchiveProject, durable
    <3> QED
      BY <2>2, <3>2, <3>3
  <2>13. ASSUME WakeDue \/ LeaseExpires \/ UNCHANGED vars PROVE ChangeInv'
    <3>1. /\ session' = session /\ stop' = stop /\ calls' = calls /\ turn' = turn /\ refresh' = refresh
          /\ resources' = resources
      BY <2>13 DEF WakeDue, LeaseExpires, vars, durable, local
    <3> QED
      BY <3>1 DEF ChangeInv, Outdated, ToldToStop
  <2> QED
    BY <2>3, <2>4, <2>5, <2>6, <2>7, <2>8, <2>9, <2>11, <2>12, <2>13
       DEF Next, TaskStep, ProviderStep, CallStep, HeartbeatStep, HumanStep
<1> QED
  BY <1>1, <1>2, TypeCorrect, ServerInvariant, PTL DEF Spec

\* A resource change sets the stop flag of the Claude turn at work on one server
\* with the environment of before, and what it decides is discarded, however the
\* change is interleaved with the turn's start and with other changes and calls
\* (refresh_resources, the adapter's interrupt).
THEOREM ChangesAreHeard ==
  ASSUME MaxUp <= 1, Engine = "claude-code"
  PROVE  Spec => []ChangeReachesTurn
<1>1. ChangeInv /\ TypeOK => ChangeReachesTurn
  BY DEF ChangeInv, Outdated, ChangeReachesTurn, ToldToStop
<1> QED
  BY <1>1, ChangeInvariant, TypeCorrect, PTL

=============================================================================
