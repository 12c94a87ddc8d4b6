------------------------- MODULE ProjectSupervisor -------------------------
(***************************************************************************)
(* One managed project and the server processes that run it: the durable   *)
(* coordinator row, guidance inbox, coordinator lease and run records, and *)
(* in each process the project loop, the turn in progress, the lease       *)
(* heartbeat and the API handlers waiting on the provider session.         *)
(*                                                                         *)
(* Granularity.  A process runs one asyncio loop: code between two awaits  *)
(* is not interleaved with other coroutines of the process, but every      *)
(* database transaction in it can interleave with the other processes and  *)
(* with the provider's thread, so one action is one transaction (or        *)
(* several whose interleaving no other transaction can observe).           *)
(* LoopFree(p) says that p's loop can run another coroutine.               *)
(*                                                                         *)
(* Abstractions.  The version column is a counter.  Time is the order of   *)
(* events: a retry time is "future" until WakeDue, a lease expires by      *)
(* LeaseExpires.  Polling waits end by wake-up or timeout and then re-read *)
(* the row, so a wait is the loop standing at "head".  A server process is *)
(* started once: a restart is another element of Process, because every    *)
(* process has a fresh runtime_id.                                         *)
(***************************************************************************)
EXTENDS Naturals, Sequences, FiniteSets

CONSTANTS
  Process,      \* server processes, each with its own runtime_id
  NoProcess,    \* "no lease row"
  Engine,       \* the project's runtime_engine
  MaxUp,        \* processes that may be up at once
  RetryDelays,  \* len(RetryPolicy.delays_seconds)
  MaxMessages,  \* bound: guidance messages
  MaxRuns,      \* bound: managed turns
  MaxCommands,  \* bound: lifecycle commands
  MaxChanges,   \* bound: resource changes
  MaxStalls     \* bound: times a live process renews its lease too late

ASSUME ConstantsOK ==
  /\ NoProcess \notin Process
  /\ Engine \in {"codex", "claude-code"}
  /\ {MaxUp, RetryDelays, MaxMessages, MaxRuns, MaxCommands, MaxChanges, MaxStalls} \subseteq Nat

VARIABLES
  \* the database
  row,        \* CoordinatorState: status, version, cursor, wake, thread, step
  archived,   \* Challenge.status = "ARCHIVED"
  inbox,      \* InboxMessage rows: sequence number -> status
  resources,  \* number of committed changes to the project's resources
  lease,      \* WorkLease row of scope "coordinator"
  runs,       \* RuntimeRun rows in started_at order
  \* each process
  proc,       \* "new", "up" or "dead"
  pc,         \* where its project task is ("off": no task)
  session,    \* its provider session
  stop,       \* an interrupt of its turn: flag set ("asked"), provider reached ("heard")
  seen,       \* the coordinator row it read for its next compare-and-swap
  turn,       \* locals of _run_turn
  calls,      \* API handlers (and the heartbeat) awaiting the session
  live,       \* _live_messages
  refresh,    \* _resource_refresh is set
  lost,       \* _lease_lost is set
  beat,       \* the heartbeat's claim_coordinator, in a worker thread
  \* history and budgets
  delivered,  \* messages put in a prompt or handed to an active turn
  commands,   \* lifecycle commands spent
  interrupts, \* interrupt messages sent
  stalls      \* late renewals spent

durable   == <<row, archived, inbox, resources, lease, runs>>
local     == <<pc, session, stop, seen, turn, calls, live, refresh, lost, beat>>
budgets   == <<commands, interrupts, stalls>>
vars      == <<durable, proc, local, delivered, budgets>>

-----------------------------------------------------------------------------
(* Vocabulary *)

Active     == {"RUNNING", "WAITING"}
Status     == Active \cup {"CREATED", "PAUSED", "STOPPED", "COMPLETE", "FAILED"}
Halted     == {"PAUSED", "STOPPED"}
RunStatus  == {"RUNNING", "COMPLETED", "INTERRUPTED", "FAILED"}

\* RuntimeDecision.status, as _parse_runtime_decision accepts it.
Decision == {"RUNNING", "WAITING", "COMPLETE"}

\* How run_turn ended; "lease" and "refresh" are raised after it returned.
Failure  == {"retryable", "fatal"}
Outcome  == Decision \cup Failure \cup {"none", "committed", "lease", "refresh"}

PROJECT_TRANSITIONS ==
  {<<"start", "CREATED", "RUNNING">>, <<"start", "STOPPED", "RUNNING">>,
   <<"pause", "RUNNING", "PAUSED">>,  <<"pause", "WAITING", "PAUSED">>,
   <<"resume", "PAUSED", "RUNNING">>, <<"resume", "WAITING", "RUNNING">>,
   <<"resume", "STOPPED", "RUNNING">>, <<"resume", "FAILED", "RUNNING">>,
   <<"stop", "CREATED", "STOPPED">>,  <<"stop", "RUNNING", "STOPPED">>,
   <<"stop", "WAITING", "STOPPED">>,  <<"stop", "PAUSED", "STOPPED">>,
   <<"stop", "FAILED", "STOPPED">>}

\* Repeating one of these commands succeeds and changes nothing.
IDEMPOTENT ==
  {<<"start", "RUNNING">>, <<"resume", "RUNNING">>,
   <<"pause", "PAUSED">>, <<"stop", "STOPPED">>}

Codex  == Engine = "codex"
NoTurn == [messages |-> {}, env |-> 0, run |-> 0, retry |-> 0, out |-> "none"]
NewRow == [status |-> "CREATED", version |-> 1, cursor |-> 0,
           wake |-> "none", thread |-> "none", step |-> "plan"]

Pending == {i \in DOMAIN inbox : inbox[i] = "PENDING"}

\* pcs in the middle of a run of statements without an await
Busy == {"claim", "snapshot", "commit", "finish", "caught", "reschedule", "giveup"}

\* Codex steers and interrupts in worker threads and binds in the turn's
\* thread.  The Claude adapter does all of it on the loop, and suspends only
\* once it has told the client to interrupt.
LoopFree(p) ==
  /\ proc[p] = "up"
  /\ pc[p] \notin Busy
  /\ ~Codex => /\ session[p] # "binding"
               /\ \A c \in calls[p] : c.answer = "yes"

\* Between taking the coordinator lease and releasing it.
InTurn(p) == pc[p] \in {"snapshot", "turn", "commit", "finish", "unwind"}

UpProcesses == {p \in Process : proc[p] = "up"}

-----------------------------------------------------------------------------
(* Durable operations *)

\* (defect: a checkpoint does not compare versions)
SwapUnchecked(p) == TRUE

\* checkpoint_coordinator: compare-and-swap on the version that was read.
SwapSucceeds(p) == seen[p].version = row.version

\* Without a wake_at argument a checkpoint clears the stored one.
Checkpointed(r, status, cursor, wake, step) ==
  [status |-> status, version |-> r.version + 1, cursor |-> cursor,
   wake |-> wake, thread |-> r.thread, step |-> step]

\* change_project_state, for a transition of the table
Moved(r, status) == Checkpointed(r, status, r.cursor, "none", r.step)

\* (defects: a lease is taken from whoever holds it; an expired one never is)
LeaseStolen(p) == TRUE
LeaseNeverLapses(p) == lease.owner \in {NoProcess, p}

\* _acquire_lease: a free, expired or own lease can be taken.
LeaseAvailable(p) == lease.owner \in {NoProcess, p} \/ lease.state = "lapsed"

\* next_retry_count
NextRetryCount ==
  IF runs = <<>> \/ runs[Len(runs)].status # "FAILED" THEN 0
  ELSE runs[Len(runs)].retry + 1

\* (defect: one attempt too many)
RetryOffByOne(retryCount) == 1 <= retryCount /\ retryCount <= RetryDelays + 1

\* delay_after(retry_count - 1) is not None
RetryAllowed(retryCount) == 1 <= retryCount /\ retryCount <= RetryDelays

\* (defects: the provider's outcome is recorded; interrupted runs are left open)
FinishRunAsOutcome(p, status) == runs' = [runs EXCEPT ![turn[p].run].status = turn[p].out]
FinishRunUnlessInterrupted(p, status) ==
  runs' = IF status = "INTERRUPTED" THEN runs ELSE [runs EXCEPT ![turn[p].run].status = status]

FinishRun(p, status) == runs' = [runs EXCEPT ![turn[p].run].status = status]

Maximum(S) == CHOOSE x \in S : \A y \in S : y <= x

-----------------------------------------------------------------------------
(* A process starts, recovers the projects it finds active, and crashes. *)

Start(p) ==
  /\ proc[p] = "new"
  /\ Cardinality(UpProcesses) < MaxUp
  /\ proc' = [proc EXCEPT ![p] = "up"]
  /\ pc' = [pc EXCEPT ![p] = IF row.status \in Active THEN "boot" ELSE "off"]
  /\ UNCHANGED <<durable, session, stop, seen, turn, calls, live, refresh, lost, beat,
                 delivered, budgets>>

Crash(p) ==
  /\ proc[p] = "up"
  /\ proc' = [proc EXCEPT ![p] = "dead"]
  /\ pc' = [pc EXCEPT ![p] = "off"]
  /\ session' = [session EXCEPT ![p] = "none"]
  /\ stop' = [stop EXCEPT ![p] = "no"]
  /\ seen' = [seen EXCEPT ![p] = NewRow]
  /\ turn' = [turn EXCEPT ![p] = NoTurn]
  /\ calls' = [calls EXCEPT ![p] = {}]
  /\ live' = [live EXCEPT ![p] = {}]
  /\ refresh' = [refresh EXCEPT ![p] = FALSE]
  /\ lost' = [lost EXCEPT ![p] = FALSE]
  /\ beat' = [beat EXCEPT ![p] = "none"]
  /\ UNCHANGED <<durable, delivered, budgets>>

-----------------------------------------------------------------------------
(* The project loop, _run_project, and one pass of it, _run_turn *)

\* The task's first step opens the process's session object for the project.
EnterLoop(p) ==
  /\ pc[p] = "boot" /\ LoopFree(p)
  /\ session' = [session EXCEPT ![p] = IF @ = "none" THEN "idle" ELSE @]
  /\ pc' = [pc EXCEPT ![p] = "head"]
  /\ UNCHANGED <<durable, proc, stop, seen, turn, calls, live, refresh, lost, beat, delivered, budgets>>

\* The loop reads the row and returns: the project is not to be run.
LeaveLoop(p) ==
  /\ pc[p] = "head" /\ LoopFree(p)
  /\ row.status \notin Active
  /\ pc' = [pc EXCEPT ![p] = "off"]
  /\ UNCHANGED <<durable, proc, session, stop, seen, turn, calls, live, refresh, lost, beat,
                 delivered, budgets>>

\* The loop reads the row and decides to run a turn.
BeginTurn(p) ==
  /\ pc[p] = "head" /\ LoopFree(p)
  /\ row.status \in Active
  /\ row.wake # "future"
  /\ row.status = "RUNNING" \/ Pending # {} \/ row.wake = "due"
  /\ Len(runs) < MaxRuns
  /\ turn' = [turn EXCEPT ![p] =
               [NoTurn EXCEPT !.retry = IF row.wake = "due" THEN NextRetryCount ELSE 0]]
  /\ pc' = [pc EXCEPT ![p] = "claim"]
  /\ UNCHANGED <<durable, proc, session, stop, seen, calls, live, refresh, lost, beat,
                 delivered, budgets>>

\* claim_coordinator; a LeaseConflictError sleeps and goes round the loop.
ClaimCoordinator(p) ==
  /\ pc[p] = "claim"
  /\ IF LeaseAvailable(p)
     THEN /\ lease' = [owner |-> p, state |-> "held"]
          /\ pc' = [pc EXCEPT ![p] = "snapshot"]
          /\ UNCHANGED turn
     ELSE /\ pc' = [pc EXCEPT ![p] = "head"]
          /\ turn' = [turn EXCEPT ![p] = NoTurn]
          /\ UNCHANGED lease
  /\ UNCHANGED <<row, archived, inbox, resources, runs, proc, session, stop, seen, calls,
                 live, refresh, lost, beat, delivered, budgets>>

\* The guidance a turn starts with: pending and beyond the stored cursor.
PromptMessages == {i \in Pending : i > row.cursor}

\* resource_environment: what is stored when the turn is set up.
Environment == resources

\* start_run; snapshot of guidance and resources; run_turn is called.
SnapshotTurn(p) ==
  /\ pc[p] = "snapshot"
  /\ runs' = Append(runs, [status |-> "RUNNING", retry |-> turn[p].retry])
  /\ turn' = [turn EXCEPT ![p].messages = PromptMessages,
                          ![p].env = Environment,
                          ![p].run = Len(runs) + 1]
  /\ delivered' = delivered \cup PromptMessages
  /\ session' = [session EXCEPT ![p] = "starting"]
  /\ pc' = [pc EXCEPT ![p] = "turn"]
  /\ UNCHANGED <<row, archived, inbox, resources, lease, proc, stop, seen, calls, live, refresh,
                 lost, beat, budgets>>

\* _bind_continuation reads the row; it writes only a continuation that changes.
ReadForBinding(p) ==
  /\ session[p] = "starting"
  /\ Codex \/ LoopFree(p)
  /\ IF row.thread = "kept"
     THEN session' = [session EXCEPT ![p] = "active"] /\ UNCHANGED seen
     ELSE session' = [session EXCEPT ![p] = "binding"] /\ seen' = [seen EXCEPT ![p] = row]
  /\ UNCHANGED <<durable, proc, pc, stop, turn, calls, live, refresh, lost, beat, delivered, budgets>>

\* ... and checkpoints it; a conflict is raised through the provider's turn.
BindContinuation(p) ==
  /\ session[p] = "binding"
  /\ IF SwapSucceeds(p)
     THEN /\ row' = [Checkpointed(seen[p], seen[p].status, seen[p].cursor, "none", seen[p].step)
                      EXCEPT !.thread = "kept"]
          /\ session' = [session EXCEPT ![p] = "active"]
          /\ UNCHANGED <<stop, turn>>
     ELSE /\ session' = [session EXCEPT ![p] = "done"]
          /\ stop' = [stop EXCEPT ![p] = "no"]
          /\ turn' = [turn EXCEPT ![p].out = "fatal"]
          /\ UNCHANGED row
  /\ seen' = [seen EXCEPT ![p] = NewRow]
  /\ UNCHANGED <<archived, inbox, resources, lease, runs, proc, pc, calls, live, refresh, lost, beat,
                 delivered, budgets>>

\* What the provider can answer: a decision once its turn is active, unless
\* the Claude adapter was told to stop (an interrupted Codex turn may have
\* finished already); only the Codex adapter classifies errors as retryable.
ProviderAnswers(p) ==
  (IF session[p] = "active" /\ (stop[p] = "no" \/ Codex) THEN Decision ELSE {})
    \cup {"fatal"}
    \cup (IF Codex THEN {"retryable"} ELSE {})

ProviderEnds(p) ==
  /\ session[p] \in {"starting", "active"}
  /\ Codex \/ LoopFree(p)
  /\ \E out \in ProviderAnswers(p) : turn' = [turn EXCEPT ![p].out = out]
  /\ session' = [session EXCEPT ![p] = "done"]
  /\ stop' = [stop EXCEPT ![p] = "no"]
  /\ UNCHANGED <<durable, proc, pc, seen, calls, live, refresh, lost, beat, delivered, budgets>>

\* The status finish_run gives a turn that raised.
RaisedStatus == IF row.status \in Halted THEN "INTERRUPTED" ELSE "FAILED"

\* run_turn raised: the run is finished as interrupted or failed.
CollectFailure(p) ==
  /\ pc[p] = "turn" /\ session[p] = "done" /\ LoopFree(p)
  /\ turn[p].out \in Failure
  /\ FinishRun(p, RaisedStatus)
  /\ pc' = [pc EXCEPT ![p] = "unwind"]
  /\ session' = [session EXCEPT ![p] = "idle"]
  /\ UNCHANGED <<row, archived, inbox, resources, lease, proc, stop, seen, turn, calls, live,
                 refresh, lost, beat, delivered, budgets>>

\* run_turn returned, but the decision is discarded: the resources changed,
\* or the lease was lost.
DiscardDecision(p) ==
  /\ pc[p] = "turn" /\ session[p] = "done" /\ LoopFree(p)
  /\ turn[p].out \in Decision
  /\ refresh[p] \/ lost[p]
  /\ IF refresh[p]
     THEN /\ FinishRun(p, "INTERRUPTED")
          /\ turn' = [turn EXCEPT ![p].out = "refresh"]
     ELSE /\ FinishRun(p, RaisedStatus)
          /\ turn' = [turn EXCEPT ![p].out = "lease"]
  /\ pc' = [pc EXCEPT ![p] = "unwind"]
  /\ session' = [session EXCEPT ![p] = "idle"]
  /\ UNCHANGED <<row, archived, inbox, resources, lease, proc, stop, seen, calls, live, refresh,
                 lost, beat, delivered, budgets>>

\* run_turn returned: read the row and take the live messages.
CollectDecision(p) ==
  /\ pc[p] = "turn" /\ session[p] = "done" /\ LoopFree(p)
  /\ turn[p].out \in Decision
  /\ ~refresh[p] /\ ~lost[p]
  /\ seen' = [seen EXCEPT ![p] = row]
  /\ turn' = [turn EXCEPT ![p].messages = @ \cup live[p]]
  /\ live' = [live EXCEPT ![p] = {}]
  /\ pc' = [pc EXCEPT ![p] = "commit"]
  /\ session' = [session EXCEPT ![p] = "idle"]
  /\ UNCHANGED <<durable, proc, stop, calls, refresh, lost, beat, delivered, budgets>>

\* (defect: the decision wins over the lifecycle)
DecisionWins(p) == turn[p].out

\* The status a turn's checkpoint stores: lifecycle wins over the decision.
CheckpointStatus(p) == IF seen[p].status \in Active THEN turn[p].out ELSE seen[p].status

\* The cursor moves to the last message the turn accepted.
CheckpointCursor(p) == Maximum({seen[p].cursor} \cup turn[p].messages)

\* The messages the checkpoint acknowledges.
Acknowledged(p) == turn[p].messages

\* The turn's checkpoint: row and acknowledgements in one transaction.
CommitTurn(p) ==
  /\ pc[p] = "commit"
  /\ IF SwapSucceeds(p)
     THEN /\ row' = [Checkpointed(seen[p], CheckpointStatus(p), CheckpointCursor(p), "none",
                                  IF seen[p].status \in Active THEN "plan" ELSE seen[p].step)
                      EXCEPT !.thread = "kept"]
          /\ inbox' = [i \in DOMAIN inbox |->
                         IF i \in Acknowledged(p) THEN "ACKNOWLEDGED" ELSE inbox[i]]
          /\ pc' = [pc EXCEPT ![p] = "finish"]
          /\ turn' = [turn EXCEPT ![p].out = "committed"]
          /\ UNCHANGED runs
     ELSE /\ FinishRun(p, RaisedStatus)
          /\ pc' = [pc EXCEPT ![p] = "unwind"]
          /\ turn' = [turn EXCEPT ![p].out = "fatal"]
          /\ UNCHANGED <<row, inbox>>
  /\ seen' = [seen EXCEPT ![p] = NewRow]
  /\ UNCHANGED <<archived, resources, lease, proc, session, stop, calls, live, refresh,
                 lost, beat, delivered, budgets>>

FinishCommitted(p) ==
  /\ pc[p] = "finish"
  /\ FinishRun(p, "COMPLETED")
  /\ pc' = [pc EXCEPT ![p] = "unwind"]
  /\ UNCHANGED <<row, archived, inbox, resources, lease, proc, session, stop, seen, turn, calls,
                 live, refresh, lost, beat, delivered, budgets>>

\* release_coordinator deletes the lease row if this process still owns it.
ReleaseLease(p) ==
  lease' = IF lease.owner = p THEN [owner |-> NoProcess, state |-> "held"] ELSE lease

\* The heartbeat is cancelled, though not its thread: forget the lost lease,
\* release, and return or raise.
UnwindTurn(p) ==
  /\ pc[p] = "unwind" /\ LoopFree(p)
  /\ ReleaseLease(p)
  /\ lost' = [lost EXCEPT ![p] = FALSE]
  /\ beat' = [beat EXCEPT ![p] = IF @ \in {"claiming", "orphan"} THEN "orphan" ELSE "none"]
  /\ refresh' = [refresh EXCEPT ![p] = @ /\ turn[p].out # "refresh"]
  /\ IF turn[p].out \in Failure
     THEN pc' = [pc EXCEPT ![p] = "caught"] /\ UNCHANGED turn
     ELSE pc' = [pc EXCEPT ![p] = "head"] /\ turn' = [turn EXCEPT ![p] = NoTurn]
  /\ UNCHANGED <<row, archived, inbox, resources, runs, proc, session, stop, seen, calls, live,
                 delivered, budgets>>

\* _run_project caught the failure and reads what became of the project.
HandleFailure(p) ==
  /\ pc[p] = "caught"
  /\ seen' = [seen EXCEPT ![p] = row]
  /\ refresh' = [refresh EXCEPT ![p] = FALSE]
  /\ pc' = [pc EXCEPT ![p] =
              IF row.status \in Halted THEN "off"
              ELSE IF refresh[p] THEN "head"
              ELSE IF row.status \notin Active THEN "off"
              ELSE IF turn[p].out = "retryable" /\ RetryAllowed(NextRetryCount)
                   THEN "reschedule" ELSE "giveup"]
  /\ turn' = [turn EXCEPT ![p] = NoTurn]
  /\ UNCHANGED <<durable, proc, session, stop, calls, live, lost, beat, delivered, budgets>>

\* The retry checkpoint; a conflict escapes and ends the task.
ScheduleRetry(p) ==
  /\ pc[p] = "reschedule"
  /\ IF SwapSucceeds(p)
     THEN /\ row' = Checkpointed(seen[p], "WAITING", seen[p].cursor, "future", "retry")
          /\ pc' = [pc EXCEPT ![p] = "head"]
     ELSE /\ pc' = [pc EXCEPT ![p] = "off"]
          /\ UNCHANGED row
  /\ seen' = [seen EXCEPT ![p] = NewRow]
  /\ UNCHANGED <<archived, inbox, resources, lease, runs, proc, session, stop, turn, calls,
                 live, refresh, lost, beat, delivered, budgets>>

\* The failure checkpoint; a conflict is suppressed.
GiveUp(p) ==
  /\ pc[p] = "giveup"
  /\ row' = IF SwapSucceeds(p)
            THEN Checkpointed(seen[p], "FAILED", seen[p].cursor, "none", "repair")
            ELSE row
  /\ pc' = [pc EXCEPT ![p] = "off"]
  /\ seen' = [seen EXCEPT ![p] = NewRow]
  /\ UNCHANGED <<archived, inbox, resources, lease, runs, proc, session, stop, turn, calls,
                 live, refresh, lost, beat, delivered, budgets>>

-----------------------------------------------------------------------------
(* The lease heartbeat of a running turn *)

\* A coroutine that awaits the session: steer, interrupt, refresh or stop.
Ask(p, op, message) ==
  calls' = [calls EXCEPT ![p] = @ \cup {[op |-> op, message |-> message, answer |-> "pending"]}]

\* The heartbeat wakes up and sends a claim to a worker thread.
SendBeat(p) ==
  /\ pc[p] = "turn" /\ LoopFree(p)
  /\ ~lost[p] /\ beat[p] = "none"
  /\ beat' = [beat EXCEPT ![p] = "claiming"]
  /\ UNCHANGED <<durable, proc, pc, session, stop, seen, turn, calls, live, refresh, lost,
                 delivered, budgets>>

\* The claim renews the lease, takes it back when it expired untaken, or is
\* refused.  A thread whose heartbeat was cancelled claims all the same.
LandBeat(p) ==
  /\ beat[p] \in {"claiming", "orphan"}
  /\ IF LeaseAvailable(p)
     THEN lease' = [owner |-> p, state |-> "held"] ELSE UNCHANGED lease
  /\ beat' = [beat EXCEPT ![p] =
                IF beat[p] = "claiming" /\ ~LeaseAvailable(p) THEN "refused" ELSE "none"]
  /\ UNCHANGED <<row, archived, inbox, resources, runs, proc, pc, session, stop, seen, turn,
                 calls, live, refresh, lost, delivered, budgets>>

\* The heartbeat sees the refusal: the turn is marked and interrupted.
LoseLease(p) ==
  /\ beat[p] = "refused" /\ LoopFree(p)
  /\ beat' = [beat EXCEPT ![p] = "none"]
  /\ lost' = [lost EXCEPT ![p] = TRUE]
  /\ Ask(p, "stop", 0)
  /\ UNCHANGED <<durable, proc, pc, session, stop, seen, turn, live, refresh, delivered, budgets>>

-----------------------------------------------------------------------------
(* The public operations, on the loop of the process that serves them *)

\* (defect: a process that has a session is taken to have a task)
EnsureRunningOnce(p) ==
  pc' = IF pc[p] = "off" /\ session[p] = "none" THEN [pc EXCEPT ![p] = "boot"] ELSE pc

\* ensure_running: create the project task if there is none.
EnsureRunning(p) == pc' = IF pc[p] = "off" THEN [pc EXCEPT ![p] = "boot"] ELSE pc

\* (defect: only an active provider turn is stopped)
StopActive(p) == IF session[p] # "active" THEN UNCHANGED calls ELSE Ask(p, "stop", 0)

\* stop_runtime
StopRuntime(p) == IF session[p] = "none" THEN UNCHANGED calls ELSE Ask(p, "stop", 0)

\* change_project_state for start, pause, resume and stop
Transition(action) ==
  \/ /\ \E s \in Status :
          /\ <<action, row.status, s>> \in PROJECT_TRANSITIONS
          /\ row' = Moved(row, s)
     /\ ~archived
  \/ /\ <<action, row.status>> \in IDEMPOTENT
     /\ ~archived
     /\ UNCHANGED row

\* apply_lifecycle, start or resume: the row, then the project task
Launch(p, action) ==
  /\ LoopFree(p) /\ commands < MaxCommands
  /\ Transition(action)
  /\ EnsureRunning(p)
  /\ commands' = commands + 1
  /\ UNCHANGED <<archived, inbox, resources, lease, runs, proc, session, stop, seen, turn, calls,
                 live, refresh, lost, beat, delivered, interrupts, stalls>>

\* apply_lifecycle, pause or stop: the row, then stop_runtime
Halt(p, action) ==
  /\ LoopFree(p) /\ commands < MaxCommands
  /\ Transition(action)
  /\ StopRuntime(p)
  /\ commands' = commands + 1
  /\ UNCHANGED <<archived, inbox, resources, lease, runs, proc, pc, session, stop, seen, turn,
                 live, refresh, lost, beat, delivered, interrupts, stalls>>

\* apply_lifecycle, archive: refused for an active project, a repeat changes nothing.
ArchiveProject(p) ==
  /\ LoopFree(p) /\ commands < MaxCommands
  /\ IF archived
     THEN UNCHANGED <<row, archived>>
     ELSE /\ row.status \notin Active
          /\ row' = Moved(row, "STOPPED")
          /\ archived' = TRUE
  /\ StopRuntime(p)
  /\ commands' = commands + 1
  /\ UNCHANGED <<inbox, resources, lease, runs, proc, pc, session, stop, seen, turn, live,
                 refresh, lost, beat, delivered, interrupts, stalls>>

\* interrupt pauses an active project after delivering its message.
PauseIfActive ==
  row' = IF row.status \in Active THEN Moved(row, "PAUSED") ELSE row

\* _resource_changed ends by waking the project if it is active.
RunIfActive(p) == IF row.status \in Active THEN EnsureRunning(p) ELSE UNCHANGED pc

\* Every message is stored before the session is asked.
Store == Len(inbox) < MaxMessages /\ inbox' = Append(inbox, "PENDING")

\* submit_message, offered to the session as steering
Steer(p) ==
  /\ LoopFree(p)
  /\ Store
  /\ IF session[p] = "none" THEN UNCHANGED calls ELSE Ask(p, "steer", Len(inbox) + 1)
  /\ UNCHANGED <<row, archived, resources, lease, runs, proc, pc, session, stop, seen, turn, live,
                 refresh, lost, beat, delivered, budgets>>

\* interrupt: the message is stored, the session interrupted, the project paused.
Interrupt(p) ==
  /\ LoopFree(p)
  /\ Store
  /\ IF session[p] = "none"
     THEN PauseIfActive /\ UNCHANGED calls
     ELSE Ask(p, "interrupt", Len(inbox) + 1) /\ UNCHANGED row
  /\ interrupts' = interrupts + 1
  /\ UNCHANGED <<archived, resources, lease, runs, proc, pc, session, stop, seen, turn, live,
                 refresh, lost, beat, delivered, commands, stalls>>

\* _set_resource: a later turn has another environment.
SetResource == resources < MaxChanges /\ resources' = resources + 1

\* set_variable, set_secret, remove_resource: the resource, a queued message,
\* and refresh_resources, which raises the flag before it interrupts.
ChangeResource(p) ==
  /\ LoopFree(p)
  /\ SetResource
  /\ Store
  /\ IF session[p] = "none"
     THEN RunIfActive(p) /\ UNCHANGED <<calls, refresh>>
     ELSE /\ refresh' = [refresh EXCEPT ![p] = TRUE]
          /\ Ask(p, "refresh", Len(inbox) + 1)
          /\ UNCHANGED pc
  /\ UNCHANGED <<row, archived, lease, runs, proc, session, stop, seen, turn, live, lost, beat,
                 delivered, budgets>>

\* (defect: every adapter needs an active turn to interrupt)
InterruptibleOnceActive(p) == session[p] = "active"

\* The session takes an interrupt.  Codex needs the handle of a started turn;
\* Claude sets its flag from the moment run_turn is called.
Interruptible(p) ==
  session[p] \in IF Codex THEN {"active"} ELSE {"starting", "binding", "active"}

\* Until Claude's query is out, an interrupt may find no provider to tell: it
\* raises, or returns and has interrupted nothing.  The flag stays set.
Connecting(p) == ~Codex /\ session[p] = "starting"

InterruptAnswers(p) ==
  IF ~Interruptible(p) THEN {"no"} ELSE {"yes"} \cup (IF Connecting(p) THEN {"raised"} ELSE {})

\* How far the interrupt has come, after an answer to it.
StopsAfter(p, answer) ==
  IF answer = "no" \/ stop[p] = "heard" THEN {stop[p]}
  ELSE IF answer = "raised" THEN {"asked"}
  ELSE {"heard"} \cup (IF Connecting(p) THEN {"asked"} ELSE {})

\* Claude steers while a query is active and not told to stop.
SteerAnswers(p) ==
  IF ~Codex /\ stop[p] # "no" THEN {"no"}
  ELSE IF Connecting(p) THEN {"yes", "no"}
  ELSE {IF session[p] = "active" THEN "yes" ELSE "no"}

Answered(p, c, answer) ==
  calls' = [calls EXCEPT ![p] = (@ \ {c}) \cup {[c EXCEPT !.answer = answer]}]

AnswerSteer(p) ==
  /\ \E c \in calls[p], answer \in SteerAnswers(p) :
       /\ c.op = "steer" /\ c.answer = "pending"
       /\ Answered(p, c, answer)
       /\ delivered' = IF answer = "yes" THEN delivered \cup {c.message} ELSE delivered
  /\ UNCHANGED <<durable, proc, pc, session, stop, seen, turn, live, refresh, lost, beat, budgets>>

AnswerInterrupt(p) ==
  /\ \E c \in calls[p], answer \in InterruptAnswers(p) :
       /\ c.op # "steer" /\ c.answer = "pending"
       /\ Answered(p, c, answer)
       /\ delivered' = IF c.op = "interrupt" /\ answer = "yes"
                       THEN delivered \cup {c.message} ELSE delivered
       /\ \E heard \in StopsAfter(p, answer) : stop' = [stop EXCEPT ![p] = heard]
  /\ UNCHANGED <<durable, proc, pc, session, seen, turn, live, refresh, lost, beat, budgets>>

\* The awaiting coroutines resume.
Resumes(p, c, op) ==
  /\ c \in calls[p] /\ c.op = op /\ c.answer # "pending"
  /\ LoopFree(p) \/ (~Codex /\ c.answer # "yes")
  /\ calls' = [calls EXCEPT ![p] = @ \ {c}]

\* (defect: a message is accepted whatever the session answered)
AcceptAnyway(p, c) == live' = [live EXCEPT ![p] = @ \cup {c.message}]

\* A message the session took is accepted by the turn in progress.
AcceptLive(p, c) ==
  live' = IF c.answer = "yes" THEN [live EXCEPT ![p] = @ \cup {c.message}] ELSE live

SteerReturns(p) ==
  /\ \E c \in calls[p] : Resumes(p, c, "steer") /\ AcceptLive(p, c)
  /\ UNCHANGED <<durable, proc, pc, session, stop, seen, turn, refresh, lost, beat, delivered, budgets>>

\* An interrupt that raised leaves the project as it is.
InterruptReturns(p) ==
  /\ \E c \in calls[p] :
       /\ Resumes(p, c, "interrupt") /\ AcceptLive(p, c)
       /\ IF c.answer = "raised" THEN UNCHANGED row ELSE PauseIfActive
  /\ UNCHANGED <<archived, inbox, resources, lease, runs, proc, pc, session, stop, seen, turn,
                 refresh, lost, beat, delivered, budgets>>

StopReturns(p) ==
  /\ \E c \in calls[p] : Resumes(p, c, "stop")
  /\ UNCHANGED <<durable, proc, pc, session, stop, seen, turn, live, refresh, lost, beat, delivered,
                 budgets>>

\* refresh_resources lowers the flag when nothing was interrupted; an interrupt
\* that raised counts as one.
RefreshReturns(p) ==
  /\ \E c \in calls[p] :
       /\ Resumes(p, c, "refresh")
       /\ refresh' = [refresh EXCEPT ![p] = @ /\ c.answer # "no"]
  /\ RunIfActive(p)
  /\ UNCHANGED <<durable, proc, session, stop, seen, turn, live, lost, beat, delivered, budgets>>

-----------------------------------------------------------------------------
(* Time *)

\* A scheduled retry becomes due.
WakeDue ==
  /\ row.wake = "future"
  /\ row' = [row EXCEPT !.wake = "due"]
  /\ UNCHANGED <<archived, inbox, resources, lease, runs, proc, local, delivered, budgets>>

\* A lease outlives a dead owner by its time to live, or a live owner whose
\* heartbeat comes too late.
LeaseExpires ==
  /\ lease.owner # NoProcess /\ lease.state = "held"
  /\ IF proc[lease.owner] = "dead" THEN UNCHANGED stalls
     ELSE stalls < MaxStalls /\ stalls' = stalls + 1
  /\ lease' = [lease EXCEPT !.state = "lapsed"]
  /\ UNCHANGED <<row, archived, inbox, resources, runs, proc, local, delivered, commands, interrupts>>

-----------------------------------------------------------------------------

Init ==
  /\ row = NewRow
  /\ archived = FALSE
  /\ inbox = <<>>
  /\ resources = 0
  /\ lease = [owner |-> NoProcess, state |-> "held"]
  /\ runs = <<>>
  /\ proc = [p \in Process |-> "new"]
  /\ pc = [p \in Process |-> "off"]
  /\ session = [p \in Process |-> "none"]
  /\ stop = [p \in Process |-> "no"]
  /\ seen = [p \in Process |-> NewRow]
  /\ turn = [p \in Process |-> NoTurn]
  /\ calls = [p \in Process |-> {}]
  /\ live = [p \in Process |-> {}]
  /\ refresh = [p \in Process |-> FALSE]
  /\ lost = [p \in Process |-> FALSE]
  /\ beat = [p \in Process |-> "none"]
  /\ delivered = {}
  /\ commands = 0
  /\ interrupts = 0
  /\ stalls = 0

\* The project task
TaskStep(p) ==
  \/ EnterLoop(p) \/ LeaveLoop(p) \/ BeginTurn(p)
  \/ ClaimCoordinator(p) \/ SnapshotTurn(p)
  \/ CollectFailure(p) \/ DiscardDecision(p) \/ CollectDecision(p)
  \/ CommitTurn(p) \/ FinishCommitted(p) \/ UnwindTurn(p)
  \/ HandleFailure(p) \/ ScheduleRetry(p) \/ GiveUp(p)

\* The provider and its callback
ProviderStep(p) == ReadForBinding(p) \/ BindContinuation(p) \/ ProviderEnds(p)

\* The coroutines that wait on the session
CallStep(p) ==
  \/ AnswerSteer(p) \/ AnswerInterrupt(p)
  \/ SteerReturns(p) \/ InterruptReturns(p) \/ StopReturns(p) \/ RefreshReturns(p)

HeartbeatStep(p) == SendBeat(p) \/ LandBeat(p) \/ LoseLease(p)

HumanStep(p) ==
  \/ \E action \in {"start", "resume"} : Launch(p, action)
  \/ \E action \in {"pause", "stop"} : Halt(p, action)
  \/ ArchiveProject(p)
  \/ Steer(p) \/ Interrupt(p) \/ ChangeResource(p)

Next ==
  \/ \E p \in Process :
       \/ Start(p) \/ Crash(p)
       \/ TaskStep(p) \/ ProviderStep(p) \/ CallStep(p) \/ HeartbeatStep(p)
       \/ HumanStep(p)
  \/ WakeDue
  \/ LeaseExpires

Spec == Init /\ [][Next]_vars

-----------------------------------------------------------------------------
(* Fairness.  The event loop and its threads make progress in a process that
   stays up, the database answers, retry timers fire and leases expire.  A
   provider turn ends in bounded time only after an interrupt has reached it: a
   turn left alone may work for ever, and so may one of Claude's that was only
   flagged while it connected.  The deployment restarts the server.  Nothing
   obliges a person to act or a process to crash.                           *)

Fairness ==
  /\ \A p \in Process :
       /\ WF_vars(Start(p))
       /\ WF_vars(TaskStep(p))
       /\ WF_vars(ReadForBinding(p) \/ BindContinuation(p))
       /\ WF_vars(stop[p] = "heard" /\ ProviderEnds(p))
       /\ WF_vars(CallStep(p))
       /\ WF_vars(LandBeat(p) \/ LoseLease(p))
  /\ WF_vars(WakeDue)
  /\ WF_vars(LeaseExpires /\ proc[lease.owner] = "dead")

FairSpec == Spec /\ Fairness

-----------------------------------------------------------------------------
(* Properties *)

RowType ==
  [status : Status, version : Nat, cursor : Nat, wake : {"none", "future", "due"},
   thread : {"none", "kept"}, step : {"plan", "retry", "repair"}]

TurnType ==
  [messages : SUBSET Nat, env : Nat, run : Nat, retry : Nat, out : Outcome]

CallType ==
  [op : {"steer", "interrupt", "refresh", "stop"}, message : Nat,
   answer : {"pending", "yes", "no", "raised"}]

ProcType    == {"new", "up", "dead"}
PcType      == Busy \cup {"off", "boot", "head", "turn", "unwind"}
SessionType == {"none", "idle", "starting", "binding", "active", "done"}
StopType    == {"no", "asked", "heard"}
BeatType    == {"none", "claiming", "refused", "orphan"}
RunType     == [status : RunStatus, retry : Nat]

DurableOK ==
  /\ row \in RowType
  /\ archived \in BOOLEAN
  /\ inbox \in Seq({"PENDING", "ACKNOWLEDGED"})
  /\ resources \in Nat
  /\ lease \in [owner : Process \cup {NoProcess}, state : {"held", "lapsed"}]
  /\ runs \in Seq(RunType)

TaskOK ==
  /\ proc \in [Process -> ProcType]
  /\ pc \in [Process -> PcType]
  /\ session \in [Process -> SessionType]
  /\ seen \in [Process -> RowType]
  /\ turn \in [Process -> TurnType]

CallsOK ==
  /\ stop \in [Process -> StopType]
  /\ calls \in [Process -> SUBSET CallType]
  /\ live \in [Process -> SUBSET Nat]
  /\ refresh \in [Process -> BOOLEAN]
  /\ lost \in [Process -> BOOLEAN]
  /\ beat \in [Process -> BeatType]

HistoryOK ==
  /\ delivered \in SUBSET Nat
  /\ commands \in Nat /\ interrupts \in Nat /\ stalls \in Nat

\* Only a process that is up has a task, a session or calls; the provider works
\* only for a task that awaits it; a turn names a run that exists.
ControlOK ==
  \A p \in Process :
    /\ pc[p] # "off" \/ session[p] # "none" \/ calls[p] # {} => proc[p] = "up"
    /\ session[p] \in {"starting", "binding", "active", "done"} <=> pc[p] = "turn"
    /\ pc[p] \in {"turn", "commit", "finish"} => turn[p].run \in DOMAIN runs
    /\ pc[p] = "commit" => turn[p].out \in Decision

\* Every message a process refers to has been stored.
MessagesOK ==
  \A p \in Process :
    /\ turn[p].messages \cup live[p] \subseteq 0..Len(inbox)
    /\ \A c \in calls[p] : c.message <= Len(inbox)

\* Every variable has its type, and the control state of each process is
\* consistent: see ControlOK (project task, provider session and run record).
TypeOK == DurableOK /\ TaskOK /\ CallsOK /\ HistoryOK /\ ControlOK /\ MessagesOK

Lifecycle == INSTANCE ProjectLifecycle WITH status <- row.status

\* Whatever the processes, the providers and the people do, in whatever order,
\* the stored status moves only along the edges of the lifecycle
\* (change_project_state, checkpoint_coordinator and its five callers).
LifecycleContract == Lifecycle!LifecycleSpec

\* A project that is paused, stopped, failed, complete or new is set running by
\* a start or resume command and by nothing else: no checkpoint of a turn, a
\* retry or a binding that was under way undoes what a person decided.
OnlyPeopleResume ==
  [][row.status \notin Active /\ row'.status \in Active => commands' = commands + 1]_vars

\* A resumed or restarted coordinator never goes back: each write of the row
\* raises its version, and the guidance cursor never moves backwards, although
\* five writers compute their rows from an earlier read.
CheckpointsOnlyAdvance ==
  [][/\ row'.cursor >= row.cursor
     /\ row'.version > row.version \/ row' = [row EXCEPT !.wake = row'.wake]]_vars

\* In the process that serves its users, a project that is to be run has a
\* task to run it: no interleaving of ensure_running with the ways a task ends
\* (a lifecycle change, a failure, a conflict on the retry checkpoint) leaves
\* it RUNNING or WAITING with nobody to notice.
ActiveHasLoop ==
  \A p \in Process : proc[p] = "up" /\ row.status \in Active => pc[p] # "off"

\* Two processes never work on the project's turn at once, as long as no
\* heartbeat was late: between claim_coordinator and release_coordinator,
\* through every expiry, take-over, cancelled heartbeat thread and crash.
OneTurn ==
  stalls = 0 => \A p, q \in Process : InTurn(p) /\ InTurn(q) => p = q

\* While one server at a time runs the project, a retried turn is one of the
\* policy's attempts, or repeats the last one after a crash or a resource change
\* that kept the loop from giving up.
RetryBounded ==
  \A i \in DOMAIN runs :
    runs[i].retry <= RetryDelays + resources + Cardinality({p \in Process : proc[p] = "dead"})

\* The turn records shown to the team are settled: a run left RUNNING is the
\* turn some process is in, or one that a crash cut short.
RunsSettled ==
  LET inProgress == {turn[p].run : p \in {q \in Process : pc[q] \in {"turn", "commit", "finish"}}}
      orphans == {i \in DOMAIN runs : runs[i].status = "RUNNING"} \ inProgress
  IN Cardinality(orphans) <= Cardinality({p \in Process : proc[p] = "dead"})

\* Guidance is acknowledged only when the runtime really had it: in the prompt
\* of a turn, or taken by the session of an active one.
AcknowledgedWasDelivered ==
  {i \in DOMAIN inbox : inbox[i] = "ACKNOWLEDGED"} \subseteq delivered

\* Once the calls made to the session have returned, the stop flag of a turn at
\* work for a project people have paused or stopped is set, so that its decision
\* is not checkpointed.  The interrupt operation is left out: it pauses after its
\* own call has returned.  Whether the provider hears of it is HaltEndsTurn's.
HaltReachesTurn ==
  \A p \in Process :
    /\ row.status \in Halted
    /\ calls[p] = {} /\ interrupts = 0
    /\ session[p] \in {"starting", "binding", "active"}
    => stop[p] # "no"

\* Once the calls made to the session have returned, the stop flag of a turn at
\* work with an environment which is no longer the project's is set, and the flag
\* that discards what it still decides is up: "discard its stale checkpoint"
\* (refresh_resources; a decision that was made before the change is not meant).
ChangeReachesTurn ==
  \A p \in Process :
    /\ calls[p] = {}
    /\ session[p] \in {"starting", "binding", "active"}
    /\ turn[p].env # resources
    => stop[p] # "no" /\ refresh[p]

\* A pause, a stop or an archive that finds the provider at work on its query
\* ends that turn, unless the project is resumed or interrupted first.  One that
\* comes while Claude still connects only sets the flag ("asked"): the provider
\* then works to its own end, and its decision is thrown away.
HaltEndsTurn ==
  \A p \in Process :
    row.status \in Halted /\ session[p] = "active" /\ stop[p] # "asked"
      ~> pc[p] # "turn" \/ row.status \notin Halted \/ interrupts > 0

\* A scheduled retry is attempted, or overtaken by a person's command, however
\* often the process crashes and is restarted.
RetryHappens ==
  \A n \in 0..(MaxRuns - 1) :
    row.wake = "future" /\ Len(runs) = n
      ~> row.wake = "none" \/ Len(runs) > n \/ \A p \in Process : proc[p] = "dead"

\* A project whose retry was scheduled still has its retry time when no process
\* is in a turn.
RetryStaysScheduled ==
  row.status = "WAITING" /\ row.step = "retry" =>
    row.wake # "none" \/ \E p \in Process : InTurn(p)

=============================================================================
