# A formal model of Limina

TLA+ modules, TLC configurations and TLAPS proofs about this repository. Most of them are about
`src/src/limina_cloud`, the server that runs autonomous research projects: a supervisor per project
that drives a Codex or Claude Code session, the lifecycle and guidance its users control it with, the
research knowledge that concurrent agent lanes write, the team that shares a project and its live
stream, and the credential that all Codex turns of a server share. Two are about `src/scripts`, the
file-based workflow without a server: the notes and the telemetry client. File names below are
relative to `src/src/limina_cloud/` unless they begin with `scripts/`, which is `src/scripts/`.

To check one run: `tlc -workers 2 -config <cfg> <module>`; to check the proofs: `tlapm <module>`.

| modules | what they are |
| --- | --- |
| `ProjectLifecycle` | abstract: what a project's status may do |
| `ProjectSupervisor` | one project, the server processes that run it, its database rows and sessions |
| `ProjectSupervisorProofs` | theorems about it, among them that it implements `ProjectLifecycle` |
| `ResearchRecord` | abstract: research as a record in which each operation happens at once |
| `ResearchGraph`, `ResearchGraphProofs` | hypotheses, experiments, findings under concurrent transactions |
| `SharedCredential` | abstract: what turns that share a credential rely on |
| `CodexAuthGate`, `CodexAuthGateProofs` | the Codex credential: turns, logins, logouts, device logins |
| `TeamRoster` | abstract: the roles of a team and the history its clients are told |
| `TeamAccess`, `TeamAccessProofs` | members and roles, requests and their row locks, live tickets and sockets, the event log |
| `CommandLedger` | abstract: the first use of an id is recorded, and who looks after that is answered from it |
| `SharedKnowledge`, `SharedKnowledgeProofs` | tags, relations, views, sources and uploads, repeated comments and commands |
| `KnowledgeBase`, `KnowledgeBaseProofs` | the notes of a workspace: their creator, validator and hook |
| `Telemetry`, `TelemetryProofs` | the telemetry client: consent, sessions and the outbox |
| `MC...` (one per detailed module) | small instances for TLC |

## 1. The system

### Components, their state and operations

| component | state | operations |
| --- | --- | --- |
| Project supervisor (`supervisor.py`) | per process: one asyncio task and one provider session per project, `_live_messages`, `_resource_refresh`, `_lease_lost` | `recover`, `ensure_running`, `_run_project`, `_run_turn`, `_bind_continuation`, the lease heartbeat; `steer`, `interrupt`, `stop_runtime`, `refresh_resources` on behalf of API handlers; `shutdown` |
| Coordinator row, lease, inbox, receipts (`service.py`) | `CoordinatorState` (status, version, cursor, wake, thread), `WorkLease`, `InboxMessage`, `CommandReceipt`, `Event` | `claim_coordinator`, `release_coordinator`, `checkpoint_coordinator` (compare-and-swap), `send_message`, `inbox`, `_execute` (idempotent commands), the event pages |
| Project lifecycle and resources (`project_service.py`) | the same row, `Challenge.status`, `ProjectResource` | `change_project_state` for start, pause, resume, stop, archive; `set_variable`, `set_secret`, `remove_resource` |
| Public operations (`operations.py`) | none | each operation's authorization, then `apply_lifecycle`, `steer`, resource, member and knowledge operations: a service call, then the supervisor |
| Runtime adapters (`runtime.py`, `retry.py`) | a turn's handle or client, activity and stop flags | `run_turn`, `steer`, `interrupt`; which failures are retried and when |
| Research knowledge (`research_service.py`) | `Artifact`, `ArtifactRevision`, `Observation`, `WorkLease`, `IdCounter` | create and decide a hypothesis; create, claim, observe, complete an experiment; publish a finding |
| Codex login gate (`codex_auth.py`) | reader/writer gate, ChatGPT turn lock, device attempts, `auth.json` | `turn`, `ensure_ready`, `login_from_environment`, `logout`, `start_device_login`, `cancel_device_login` |
| Workspace collaboration (`collaboration.py`) | `RuntimeRun`, `ProjectMember`, `LiveTicket`, drafts | `start_run`, `finish_run`, `next_retry_count`; `require_role`, `set_member`, `remove_member`, `update_draft`, `issue_live_ticket`, `consume_live_ticket` |
| Shared knowledge (`knowledge_collaboration.py`) | tags, relations, saved views, sources, comments | put, drop and repeat each of them |
| HTTP, WebSocket, MCP (`api.py`, `internal_api.py`, `runtime_api.py`, `mcp.py`) | the cursor of a live stream, the file of an upload | routing; `live`, `upload_source` |
| Knowledge base scripts (`scripts/kb_*.py`, `scripts/hooks/`) | the Markdown notes under `kb/` | create a note and its backlinks; validate; refuse a write |
| Telemetry client (`scripts/telemetry.py`) | `config.json`, `session.json`, `outbox.jsonl` | `ensure`, `consent`, `emit`, `flush`, each a process of its own |
| Rate limiter, vault, identity, exporter, clients, other scripts | little or none that is shared | see section 7 |

Interaction. An API handler asks for its caller's role in a transaction of its own, then commits a
row, then awaits the project's session (`steer`, `interrupt`) and commits again or resumes. The
project task reads the same row at the head of its loop, takes the coordinator lease, starts the
provider's turn and checkpoints its decision; the provider's thread writes the continuation into the
row while the turn runs; the heartbeat renews the lease from a worker thread. Several processes may
serve one database; only the row's version and the lease stand between them. What commits writes an
event, which the live sockets of the project read page by page. Agent lanes write research knowledge,
and people comments, tags and sources, in transactions of their own. Every Codex turn of a process
goes through the login gate. The scripts share nothing with the server: agents, hooks and people run
them at once on one directory that nothing locks.

### What is hard about it

* Five writers compute the coordinator row from an earlier read (lifecycle command, turn, binding,
  retry, failure), each with a transaction of its own.
* Every `await` on a session is a gap in which turns end, messages arrive and projects are paused.
* A cancelled heartbeat leaves its database call running in a thread.
* Crashes leave leases, run records and scheduled retries behind for the next process.
* Research operations are several statements at READ COMMITTED, some of which decide from a row
  they read without a lock; so are those of shared knowledge, which lock nothing at all.
* A role is asked for in one transaction and used in the next, and by a socket for hours.
* An event's number is drawn before its transaction commits, while readers go on from the last
  number they saw.
* Transactions take the project's row, its coordinator and references to them in different orders.
* The credential's writer is held across requests, by a device login whose end three parties may
  hear of, and released by whoever finishes it.
* Scripts read a file, do something that takes time (a request, a person's answer), and write the
  file back.

### What makes each component correct

* Supervisor: paused means paused (no checkpoint undoes a person's command); a project that is to
  run has a task; one turn at a time across processes; a retry is attempted, boundedly often; a
  pause reaches the provider; the cursor and the version only advance.
* Guidance: acknowledged only if the runtime had it.
* Lifecycle: the status moves along the documented edges only; an archived project rests.
* Research: the audit trail is complete; completed evidence is final; findings rest on completed
  experiments; one lane writes an experiment.
* Login gate: changes exclude each other and turns; a turn keeps its credential; ChatGPT turns are
  serialized; auto mode preserves a person's login; nobody waits for good.
* Team: a project keeps an owner; what is done was allowed; a ticket opens one socket; drafts end
  with the first start; a live stream tells of every change of the team; requests do not block each
  other for good.
* Shared knowledge: a repeated command takes effect once and is answered as the first time, unless it
  is conditional (it compares a version, needs a lease, removes something), overlapped the first and
  failed; an answer
  stands until the next request about the same name; an uploaded source has its file.
* Notes: every experiment and finding has its parents; no note loses its own links; ids are unique
  and the validator is satisfied unless runs got in each other's way.
* Telemetry: an event reaches the relay once; numbers of a session differ; a decline holds.

The hazards behind these are listed with their lines in `PROJECT.json`.

## 2. How the project was built, and what could follow

The order was: the supervisor and its lifecycle, the core of the server; research knowledge; the login
gate; then the file-based workflow (`KnowledgeBase`, `Telemetry`), the team and its live stream
(`TeamAccess`), shared knowledge with command receipts (`SharedKnowledge`). Each module was checked
with TLC first and proved afterwards, from the types up. `ProjectSupervisor` is the module that
composes processes, sessions and database. Each module about the server implements an abstract
specification of what its users rely on, written for a reader who does not want to know of statements,
threads or locks; the detailed module instantiates it with a refinement mapping, a run checks the
result as a property (`...Contract`), and a theorem proves it:

| detailed | implements | what the abstract one leaves out |
| --- | --- | --- |
| `ProjectSupervisor` | `ProjectLifecycle` | processes, turns, leases, crashes: the status moves along its edges |
| `ResearchGraph` | `ResearchRecord` | transactions and their statements: each of the seven operations is one step |
| `CodexAuthGate` | `SharedCredential` | gate, lock, waiter threads, failing reads: turns are admitted to a credential |
| `TeamAccess` | `TeamRoster` | row locks, number draws, pages: roles change one at a time and clients are told so |
| `SharedKnowledge` | `CommandLedger` | requests that overlap or die: an id is used once, and who looks after that is answered from it |

What could follow: the supervisor's graceful shutdown, which cancels the tasks instead of killing
them, and the pages and listings of the team's interface.

## 3. How the models correspond to the code

`PROJECT.json` maps every definition that models code to its lines. In outline:

### ProjectSupervisor

One project, any number of processes. A process is started once and may crash at any step; its
restart is another element of `Process`, because every process draws a fresh `runtime_id`. Code
between two awaits cannot be interleaved with other coroutines of its process, but each database
transaction in it can be interleaved with other processes and with the Codex thread: an action is
one transaction, and `LoopFree(p)` says when the loop of `p` may run another coroutine (a Claude
session calls back on the loop, a Codex session from a thread of its own).

| state | code |
| --- | --- |
| `row`, `archived`, `inbox`, `resources`, `lease`, `runs` | `CoordinatorState`, `Challenge.status`, `InboxMessage`, committed changes of `ProjectResource`, `WorkLease`, `RuntimeRun` |
| `pc`, `seen`, `turn` | where the project task is in `_run_project` and `_run_turn`, the row it will compare with, its locals |
| `session`, `stop` | the adapter: idle, starting (no handle yet), binding the continuation, active, done; whether its stop flag is set (`"asked"`) and an interrupt has reached the provider (`"heard"`) |
| `calls` | API handlers and the heartbeat awaiting `steer` or `interrupt`, with the answer once there is one |
| `live`, `refresh`, `lost`, `beat` | `_live_messages`, `_resource_refresh`, `_lease_lost`, the heartbeat's claim in its thread |

| actions | code |
| --- | --- |
| `Start`, `Crash` | `recover`; the process ends anywhere |
| `EnterLoop`, `LeaveLoop`, `BeginTurn`, `HandleFailure`, `ScheduleRetry`, `GiveUp` | `_run_project` |
| `ClaimCoordinator`, `SnapshotTurn`, `CollectDecision`, `CollectFailure`, `DiscardDecision`, `CommitTurn`, `FinishCommitted`, `UnwindTurn` | `_run_turn` |
| `ReadForBinding`, `BindContinuation`, `ProviderEnds` | `_bind_continuation` and the provider, `runtime.py` |
| `SendBeat`, `LandBeat`, `LoseLease` | the heartbeat |
| `Launch`, `Halt`, `ArchiveProject` | `apply_lifecycle` with `change_project_state` |
| `Steer`, `Interrupt`, `ChangeResource` and their `Answer...`, `...Returns` | `steer`, `interrupt`, `refresh_resources`, before and after the await |
| `WakeDue`, `LeaseExpires` | the passing of time |

Time is the order of events: a retry lies in the future until `WakeDue`, a lease lapses at any time
once its owner is dead, and, a bounded number of times (`MaxStalls`), while its owner lives but its
heartbeat is late.

### ResearchGraph

Seven operations, each a transaction of several statements. A transaction's `phase` and locals are
in `tx`; what a statement locks stays locked until the end; what it wrote appears when it commits.
A statement whose outcome depends on committed data of others is a step of its own, so a status read
first and relied on later (`claim_experiment`, `decide_hypothesis`) is stale exactly when it can be
in the code. `Abort` rolls back anywhere: failed guard, unique index, deadlock, lost connection.
The record of `ResearchRecord` is made of what is committed: an artifact's `history` is the sequence of
statuses its revisions tell, the `holder` of an experiment the owner of its live lease.

### CodexAuthGate

Every caller is a thread: a project's turn, or a control request. `readers` and `writer` are the
fields of the gate; `WritersWaiting` is `_writers_waiting`. A turn looks at the account (`EnterCheck`,
`FinishCheck`), may log in under the writer (`AwaitWrite`, `EnterWrite`, `EnsureReady`), enters again,
reads the account anew (`EnterTurn`, `AdmitTurn`) and queues if the account is a ChatGPT one. A device
login takes the writer in one request (`BeginDevice`, `OpenDevice`, `SpawnWaiter`) and gives it up in
its waiter thread (`WaiterReturns`, `CloseAttempt`) or in a cancellation (`RequestCancel`,
`CancelHandle`, `FinishCancel`, `CloseCancelled`). Any account read may fail, a waiter thread may fail
to start, and a restart forgets everything but `auth.json`. In `SharedCredential` a turn is `admitted`
from `AdmitTurn` on and `atWork` once it has the ChatGPT lock, if it needs it; the gate, its readers and
its waiters are invisible there. The contract ends (`intact`) when a waiter thread cannot be started,
because the attempt left behind can be cancelled later, which releases a writer that is not its own.

### TeamAccess

One project on PostgreSQL with several API replicas. A `Command` arrives with a request (`Ask`, `Arrive`)
or as a message on an open socket (`Send`). `Check` looks its caller's role up in a transaction of its
own; then come the statements its operation is made of (`Statements`), each an action: `LockChallenge`,
`CountOwners`, `OwnCoordinator`, `ReadDraft`, `UpdateCoordinator`, `UpdateChallenge`, `InsertMessage`,
`DrawSequence`, `InsertEvent`, `IssueTicket`, `Commit`. `locker`, `sharers`, `updater` and `owner` are
the locks of the project's and the coordinator's row (`FOR UPDATE`, the `FOR KEY SHARE` of a foreign
key, an update's `FOR NO KEY UPDATE`); `BreakDeadlock` is the database aborting one of those who wait
for each other. `next` is the sequence of events: an event has its number (`seq`) before it is in the
`log`. A socket opens with a ticket (`RedeemTicket`, `UseTicket`) or a bearer token (`OpenWithToken`) and
reads pages of the log behind its `cursor` (`Poll`). Requests may be killed at any step. The `trail` of
`TeamRoster` is the membership events of the committed log, `seen` those of them a socket was sent;
a socket that is opened anew starts over. A ticket carries its user's instance-wide administration
(`InstanceAdmin`, nobody in the run), but not that of a project.

### SharedKnowledge

A request (`Arrive`) reads its row (`Read`), writes it in a later statement (`Insert`, `Update`,
`Retire`, `Delete`) and commits; nothing is locked in between. `table` is what is committed, `holder`
who has an uncommitted write to a row, `loaded` and `image` the row as SQLAlchemy loaded it and as it
will commit it: an update writes the columns that differ, and no others. Tags, relations, views and
sources have a name, comments and commands the id their client gave them; an insert that meets another
waits for it and then fails on the unique constraint, after which a repeated comment or command looks
again in a new session (`LookAgain`) and the others are refused (`Refuse`). A command that found no receipt
(`Read`) runs its operation before it writes one: a `conditional` use, whose operation compares a
version, needs a lease or names something that may be gone, can fail there (`FailCondition`), also because the
first use of its id, which it waited for, has already done it. `_execute` looks again after an `IntegrityError` only, so
that error goes to the client. `Upload` completes a file
before its source is configured; a worker may be killed (`Kill`). The `entry` of an id in
`CommandLedger` is the committed row of its comment or receipt, `trying` the uses that found the id unused
(`UseOf`), `answers` what clients were told.

### KnowledgeBase

A run of `kb_new_artifact.py` checks its parents and takes an id (`Begin`), writes its note
(`WriteArtifact`), and then reads and writes back one parent after another (`ReadParent`,
`WriteParent`); it may be killed in between (`Crash`). `AgentWrites` is the agent's own `Write`
(`WriteByHand`), as far as the hook lets it (`HookAllows`). `Errors` are the checks of
`kb_validate.py`, `CountHWithoutE` the count of the telemetry snapshot.

### Telemetry

A command is a process of its own (`Run`); its step reads or writes one of `config`, `session` and
`outbox`, or is a request with the write that follows its answer. `cfg`, `ses` and `queue` are what a
process has read and will write back. `relay` counts what the relay has processed. `excused` is a
history variable: the overlaps in which the code may lose, repeat or misnumber something, each recorded
at the step that causes it, so that the properties hold of everything else.

## 4. Runs

| run | instance | what it shows |
| --- | --- | --- |
| `supervisor_codex` | Codex, a process and its restart, 1 message or resource change, 2 commands, 2 turns, 1 retry; 377,000 states | `ActiveHasLoop`, `RunsSettled`, `AcknowledgedWasDelivered`, `CheckpointsOnlyAdvance` |
| `supervisor_replicas` | two processes at once, 2 commands, 1 turn, 1 late heartbeat; 776,000 states | `OneTurn` across crash, expiry and take-over; `LifecycleContract` (the refinement) and `OnlyPeopleResume` |
| `supervisor_retry` | crash and restart, 3 turns, fairness; 74,000 states | `RetryBounded`; `RetryHappens`: a scheduled retry is attempted |
| `supervisor_claude` | Claude Code, 3 commands, 1 message, fairness; 122,000 states | `HaltReachesTurn`: a pause sets the turn's stop flag; `HaltEndsTurn`: it ends a turn whose provider is at work on its query; `ChangeReachesTurn`: a resource change sets that flag, and the one that discards the decision stays up |
| `research` | two transactions of two lanes at a time, one hypothesis, experiment and finding, versions to 3, 2 observations, 2 lapses; 99,000 states | `HistoryComplete`, `FindingsRest`, `OneWriter`, `EvidenceFrozen`; `RecordContract` |
| `auth_gate` | three threads, three configurations, 3 requests, 2 device logins, 1 failed read, 1 thread that cannot start, 1 restart, fairness; 222,000 states | `ChangesExclude`, `TurnKeepsCredential`, `PreservesLoginWhenRead`, `EveryoneAnswered`; `CredentialContract` |
| `team_access` | two people, two requests and two sockets at once, 2 requests or messages, 1 ticket, 1 kill; 699,000 states | `OwnerRemains`, `TeamTrail`, `TicketOnce`, `ActsByRole`, `KickoffSettled`, `OnlyDraftsDeadlock`; `RosterContract` |
| `shared_knowledge` | two requests at once, four in all, one name per table, commands also used conditionally, 1 kill; 1,915,000 states | `AnswerStands`, `UploadBacked`; `LedgerContract` |
| `knowledge_base` | two runs of the creator at once, three in all, five kinds of notes, two titles, ids to 2, 1 note or run that does not fit; 1,394,000 states | `ChainHolds`, `OwnLinksKept`, `UniqueIds`, `CreatedNotesValidate` |
| `telemetry` | two processes at once, 3 commands, 2 events, 2 sessions, 1 failure; 1,581,000 states | `EachOnce`, `NumbersDiffer`, `DeclineHolds` |
| `lost_retry`, `snapshot_counts` | small instances | violations, section 6 |

`supervisor_codex` also checks `TypeOK`; the types of the other modules are proved and not run. Three
properties of earlier runs are proved and no longer run, because the contracts say the same and more:
`AddedUnderTest` (in `RecordContract`), `OneChatgptTurn` (in `CredentialContract`), `CommandOnce` (in
`LedgerContract`). Every property of a
passing run has a mutant of the code in `PROJECT.json` (an operator marked "defect" in the module)
that breaks it, so none holds for want of the case it is about.

Why the bounds are enough. The races are between two parties: a command and a turn, a turn and its
successor, a process and the one that takes over, a claim and a completion, a cancellation and a
waiter, two demotions, two runs that take an id, a flush and an emit. Two turns let a first one fail, bind
or leave a message behind for the next; the third of `supervisor_retry` is the one that must not be
made; two commands are a start and the decision that contradicts it, three a decision that is taken
back. In `research`, two sessions are a writer and all that commits while it is under way, which may be
several transactions one after another; the second lapse is that of the lane that took over, and
version 3 of a hypothesis is a decision on a decision. In `auth_gate` three threads are a turn, a
second turn in the queue and a change; the second device login is the one a stale release would hit.
In `shared_knowledge` the third and fourth request come after a pair that raced, one of which may be a
conditional use of the other's command. In `knowledge_base`
the third note is the child of two others, or of one that shares its id with another. In `telemetry` the
third command is the one that flushes what two overlapping ones left. The proofs of section 5 lift
the safety properties they cover from these bounds.

Deadlock is not checked where the instance is finite by its bounds: requests, commands, turns or
versions are spent, a project is archived or every process is dead, and then nothing has to happen.
In `team_access` a draft and a lifecycle command may really wait for each other until the database
aborts one; `OnlyDraftsDeadlock` says that no other transactions do. That nobody waits for good is a
property instead (`RetryHappens`, `HaltEndsTurn`, `EveryoneAnswered`, and `ActiveHasLoop` as its
safety part).

Fairness. `ProjectSupervisor`: a process that stays up runs its task, its calls and its claims (one
event loop and its threads, and a database that answers); a server that was never started starts (the
deployment restarts it); retry timers fire and leases of dead owners expire; a provider turn is only
obliged to end after an interrupt has reached its query (`stop = "heard"`), never by itself and never
because the adapter's flag was set while Claude connects; nobody is obliged to act, and nothing to
crash. `CodexAuthGate`: threads run, the gate's `notify_all` wakes them, the Codex client
returns (the access-token login has a timeout; of the other calls it is assumed) and a device code is
confirmed or expires. Nothing obliges a turn to end; that no turn works for ever is a hypothesis of
`EveryoneAnswered` itself. Since requests are bounded, that property shows that nobody blocks another
for good; it does not say that turns survive an endless stream of logins, which the writer-preferring
gate does not promise. The other modules state no fairness: their
processes end by themselves, may be killed anywhere, and promise nothing that must eventually happen.

## 5. What is proved

The theorems hold for every set of processes, lanes, callers or requests and every bound, from the
named assumptions on the constants (`ConstantsOK`, `GraphConstants`, `LaneNames`, `GateConstants`,
`TeamAssumption`, `SharedKnowledgeAssumption`, `KnowledgeBaseAssumption`, `TelemetryAssumption`): the bounds are natural
numbers, the "nobody" values are not elements of their sets, the set of callers is finite, what is
asked for and what is stored at first has the shape the code gives it, and a note's number has three digits
(`MaxId <= 999`).
Each is stated for `Spec`, hence also for `FairSpec`, which only adds conjuncts.

**Supervisor.** `TypeCorrect` is type correctness with the consistency of each process's control
state (a provider works only for a task that awaits it, a turn names a run that exists).
`ImplementsLifecycle` is the refinement: the initial state maps to `LifecycleInit`, and every step
of every process is a `Command`, an `Archive`, a `Checkpoint` or leaves status and archive alone. It
needs more than types: a checkpoint writes a status computed from a row read earlier, so the step is
an edge of the lifecycle only because the compare-and-swap succeeded and rows of one version are
equal. The invariant `LifecycleInv` says so: what a process has `seen` is not from the future and,
if its version is the current one, agrees with the row (`SeenIsPast`); a row of the first version is
the new one (`FirstVersion`); an archived project is stopped (`ArchivedIsStopped`); a process about
to reschedule or give up read an active project (`FailureReadActive`). `PeopleDecide`
(`OnlyPeopleResume`) and `CheckpointsAdvance` (`CheckpointsOnlyAdvance`) follow from the same
invariant. `TurnsExclude` (`OneTurn`) rests on `LeaseInv`: while no heartbeat was late, a process in
a turn owns an unexpired lease (`TurnHoldsLease`).

`AcknowledgementsAreTrue` (`AcknowledgedWasDelivered`) rests on `DeliveryInv`: a message that the inbox
cursor or an acknowledgement covers was given to a provider, and so was every message a turn has taken
into its locals and not yet acknowledged (`TakenIsDelivered`). `RecordsSettle` (`RunsSettled`) rests on
`SettledInv`: the open runs that no turn is at work on (`Orphans`) are at most as many as the processes
that died, since a process loses at most the one run it is in.

Four theorems assume `MaxUp <= 1`, that is, at most one server runs at a time, with any number of
crashes and restarts; their runs have `MaxUp = 1` too. With replicas they are not properties of this
code: a loop is attended on the replica that started it only, a halt or a resource change is heard only
by the replica that was told, and section 6 has the retry. `ActiveIsAttended` (`ActiveHasLoop`) rests on `ServerInv`: one
process is up (`OneServer`), and an active project has its loop there, or someone about to start it
(`Attended`). `RetriesAreBounded` (`RetryBounded`) counts the attempts made and those a policy still
allows (`Attempts`, `Slack`) through `CountsInv`, which needs that a raised wake flag has its reason
(`FlagsInv`, `WakeWaits`). `HaltsAreHeard` (`HaltReachesTurn`), for the Claude adapter, rests on
`HaltInv`: from the moment the row says stop, the turn's stop flag is set or a caller is on its way to
set it (`ToldToStop`). That the provider itself hears of it is not claimed: see section 6. `ChangesAreHeard` (`ChangeReachesTurn`), for the same adapter, rests on `ChangeInv`: a
session at work with an old environment has its flag set or is about to have it set, and no call that would lower
the flag was answered while it works (`Outdated`).

**Research graph.** `GraphInv` relates rows, revisions, leases and the locals of transactions: what
a transaction read is not newer than the row, revisions are exactly the versions below, a locked row
is as its holder left it. From it: `AuditTrailComplete` (`HistoryComplete`), `EvidenceIsFinal`
(`EvidenceFrozen`; the stale claim is stopped by the uniqueness of revisions), `FindingsGrounded`
(`FindingsRest`), `ExperimentsAddedUnderTest` (`AddedUnderTest`), and with `WriterInv`
`WritersExclude` (`OneWriter`). `ImplementsRecord` (`RecordContract`) maps each commit to one operation
of `ResearchRecord`, and every other step to a stutter. What a transaction has checked must still be so
when it commits. `RecordInv` joins to `GraphInv` and `WriterInv` that a live lease has a lane that
holds it and that a claim that found the lease free holds its row, so that it stays free (`LeaseInv`),
and that a hypothesis has no parent (`RootInv`), so that proposing or deciding one leaves the parents
alone. `LaneNames` says that the value for "no lane" is not a lane.

**Login gate.** `GateInv` adds to the four invariants of the run what connects an attempt to those
who work on it: an attempt whose waiter is being started is nobody else's (`SpawningOK`), a waiter
that closes has finished its attempt (`ClosingOK`), a login that can still be confirmed has not
released its writer (`OpenOK`), a turn at work on a ChatGPT account has the lock (`ChatOK`). Each step
then keeps, takes, releases or hands over the writer (`WriterKept` ... `WriterHandedOver`), which gives
`ChangesAreExclusive` (`ChangesExclude`); only a writer changes the account and no reader is beside a
writer, which gives `CredentialStable` (`TurnKeepsCredential`) and, with `ChatOK`,
`ChatgptTurnsSerialized` (`OneChatgptTurn`). `LoginPreserved` (`PreservesLoginWhenRead`) needs types
only. Counting readers uses the library's theorems about finite sets. `ImplementsSharedCredential`
(`CredentialContract`) takes the steps that move a turn one by one: it is admitted under a credential
that is there, gets a ChatGPT account only when nobody is at work, and whoever changes the credential
does so with no turn admitted. It needs one more invariant, `QueueOK`: who queues was admitted under a
ChatGPT account, so a turn taken from the queue does not start work on another credential.

**Team.** `OwnerInv` says that a request that has counted the owners holds the project's row, so what it
counted is still so when it writes: `AnOwnerRemains` (`OwnerRemains`). `RequestInv` keeps the role a
request was granted among those its caller has had since: `ActionsByRole` (`ActsByRole`) and
`KickoffIsSettled` (`KickoffSettled`). `TicketInv` ties a ticket's use to the one transaction that
redeems it: `TicketsOpenOnce` (`TicketOnce`). `LockInv` gives every lock its holder's place in its
statements; the wait-for argument of `DraftsOnlyDeadlock` (`OnlyDraftsDeadlock`) is that whoever
holds the project's row waits for nobody but a draft's or a command's coordinator. `TrailInv` relates numbers that are
drawn to the lock their transaction holds, which gives `TrailIsTrue` (`TeamTrail`). `ImplementsRoster`
(`RosterContract`) shows that a commit of a member command is one change of the roster whose event is
later than all before, and that a page continues what a socket has seen. It rests on `OwnerInv` and
`TrailInv` and on two further invariants: a removal that has counted the owners removes somebody who
is a member (`RemovalInv`), and no socket was sent anything beyond its cursor (`StreamInv`).

**Shared knowledge.** `CommandsOnce` (`CommandOnce`): all who are answered about an id are told its
committed row, refused because theirs is another use, or told that their conditional use failed. An
uncommitted row has one holder, nobody has been answered with a row before it is committed, and only
conditional uses fail (`OnceInv`). `UploadsAreBacked` (`UploadBacked`): what a
request asks for and what it will commit refers to complete files (`FilesInv`). `AnswersStand`
(`AnswerStands`): while one request is about a name (`OneAtATime`), what it has loaded is what is
committed, and what it will commit is what it will answer (`StandsInv`). `ImplementsLedger`
(`LedgerContract`) follows from `OnceInv`: a ledger row is never changed or removed (`EntriesKept`), a
use is tried only when its id was found unused (`TryStep`), and whoever is answered committed the row
(`CommitStep`), reads it from the table (`RepeatStep`) or failed a condition (`FailStep`); a request that
dies or is about something else gives up its use (`LoseStep`) or moves nothing in the ledger.

**Notes.** Links only grow in every copy a run has in hand (`BufferOK`), so `LinksSurvive` (`OwnLinksKept`);
parents were found before the note is written and files are never removed, so `ChainUnbroken`
(`ChainHolds`); without a conflict the id a run has taken is above every file and every other run's
(`FreshIds`), so `IdsAreUnique` (`UniqueIds`). `CreatorSatisfiesValidator` (`CreatedNotesValidate`) adds
`ValidInv`: the copy of a parent that a run is about to write back is what the file still says
(`FitRun`), because no two runs have a parent to edit in common (`Apart`); so a link that is written is
never lost, and a backlink that is missing is one some run will still write (`LinkedBack`).

**Telemetry.** `ADeclineHolds` (`DeclineHolds`): no process is past its look at the consent
(`Calm`, `Registering`) unless a decline that met it was excused. `EventsOnce` (`EachOnce`) has two halves: what is queued is
in the outbox or was processed, and so for what follows each batch that was sent (`LossInv`); and one
flush at a time has only events in hand that differ and were not processed, while a number that is drawn
is in nobody's hands (`DoubleInv`). `NumbersAreUnique` (`NumbersDiffer`): every session record, in the file or in a
process that will save it, has the highest number given in its session (`UniqueInv`).

Model-checked only: the liveness properties `RetryHappens`, `HaltEndsTurn` and `EveryoneAnswered`
(liveness under fairness is outside what the prover does here). Every safety property of a passing run
is the statement of a theorem, four of them for one server at a time.

## 6. Disagreements found

Two runs end in a counterexample; `PROJECT.json` quotes the lines.

* `lost_retry`: binding the continuation in a retried turn clears the retry time; a crash before that
  turn's checkpoint leaves the project waiting for nothing.
* `snapshot_counts`: the telemetry snapshot reads the wikilink of an experiment's metadata line, not
  the bare id of its frontmatter, so a hypothesis counts as having no experiment although it has one.

A third has no run of its own, since it is the other half of one: a resource change that comes while a
Codex turn waits at the login gate or binds its thread finds no handle to interrupt, and
`refresh_resources` (`supervisor.py:178`) lowers the flag again, so the turn goes on with the old
environment and its decision is checkpointed, where `docs/cloud-runtime-architecture.md:156-158` says that
changes "interrupt active work, discard its stale checkpoint, and restart the turn". `ChangeReachesTurn`
fails in `supervisor_claude` with `Engine = "codex"`. On the Claude adapter the flag stays up and the
decision is discarded; when the change comes while Claude connects, the turn is not interrupted either,
but works to its own end first.

The models also have these behaviours, without a run of their own, because they follow from how the
code is meant to work or no line says otherwise:

* A message that was queued, followed by one delivered live in the same turn, stays pending behind the
  inbox cursor: it is in no later prompt and keeps waking the project.
* A resource change that finds the turn already over, but not yet collected, lowers its own flag, and
  the decision made with the old environment is checkpointed, on either adapter.
* A pause or stop while the Codex turn has no handle yet is not heard by it, so the provider works on,
  and its decision is checkpointed under the status people chose.
* A pause, stop or archive while Claude connects (`runtime.py:457-465`) only sets `_stop_requested`, which
  is read after the whole response (483, 489): the query is sent all the same, the provider works until
  it ends by itself, and its decision is thrown away. `HaltReachesTurn` is about the flag;
  `HaltEndsTurn` leaves this window out, since nothing obliges such a provider to end.
* In the same window `client.interrupt()` may raise, because the client has no query yet. The interrupt
  operation has then stored its message and set the flag, but its exception passes over the pause
  (`supervisor.py:190-205`): the turn fails with the project still RUNNING, which makes it FAILED.
* A halt that interrupts a turn can be recorded as a failure of the run or as an interruption,
  depending on which coroutine comes first.
* When both account reads of a Codex turn fail, auto mode replaces a person's ChatGPT login by the
  server's credential; `PreservesLoginWhenRead` shows that failing reads are the only cause.
* With two replicas a failed turn can be retried once more than the policy allows: the second replica
  takes the lease, with the last attempt's failure still in the row, between the first one's release
  of the lease and its giving up (`RetryBounded` fails in `supervisor_retry` with `MaxUp = 2`).
* A conditional command that is repeated while its first use is still open finds no receipt, waits for a
  row the first one has locked, and then fails its own condition: a `ConflictError` for the version it
  compares (`service.py:277`, `642`), a `LeaseConflictError` (183), a `NotFoundError` for what was removed.
  Only an `IntegrityError` looks for the receipt again (489-502), so the client is told of a failure
  although its command was carried out; when it asks once more, it is answered from the receipt.
* After note 999 of a kind, `next_id` gives number 1000 to every further note, because it reads three
  digits only (`kb_new_artifact.py:112-121`). The model and its theorems stay below that.
* SQLite has no row locks: two demotions at once, on the one process such a server has, can still
  overlap in its threads. `TeamAccess` is about PostgreSQL.

## 7. What is not modelled

* Supervisor: graceful `shutdown()` (a crash at any step covers what it can leave behind, not the
  cancellation of awaits in `finally`), exceptions from a provider's `steer` or `interrupt` other than those of a
  Claude client that is still connecting, a failing
  `start_run`, failing event inserts, the two reads behind a turn's environment (one step here), the
  two reads of the failure handler (one step), the contents of prompts and Claude's leftovers of
  steering between queries.
* Research graph: texts, and the error a rolled-back client sees.
* Login gate: status requests, the pruning of finished attempts at 32, file permissions, `close()` at
  shutdown, requests the gate refuses. The attempt a failed thread start leaves PENDING is in the
  model; what a cancellation of it does to a later writer is excluded from the properties by their
  `spawnFailures = 0`.
* Team: the contents of drafts and events, usage rows and listings, the page size of 200. Events of
  kinds other than members' may be skipped by a stream, and a removed member's stream goes on until its socket
  closes: both are in the model and no property denies them.
* Shared knowledge: contents, the graph and timeline queries, roles (they are `TeamAccess`'s).
* Notes: `kb_provenance.py`, `kb_write_guard.sh`, `stop_validate.sh` and `generate_goal.py` check or
  print, and keep no state; a file is written in one step; a parent is named by its id; `--link` is in the model and
  the proofs but not in the run (`Related` is empty there).
* Telemetry: contents of events, tiers of consent, the proof of work, the relay's address and the
  limit of a batch, whose events count as one request here.
* `notion_sync.py` mirrors the notes in one sequential run and saves its page map at the end.
* Rate limiter, vault, identity, exporter, command-line clients, engine settings and migrations: pure
  functions, schema or I/O with no protocol between steps.
