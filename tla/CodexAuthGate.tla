--------------------------- MODULE CodexAuthGate ---------------------------
(***************************************************************************)
(* The Codex credential of a server process and who may use or change it:  *)
(* the writer-preferring gate, managed turns, which share it for reading,  *)
(* and the operations that change the credential, which own it: the login  *)
(* that a turn needs, a login or logout an administrator asks for, and a   *)
(* device login, whose writer outlives its request and is released by the  *)
(* thread that waits for it or by a cancellation.                          *)
(*                                                                         *)
(* Granularity.  Every caller is a thread.  A step is what happens under   *)
(* one acquisition of the gate's condition or of the attempt lock; a call  *)
(* to the Codex client is part of the step before which it may fail.       *)
(*                                                                         *)
(* Abstractions.  A credential is named for where it comes from.  A client *)
(* call that fails leaves the credential alone.  A request the gate        *)
(* refuses changes nothing and is left out, and so is the status request,  *)
(* which reads as the first step of a turn does.                           *)
(***************************************************************************)
EXTENDS Naturals, Sequences, FiniteSets

AUTH_MODES == {"auto", "chatgpt", "api-key", "access-token"}
Credential == {"none", "chatgpt", "key", "token"}

\* What the constructor accepts.
Config == {e \in [mode : AUTH_MODES, key : BOOLEAN, token : BOOLEAN] :
             e.mode = "auto" => ~(e.key /\ e.token)}

CONSTANTS
  Environment,      \* the configurations a server may be given
  Stored,           \* the credentials its volume may hold at first
  Caller,           \* threads: project turns and control requests
  Nobody,           \* "the lock is free"
  Command,          \* command ids of device logins, numbers
  MaxRequests,      \* bound: turns and control requests
  MaxAttempts,      \* bound: device logins of one process
  MaxUnavailable,   \* bound: account reads that fail
  MaxSpawnFailures, \* bound: waiter threads that cannot be started
  MaxRestarts       \* bound: restarts of the server

ASSUME GateConstants ==
  /\ Environment \subseteq Config /\ Stored \subseteq Credential
  /\ Nobody \notin Caller
  /\ IsFiniteSet(Caller)
  /\ Command \subseteq Nat
  /\ {MaxRequests, MaxAttempts, MaxUnavailable, MaxSpawnFailures, MaxRestarts} \subseteq Nat

VARIABLES
  config,       \* LIMINA_CODEX_AUTH_MODE and the credentials in the environment
  account,      \* what auth.json holds, on the volume
  materialized, \* _materialized_process_credential
  readers,      \* the gate: _readers
  writer,       \* the gate: _writer
  chat,         \* _chatgpt_turn: the turn that holds it
  pc,           \* what each caller is doing
  using,        \* the active_method of the status a turn was admitted with
  about,        \* the command id of a device login, then its place in attempts
  attempts,     \* _attempts
  spent,        \* requests made
  unavailable,  \* account reads that failed
  spawnFailures,
  restarts

gate    == <<readers, writer>>
device  == <<about, attempts>>
counts  == <<unavailable, spawnFailures, restarts>>
vars    == <<config, account, materialized, gate, chat, pc, using, device, spent, counts>>

-----------------------------------------------------------------------------
(* The gate *)

WritersWaiting == \E c \in Caller : pc[c] = "mutate"

\* read(): turns give way to writers that wait.
CanRead == ~writer /\ ~WritersWaiting
Enter == CanRead /\ readers' = readers + 1 /\ UNCHANGED writer

Leave == readers' = readers - 1 /\ UNCHANGED writer

\* (defect: a writer does not look for turns in progress)
NoOtherWriter == ~writer

\* write() waits for this, try_begin_write() gives up without it.
CanWrite == ~writer /\ readers = 0
BeginWrite == CanWrite /\ writer' = TRUE /\ UNCHANGED readers

\* end_write() releases whatever writer there is.
EndWrite == writer' = FALSE /\ UNCHANGED readers

-----------------------------------------------------------------------------
(* The account *)

\* _account_status_unlocked: any failure reads as "not configured".
ReadStatus(status) ==
  \/ status = account /\ UNCHANGED unavailable
  \/ /\ unavailable < MaxUnavailable
     /\ status = "unavailable"
     /\ unavailable' = unavailable + 1

\* An access token logs in as a ChatGPT account.
ActiveMethod(status) ==
  IF status \in {"chatgpt", "token"} THEN "chatgpt"
  ELSE IF status = "key" THEN "api-key" ELSE "none"

Configured(status) == ActiveMethod(status) # "none"

\* source = "cached_chatgpt": a ChatGPT account this process did not log in.
CachedChatgpt(status) == ActiveMethod(status) = "chatgpt" /\ ~materialized

ReadyWithoutMutation(status) ==
  CASE config.mode = "chatgpt" -> ActiveMethod(status) = "chatgpt"
    [] config.mode \in {"api-key", "access-token"} -> materialized /\ Configured(status)
    [] OTHER -> \/ CachedChatgpt(status)
                \/ materialized /\ Configured(status)
                \/ ~config.key /\ ~config.token /\ Configured(status)

\* (defect: what was seen before the writer was taken is believed)
LoginNeededUnchecked(status) ==
  IF config.token THEN "token" ELSE IF config.key THEN "key" ELSE "refuse"

\* _ensure_ready_unlocked: the login it makes, if any.
LoginNeeded(status) ==
  CASE config.mode = "chatgpt" -> IF ActiveMethod(status) = "chatgpt" THEN "keep" ELSE "refuse"
    [] config.mode = "api-key" -> IF materialized THEN "keep" ELSE "key"
    [] config.mode = "access-token" -> IF materialized THEN "keep" ELSE "token"
    [] OTHER ->
         IF CachedChatgpt(status) THEN "keep"
         ELSE IF config.token THEN IF materialized THEN "keep" ELSE "token"
         ELSE IF config.key THEN IF materialized THEN "keep" ELSE "key"
         ELSE IF Configured(status) THEN "keep" ELSE "refuse"

\* _login_api_key_unlocked and _login_access_token_unlocked need their secret.
CanLogin(what) == (what = "key" /\ config.key) \/ (what = "token" /\ config.token)
LogIn(what) == CanLogin(what) /\ account' = what /\ materialized' = TRUE

-----------------------------------------------------------------------------
(* Managed turns: turn() *)

Goes(c, where) == pc' = [pc EXCEPT ![c] = where]

\* A device request answers its client.
Done(c) == Goes(c, "idle") /\ about' = [about EXCEPT ![c] = 0]

Request(c, where) ==
  /\ pc[c] = "idle" /\ spent < MaxRequests
  /\ spent' = spent + 1
  /\ Goes(c, where)

BeginTurn(c) ==
  /\ Request(c, "check")
  /\ UNCHANGED <<config, account, materialized, gate, chat, using, device, counts>>

\* ensure_ready looks at the account under a shared lock ...
EnterCheck(c) ==
  /\ pc[c] = "check" /\ Enter
  /\ Goes(c, "checking")
  /\ UNCHANGED <<config, account, materialized, chat, using, device, spent, counts>>

FinishCheck(c) ==
  /\ pc[c] = "checking"
  /\ \E status \in Credential \cup {"unavailable"} :
       /\ ReadStatus(status)
       /\ Goes(c, IF ReadyWithoutMutation(status) THEN "ready" ELSE "unready")
  /\ Leave
  /\ UNCHANGED <<config, account, materialized, chat, using, device, spent, spawnFailures, restarts>>

\* ... and otherwise again, and logs in, under the writer, for which it waits.
AwaitWrite(c) ==
  /\ pc[c] = "unready"
  /\ Goes(c, "mutate")
  /\ UNCHANGED <<config, account, materialized, gate, chat, using, device, spent, counts>>

EnterWrite(c) ==
  /\ pc[c] = "mutate" /\ BeginWrite
  /\ Goes(c, "mutating")
  /\ UNCHANGED <<config, account, materialized, chat, using, device, spent, counts>>

EnsureReady(c) ==
  /\ pc[c] = "mutating"
  /\ \E status \in Credential \cup {"unavailable"} :
       /\ ReadStatus(status)
       /\ \/ /\ LoginNeeded(status) = "keep"
             /\ Goes(c, "ready") /\ UNCHANGED <<account, materialized>>
          \/ /\ LogIn(LoginNeeded(status))
             /\ Goes(c, "ready")
          \/ /\ LoginNeeded(status) # "keep"
             /\ Goes(c, "idle") /\ UNCHANGED <<account, materialized>>
  /\ EndWrite
  /\ UNCHANGED <<config, chat, using, device, spent, spawnFailures, restarts>>

EnterTurn(c) ==
  /\ pc[c] = "ready" /\ Enter
  /\ Goes(c, "entering")
  /\ UNCHANGED <<config, account, materialized, chat, using, device, spent, counts>>

\* (defect: access-token turns do not queue)
QueuesForLogin(status) == status = "chatgpt"

\* ChatGPT turns queue for one lock.
Queues(status) == ActiveMethod(status) = "chatgpt"

AdmitTurn(c) ==
  /\ pc[c] = "entering"
  /\ \E status \in Credential \cup {"unavailable"} :
       /\ ReadStatus(status)
       /\ IF Configured(status)
          THEN /\ using' = [using EXCEPT ![c] = ActiveMethod(status)]
               /\ Goes(c, IF Queues(status) THEN "queue" ELSE "working")
               /\ UNCHANGED gate
          ELSE Goes(c, "idle") /\ Leave /\ UNCHANGED using
  /\ UNCHANGED <<config, account, materialized, chat, device, spent, spawnFailures, restarts>>

TakeChatgptTurn(c) ==
  /\ pc[c] = "queue" /\ chat = Nobody
  /\ chat' = c
  /\ Goes(c, "working")
  /\ UNCHANGED <<config, account, materialized, gate, using, device, spent, counts>>

EndTurn(c) ==
  /\ pc[c] = "working"
  /\ chat' = IF chat = c THEN Nobody ELSE chat
  /\ using' = [using EXCEPT ![c] = "none"]
  /\ Leave
  /\ Goes(c, "idle")
  /\ UNCHANGED <<config, account, materialized, device, spent, counts>>

-----------------------------------------------------------------------------
(* login_from_environment and logout *)

RequestChange(c) ==
  /\ \E what \in {"key", "token", "logout"} : Request(c, what)
  /\ BeginWrite
  /\ UNCHANGED <<config, account, materialized, chat, using, device, counts>>

ChangeEnds(c) ==
  /\ pc[c] \in {"key", "token", "logout"}
  /\ \/ LogIn(pc[c])
     \/ pc[c] = "logout" /\ account' = "none" /\ materialized' = FALSE
     \/ UNCHANGED <<account, materialized>>
  /\ EndWrite
  /\ Goes(c, "idle")
  /\ UNCHANGED <<config, chat, using, device, spent, counts>>

-----------------------------------------------------------------------------
(* Device logins *)

\* start_device_login returns the attempt of a command id it knows.
StartDevice(c, k) ==
  /\ config.mode \in {"auto", "chatgpt"}
  /\ \A i \in DOMAIN attempts : attempts[i].command # k
  /\ Request(c, "asked")
  /\ about' = [about EXCEPT ![c] = k]
  /\ UNCHANGED <<config, account, materialized, gate, chat, using, attempts, counts>>

BeginDevice(c) ==
  /\ pc[c] = "asked"
  /\ IF CanWrite THEN BeginWrite /\ Goes(c, "opening") /\ UNCHANGED about
     ELSE Done(c) /\ UNCHANGED gate
  /\ UNCHANGED <<config, account, materialized, chat, using, attempts, spent, counts>>

\* The client is opened and the attempt registered, or the writer released.
OpenDevice(c) ==
  /\ pc[c] = "opening"
  /\ \/ /\ Len(attempts) < MaxAttempts
        /\ attempts' = Append(attempts, [command |-> about[c], status |-> "PENDING",
                                         flow |-> "open", waiter |-> "none"])
        /\ about' = [about EXCEPT ![c] = Len(attempts) + 1]
        /\ Goes(c, "spawning")
        /\ UNCHANGED gate
     \/ EndWrite /\ Done(c) /\ UNCHANGED attempts
  /\ UNCHANGED <<config, account, materialized, chat, using, spent, counts>>

\* The waiter thread takes over; if it cannot be started, the client is closed
\* and the writer released, and the attempt stays registered as PENDING.
SpawnWaiter(c) ==
  /\ pc[c] = "spawning"
  /\ \/ /\ attempts' = [attempts EXCEPT ![about[c]].waiter = "waiting"]
        /\ UNCHANGED <<gate, spawnFailures>>
     \/ /\ spawnFailures < MaxSpawnFailures
        /\ spawnFailures' = spawnFailures + 1
        /\ attempts' = [attempts EXCEPT ![about[c]].waiter = "failed", ![about[c]].flow = "closed"]
        /\ EndWrite
  /\ Done(c)
  /\ UNCHANGED <<config, account, materialized, chat, using, spent, unavailable, restarts>>

\* The person confirms the code, or it is refused or expires.
DeviceAnswers(i) ==
  /\ i \in DOMAIN attempts /\ attempts[i].flow = "open"
  /\ \/ account' = "chatgpt" /\ attempts' = [attempts EXCEPT ![i].flow = "succeeded"]
     \/ UNCHANGED account /\ attempts' = [attempts EXCEPT ![i].flow = "failed"]
  /\ UNCHANGED <<config, materialized, gate, chat, pc, using, about, spent, counts>>

\* (defect: an attempt is finished by everyone who hears of its end)
Unfinished(i) == TRUE

\* _finish_attempt does its work once.
Finishable(i) == attempts[i].status = "PENDING"

WaiterReturns(i) ==
  /\ i \in DOMAIN attempts
  /\ attempts[i].waiter = "waiting" /\ attempts[i].flow # "open"
  /\ attempts' =
       IF Finishable(i)
       THEN [attempts EXCEPT
              ![i].status = IF attempts[i].flow = "succeeded" THEN "SUCCEEDED" ELSE "FAILED",
              ![i].waiter = "closing"]
       ELSE [attempts EXCEPT ![i].waiter = "done"]
  /\ UNCHANGED <<config, account, materialized, gate, chat, pc, using, about, spent, counts>>

\* (defect: a client that cannot be closed keeps the writer)
EndWriteIfClosed == EndWrite \/ UNCHANGED gate

\* The client is closed and, whatever comes of it, the writer released.
ReleaseAttempt == EndWrite

CloseAttempt(i) ==
  /\ i \in DOMAIN attempts /\ attempts[i].waiter = "closing"
  /\ attempts' = [attempts EXCEPT ![i].waiter = "done", ![i].flow = "closed"]
  /\ ReleaseAttempt
  /\ UNCHANGED <<config, account, materialized, chat, pc, using, about, spent, counts>>

\* cancel_device_login: the handle is read, cancelled and only then finished.
RequestCancel(c) ==
  /\ \E i \in DOMAIN attempts :
       /\ attempts[i].status = "PENDING"
       /\ about' = [about EXCEPT ![c] = i]
  /\ Request(c, "cancelling")
  /\ UNCHANGED <<config, account, materialized, gate, chat, using, attempts, counts>>

CancelHandle(c) ==
  /\ pc[c] = "cancelling"
  /\ \/ UNCHANGED attempts
     \/ /\ attempts[about[c]].flow = "open"
        /\ attempts' = [attempts EXCEPT ![about[c]].flow = "failed"]
  /\ Goes(c, "cancelled")
  /\ UNCHANGED <<config, account, materialized, gate, chat, using, about, spent, counts>>

FinishCancel(c) ==
  /\ pc[c] = "cancelled"
  /\ IF Finishable(about[c])
     THEN /\ attempts' = [attempts EXCEPT ![about[c]].status = "CANCELLED"]
          /\ Goes(c, "closing") /\ UNCHANGED about
     ELSE Done(c) /\ UNCHANGED attempts
  /\ UNCHANGED <<config, account, materialized, gate, chat, using, spent, counts>>

CloseCancelled(c) ==
  /\ pc[c] = "closing"
  /\ attempts' = [attempts EXCEPT ![about[c]].flow = "closed"]
  /\ ReleaseAttempt
  /\ Done(c)
  /\ UNCHANGED <<config, account, materialized, chat, using, spent, counts>>

-----------------------------------------------------------------------------

Init ==
  /\ config \in Environment /\ account \in Stored
  /\ materialized = FALSE
  /\ readers = 0 /\ writer = FALSE
  /\ chat = Nobody
  /\ pc = [c \in Caller |-> "idle"]
  /\ using = [c \in Caller |-> "none"]
  /\ about = [c \in Caller |-> 0]
  /\ attempts = <<>>
  /\ spent = 0 /\ unavailable = 0 /\ spawnFailures = 0 /\ restarts = 0

\* The server is stopped and started again: only auth.json is kept.
Restart ==
  /\ restarts < MaxRestarts
  /\ restarts' = restarts + 1
  /\ materialized' = FALSE
  /\ readers' = 0 /\ writer' = FALSE
  /\ chat' = Nobody
  /\ pc' = [c \in Caller |-> "idle"]
  /\ using' = [c \in Caller |-> "none"]
  /\ about' = [c \in Caller |-> 0]
  /\ attempts' = <<>>
  /\ UNCHANGED <<config, account, spent, unavailable, spawnFailures>>

\* What a thread does once its call is made; a turn ends by itself or never.
CallerStep(c) ==
  \/ EnterCheck(c) \/ FinishCheck(c) \/ AwaitWrite(c) \/ EnterWrite(c) \/ EnsureReady(c)
  \/ EnterTurn(c) \/ AdmitTurn(c) \/ TakeChatgptTurn(c)
  \/ ChangeEnds(c)
  \/ BeginDevice(c) \/ OpenDevice(c) \/ SpawnWaiter(c)
  \/ CancelHandle(c) \/ FinishCancel(c) \/ CloseCancelled(c)

WaiterStep(i) == WaiterReturns(i) \/ CloseAttempt(i)

Next ==
  \/ \E c \in Caller :
       \/ BeginTurn(c) \/ RequestChange(c) \/ RequestCancel(c)
       \/ \E k \in Command : StartDevice(c, k)
       \/ CallerStep(c)
       \/ EndTurn(c)
  \/ \E i \in 1..MaxAttempts : DeviceAnswers(i) \/ WaiterStep(i)
  \/ Restart

Spec == Init /\ [][Next]_vars

\* Threads run and are woken by notify_all, the Codex client returns, device
\* codes expire.  Nothing obliges a turn to end.
Fairness ==
  /\ \A c \in Caller : WF_vars(CallerStep(c))
  /\ \A i \in 1..MaxAttempts : WF_vars(DeviceAnswers(i)) /\ WF_vars(WaiterStep(i))

FairSpec == Spec /\ Fairness

-----------------------------------------------------------------------------
(* Properties *)

Reading  == {"checking", "entering", "queue", "working"}
Changing == {"mutating", "key", "token", "logout", "opening", "closing"}

AttemptType ==
  [command : Nat, status : {"PENDING", "SUCCEEDED", "FAILED", "CANCELLED"},
   flow : {"open", "succeeded", "failed", "closed"},
   waiter : {"none", "waiting", "closing", "done", "failed"}]

Place == Reading \cup Changing \cup
  {"idle", "check", "unready", "mutate", "ready", "asked", "spawning", "cancelling", "cancelled"}

DataOK ==
  /\ config \in Config /\ account \in Credential /\ materialized \in BOOLEAN
  /\ readers \in Nat /\ writer \in BOOLEAN
  /\ chat \in Caller \cup {Nobody}
  /\ pc \in [Caller -> Place]
  /\ using \in [Caller -> {"none", "chatgpt", "api-key"}]
  /\ about \in [Caller -> Nat]
  /\ attempts \in Seq(AttemptType)
  /\ spent \in Nat /\ unavailable \in Nat /\ spawnFailures \in Nat /\ restarts \in Nat

\* A device request under way is about an attempt that exists.
AboutOK ==
  \A c \in Caller :
    pc[c] \in {"spawning", "cancelling", "cancelled", "closing"} => about[c] \in DOMAIN attempts

Readers == {c \in Caller : pc[c] \in Reading}

\* Every variable has its type, the gate counts its readers, a turn that has the
\* ChatGPT lock is at work, and device requests are about attempts.
TypeOK ==
  /\ DataOK /\ AboutOK
  /\ readers = Cardinality(Readers)
  /\ chat # Nobody => pc[chat] = "working"

\* A device login has the writer while it is pending or being closed by its waiter.
OwnsWriter(a) == a.waiter = "closing" \/ (a.status = "PENDING" /\ a.waiter # "failed")

\* Who has the writer: a caller that changes the credential, or a device login.
Writers ==
  {<<"caller", c>> : c \in {d \in Caller : pc[d] \in Changing}} \cup
  {<<"login", i>> : i \in {j \in DOMAIN attempts : OwnsWriter(attempts[j])}}

\* Login and logout are exclusive: while somebody changes the credential nobody
\* else does and no turn has it, through every cancellation, expiry and failed
\* clean-up of a device login, and the writer is neither stranded nor released
\* by another, as long as every waiter thread could be started.
ChangesExclude ==
  spawnFailures = 0 =>
    /\ writer <=> Writers # {}
    /\ \A v, w \in Writers : v = w
    /\ writer => readers = 0

\* A turn works with the credential it was admitted with, from its admission,
\* through the queue for the ChatGPT lock, to its end.
TurnKeepsCredential ==
  spawnFailures = 0 =>
    \A c \in Caller : pc[c] \in {"queue", "working"} => using[c] = ActiveMethod(account)

\* ChatGPT-backed turns are serialized, whatever logins happen between turns.
OneChatgptTurn ==
  spawnFailures = 0 /\ ActiveMethod(account) = "chatgpt" =>
    \A c, d \in Caller : pc[c] = "working" /\ pc[d] = "working" => c = d

\* In auto mode only a person replaces an existing ChatGPT login, as long as
\* every account read succeeds: a turn that finds no login looks again once it has
\* the writer. (A read that fails looks like an account that is not logged in.)
PreservesLoginWhenRead ==
  [][config.mode = "auto" /\ account = "chatgpt" /\ account' # "chatgpt"
       => unavailable' > 0 \/ \E c \in Caller : pc[c] \in {"key", "token", "logout"}]_vars

\* If no turn works for ever, every turn and control request is answered: the
\* gate, the ChatGPT lock and pending device logins make nobody wait for good.
EveryoneAnswered ==
  (\A c \in Caller : []<>(pc[c] # "working"))
    => \A c \in Caller : pc[c] # "idle" ~> pc[c] = "idle"

\* The refinement: a turn has the credential from its admission to its end.
Admitted == {c \in Caller : pc[c] \in {"queue", "working"}}
AtWork == {c \in Caller : pc[c] = "working"}

Pool == INSTANCE SharedCredential WITH
  Turn <- Caller, Given <- Stored, NoCredential <- "none",
  Serial <- {m \in Credential : ActiveMethod(m) = "chatgpt"},
  credential <- account, admitted <- Admitted, atWork <- AtWork,
  intact <- (spawnFailures = 0)

\* Turns can trust their credential: whoever logs in or out, cancels or lets a
\* login expire, a turn is admitted under a credential that is there, alone if
\* it is a ChatGPT account's, and the credential changes under nobody (turn,
\* ensure_ready, login_from_environment, logout, the device login).
CredentialContract == Pool!PoolSpec

=============================================================================
