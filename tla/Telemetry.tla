------------------------------ MODULE Telemetry ------------------------------
(* scripts/telemetry.py: the commands of the telemetry client. Every script and
   every hook runs it as a process of its own, and all of them share, without a
   lock, config.json, session.json and outbox.jsonl.

   A step reads or writes one file, or is a request and the write that follows
   its answer. Contents of events, tiers of consent, the proof of work and the
   relay's address are left out. An enabled configuration always has an install
   id, so the id is left out too. *)
EXTENDS Naturals, Sequences, FiniteSets

Consent == {"unset", "enabled", "declined"}
Config  == [consent : Consent, suppressed : BOOLEAN, token : BOOLEAN]

\* What a process is started for: by a script, a hook or a person.
Command == [kind : {"emit", "flush", "consent", "ensure"}, flush : BOOLEAN,
            completed : BOOLEAN, choice : {"enabled", "not_now", "declined"}]
NoCommand == [kind |-> "flush", flush |-> FALSE, completed |-> FALSE, choice |-> "not_now"]

CONSTANTS
  Process,      \* processes that may run at once
  Stored,       \* what config.json may hold at first
  Commands,     \* the commands they are given
  MaxCommands,  \* bound: commands run
  MaxEvents,    \* bound: events emitted, numbered in order
  MaxSessions,  \* bound: local sessions, numbered in order
  MaxFailures   \* bound: killed processes, answers lost and tokens refused

ASSUME TelemetryAssumption ==
  /\ Commands \subseteq Command /\ Stored \subseteq Config
  /\ \A c \in Stored : c.consent = "declined" => ~c.token
  /\ {MaxCommands, MaxEvents, MaxSessions, MaxFailures} \subseteq Nat

Session == [id : Nat, seq : Nat, token : BOOLEAN]
Event   == [number : Nat, session : Nat, seq : Nat]

NewConfig == [consent |-> "unset", suppressed |-> FALSE, token |-> FALSE]
NoSession == [id |-> 0, seq |-> 0, token |-> FALSE]

VARIABLES
  config,    \* config.json
  outbox,    \* outbox.jsonl
  session,   \* session.json; NoSession when there is no such file
  pc, cmd,   \* of a process: its next step and its command
  cfg, ses,  \* of a process: the configuration and the session it has loaded
  mine,      \* of a process: the number of the event it emits
  queue,     \* of a process: the events flush_outbox has in hand
  retried,   \* of a process: auth_retry
  relay,     \* event number -> how often the relay has processed it
  queued,    \* history: events appended and not cleared by a decline
  excused,   \* history: see the properties
  commands, events, sessions, failures  \* budgets

files   == <<config, outbox, session>>
locals  == <<cmd, cfg, ses, mine, queue, retried>>
history == <<relay, queued, excused>>
budgets == <<commands, events, sessions, failures>>
vars == <<files, pc, locals, history, budgets>>

Steps == {"idle", "ensure", "choose", "choice", "clear", "unsession",
          "emit", "local", "create", "number", "append", "complete",
          "flush", "read", "token", "register", "session", "open", "reregister",
          "reopen", "post", "trim"}
Excuse == {"loss", "double", "number", "consent"}

Init ==
  /\ config \in Stored /\ outbox = <<>> /\ session = NoSession
  /\ pc = [p \in Process |-> "idle"]
  /\ cmd = [p \in Process |-> NoCommand]
  /\ cfg = [p \in Process |-> NewConfig]
  /\ ses = [p \in Process |-> NoSession]
  /\ mine = [p \in Process |-> 0]
  /\ queue = [p \in Process |-> <<>>]
  /\ retried = [p \in Process |-> FALSE]
  /\ relay = [n \in 1..MaxEvents |-> 0] /\ queued = {} /\ excused = {}
  /\ commands = 0 /\ events = 0 /\ sessions = 0 /\ failures = 0

Goto(p, step) == pc' = [pc EXCEPT ![p] = step]

\* A process that ends forgets what it had read.
End(p) ==
  /\ Goto(p, "idle")
  /\ cmd' = [cmd EXCEPT ![p] = NoCommand]
  /\ cfg' = [cfg EXCEPT ![p] = NewConfig]
  /\ ses' = [ses EXCEPT ![p] = NoSession]
  /\ mine' = [mine EXCEPT ![p] = 0]
  /\ queue' = [queue EXCEPT ![p] = <<>>]
  /\ retried' = [retried EXCEPT ![p] = FALSE]

Others(p, steps) == \E q \in Process \ {p} : pc[q] \in steps

\* Steps at which a process has events in hand, or a session it may save.
Flushing == {"token", "register", "session", "open", "reregister", "reopen", "post", "trim"}
HoldsSession == {"create", "number", "open", "reregister", "reopen"}

Excused(kind, condition) == excused' = IF condition THEN excused \cup {kind} ELSE excused

Run(p, c) ==
  /\ pc[p] = "idle" /\ commands < MaxCommands
  /\ commands' = commands + 1
  /\ cmd' = [cmd EXCEPT ![p] = c]
  /\ Goto(p, IF c.kind = "consent" THEN "choose" ELSE c.kind)
  /\ UNCHANGED <<files, cfg, ses, mine, queue, retried, history, events, sessions, failures>>

(* Consent: ensure_consent, apply_consent_choice, clear_local_state *)

\* should_prompt, on a terminal
ShouldPrompt(c) == c.consent = "unset" /\ ~c.suppressed

Ensure(p) ==
  /\ pc[p] = "ensure"
  /\ IF ShouldPrompt(config)
     THEN Goto(p, "choose") /\ UNCHANGED locals
     ELSE End(p)
  /\ UNCHANGED <<files, history, budgets>>

\* Thirty days pass, or Limina has another major version.
SuppressionEnds ==
  /\ config.suppressed
  /\ config' = [config EXCEPT !.suppressed = FALSE]
  /\ UNCHANGED <<outbox, session, pc, locals, history, budgets>>

LoadForChoice(p) ==
  /\ pc[p] = "choose"
  /\ cfg' = [cfg EXCEPT ![p] = config]
  /\ Goto(p, "choice")
  /\ UNCHANGED <<files, cmd, ses, mine, queue, retried, history, budgets>>

\* (defect: the declined configuration is saved with the old token)
DeclinedOnly(c) == [c EXCEPT !.consent = "declined", !.suppressed = FALSE]

Declined(c) == [consent |-> "declined", suppressed |-> FALSE, token |-> FALSE]

SaveChoice(p) ==
  /\ pc[p] = "choice"
  /\ CASE cmd[p].choice = "not_now" ->
            /\ config' = [cfg[p] EXCEPT !.consent = "unset", !.suppressed = TRUE]
            /\ End(p) /\ UNCHANGED excused
       [] cmd[p].choice = "enabled" ->
            /\ config' = [cfg[p] EXCEPT !.consent = "enabled", !.suppressed = FALSE]
            /\ cmd' = [cmd EXCEPT ![p].flush = TRUE]
            /\ Goto(p, "emit") /\ UNCHANGED <<cfg, ses, mine, queue, retried, excused>>
       [] OTHER ->
            /\ config' = Declined(cfg[p])
            /\ Goto(p, "clear") /\ UNCHANGED locals
            /\ Excused("consent", \E q \in Process \ {p} : pc[q] # "idle")
  /\ UNCHANGED <<outbox, session, relay, queued, budgets>>

Numbers(seq) == {seq[i].number : i \in DOMAIN seq}

ClearOutbox(p) ==
  /\ pc[p] = "clear"
  /\ outbox' = <<>>
  /\ queued' = queued \ Numbers(outbox)
  /\ Goto(p, "unsession")
  /\ UNCHANGED <<config, session, locals, relay, excused, budgets>>

ClearSession(p) ==
  /\ pc[p] = "unsession"
  /\ session' = NoSession
  /\ End(p)
  /\ UNCHANGED <<config, outbox, history, budgets>>

(* queue_event *)

ConsentEnabled(c) == c.consent = "enabled"

Emit(p) ==
  /\ pc[p] = "emit"
  /\ IF ConsentEnabled(config) /\ events < MaxEvents
     THEN /\ events' = events + 1
          /\ mine' = [mine EXCEPT ![p] = events']
          /\ Goto(p, "local") /\ UNCHANGED <<cmd, cfg, ses, queue, retried>>
     ELSE End(p) /\ UNCHANGED events
  /\ UNCHANGED <<files, history, commands, sessions, failures>>

\* ensure_local_session: a session is stale when there is none, when it has been
\* idle or when another runtime family opened it.
LoadLocalSession(p) ==
  /\ pc[p] = "local"
  /\ \/ /\ sessions < MaxSessions
        /\ sessions' = sessions + 1
        /\ ses' = [ses EXCEPT ![p].id = sessions']
        /\ Goto(p, "create") /\ UNCHANGED <<cmd, cfg, mine, queue, retried>>
     \/ /\ session.id # 0
        /\ ses' = [ses EXCEPT ![p] = session]
        /\ Goto(p, "number") /\ UNCHANGED <<cmd, cfg, mine, queue, retried, sessions>>
     \/ session.id = 0 /\ sessions = MaxSessions /\ End(p) /\ UNCHANGED sessions \* the bound
  /\ Excused("number", Others(p, HoldsSession))
  /\ UNCHANGED <<files, relay, queued, commands, events, failures>>

\* create_local_session keeps the write token of the session it replaces.
CreateLocalSession(p) ==
  /\ pc[p] = "create"
  /\ session' = [session EXCEPT !.id = ses[p].id, !.seq = 0]
  /\ ses' = [ses EXCEPT ![p] = session']
  /\ Goto(p, "number")
  /\ UNCHANGED <<config, outbox, cmd, cfg, mine, queue, retried, history, budgets>>

\* (defect: the number is counted up in memory only)
CountedInMemory(p) == session

\* session.json after next_sequence
Counted(p) == ses'[p]

\* next_sequence
NextSequence(p) ==
  /\ pc[p] = "number"
  /\ ses' = [ses EXCEPT ![p].seq = @ + 1]
  /\ session' = Counted(p)
  /\ Goto(p, "append")
  /\ UNCHANGED <<config, outbox, cmd, cfg, mine, queue, retried, history, budgets>>

\* queue_event goes on to flush_outbox when it was asked to.
Emitted(p) ==
  IF cmd[p].flush THEN Goto(p, "flush") /\ UNCHANGED locals ELSE End(p)

\* append_outbox. An event appended while another process has the outbox in hand
\* is overwritten when that process writes it back.
AppendOutbox(p) ==
  /\ pc[p] = "append"
  /\ outbox' = outbox \o <<[number |-> mine[p], session |-> ses[p].id, seq |-> ses[p].seq]>>
  /\ queued' = queued \cup {mine[p]}
  /\ Excused("loss", Others(p, Flushing))
  /\ IF cmd[p].completed THEN Goto(p, "complete") /\ UNCHANGED locals ELSE Emitted(p)
  /\ UNCHANGED <<config, session, relay, budgets>>

\* The event limina_session_completed ends the local session.
CompleteSession(p) ==
  /\ pc[p] = "complete"
  /\ session' = NoSession
  /\ Emitted(p)
  /\ UNCHANGED <<config, outbox, history, budgets>>

(* flush_outbox *)

Flush(p) ==
  /\ pc[p] = "flush"
  /\ IF ConsentEnabled(config) THEN Goto(p, "read") /\ UNCHANGED locals ELSE End(p)
  /\ UNCHANGED <<files, history, budgets>>

ReadOutbox(p) ==
  /\ pc[p] = "read"
  /\ IF outbox = <<>>
     THEN End(p) /\ UNCHANGED excused
     ELSE /\ queue' = [queue EXCEPT ![p] = outbox]
          /\ Excused("double", Others(p, Flushing))
          /\ Goto(p, "token") /\ UNCHANGED <<cmd, cfg, ses, mine, retried>>
  /\ UNCHANGED <<files, relay, queued, budgets>>

\* ensure_write_token begins: the configuration is read again.
LoadForToken(p) ==
  /\ pc[p] = "token"
  /\ IF config.token \/ ConsentEnabled(config)
     THEN /\ cfg' = [cfg EXCEPT ![p] = config]
          /\ Goto(p, IF config.token THEN "session" ELSE "register")
          /\ UNCHANGED <<cmd, ses, mine, queue, retried>>
     ELSE End(p)
  /\ UNCHANGED <<files, history, budgets>>

\* register_install: the configuration that is saved is the one that was read.
Register(p) ==
  /\ pc[p] \in {"register", "reregister"}
  /\ cfg' = [cfg EXCEPT ![p].token = TRUE]
  /\ config' = cfg'[p]
  /\ Goto(p, IF pc[p] = "register" THEN "session" ELSE "reopen")
  /\ UNCHANGED <<outbox, session, cmd, ses, mine, queue, retried, history, budgets>>

\* The write token in the session file is used while it is fresh.
LoadWriteToken(p) ==
  /\ pc[p] = "session"
  /\ ses' = [ses EXCEPT ![p] = session]
  /\ \/ session.token /\ Goto(p, "post")
     \/ Goto(p, "open")
  /\ Excused("number", Others(p, HoldsSession))
  /\ UNCHANGED <<files, cmd, cfg, mine, queue, retried, relay, queued, budgets>>

\* The relay opens a session; the session file is the one that was read.
OpenSession(p) ==
  /\ pc[p] \in {"open", "reopen"}
  /\ ses' = [ses EXCEPT ![p].token = TRUE]
  /\ session' = ses'[p]
  /\ Goto(p, "post")
  /\ UNCHANGED <<config, outbox, cmd, cfg, mine, queue, retried, history, budgets>>

Fails == failures < MaxFailures /\ failures' = failures + 1

\* reset_write_token: the file is read and saved again.
ResetWriteToken(p) ==
  /\ session' = [session EXCEPT !.token = FALSE]
  /\ Excused("number", \E q \in Process \ {p} : pc[q] # "idle")

\* The relay refuses the install token: both tokens are dropped and the install
\* is registered once more, if there is consent.
RefuseInstall(p) ==
  /\ pc[p] = "open" /\ Fails
  /\ config' = [cfg[p] EXCEPT !.token = FALSE]
  /\ ResetWriteToken(p)
  /\ IF ConsentEnabled(cfg[p])
     THEN /\ cfg' = [cfg EXCEPT ![p] = config'] /\ Goto(p, "reregister")
          /\ UNCHANGED <<cmd, ses, mine, queue, retried>>
     ELSE End(p)
  /\ UNCHANGED <<outbox, relay, queued, commands, events, sessions>>

\* The leading events of one session, by their number.
BatchLengths(q) ==
  {n \in 1..Len(q) : /\ \A i \in 1..n : q[i].session = q[1].session
                     /\ n < Len(q) => q[n + 1].session # q[1].session}

Batch(p, n) == SubSeq(queue[p], 1, n)
Processed(p, n) ==
  relay' = [m \in DOMAIN relay |-> relay[m] + (IF m \in Numbers(Batch(p, n)) THEN 1 ELSE 0)]

Post(p) ==
  /\ pc[p] = "post"
  /\ \E n \in BatchLengths(queue[p]) : Processed(p, n)
  /\ Goto(p, "trim")
  /\ UNCHANGED <<files, locals, queued, excused, budgets>>

\* The relay processes the batch and its answer is lost.
LoseAnswer(p) ==
  /\ pc[p] = "post" /\ Fails
  /\ \E n \in BatchLengths(queue[p]) : Processed(p, n)
  /\ Excused("double", TRUE)
  /\ End(p)
  /\ UNCHANGED <<files, queued, commands, events, sessions>>

MayRetry(p) == ~retried[p]

\* The relay refuses the write token: another one is asked for, once.
RefuseWrite(p) ==
  /\ pc[p] = "post" /\ MayRetry(p)
  /\ ResetWriteToken(p)
  /\ retried' = [retried EXCEPT ![p] = TRUE]
  /\ Goto(p, "token")
  /\ UNCHANGED <<config, outbox, cmd, cfg, ses, mine, queue, relay, queued, budgets>>

\* A request is refused or not answered: the events stay in the outbox.
GiveUp(p) ==
  /\ pc[p] \in {"register", "reregister", "open", "reopen", "post"}
  /\ End(p)
  /\ UNCHANGED <<files, history, budgets>>

\* (defect: the last event of a batch is kept)
KeepLast(p, n) == SubSeq(queue[p], n, Len(queue[p]))

Remaining(p, n) == SubSeq(queue[p], n + 1, Len(queue[p]))

\* write_outbox: what is left of the events in hand replaces the file.
TrimOutbox(p) ==
  /\ pc[p] = "trim"
  /\ \E n \in BatchLengths(queue[p]) : outbox' = Remaining(p, n)
  /\ IF outbox' = <<>>
     THEN End(p)
     ELSE /\ queue' = [queue EXCEPT ![p] = outbox']
          /\ retried' = [retried EXCEPT ![p] = FALSE]
          /\ Goto(p, "token") /\ UNCHANGED <<cmd, cfg, ses, mine>>
  /\ UNCHANGED <<config, session, history, budgets>>

\* The process is killed; a batch it has sent stays in the outbox, and a decline
\* it was carrying out is left half done.
Kill(p) ==
  /\ pc[p] # "idle" /\ Fails
  /\ End(p)
  /\ excused' = excused \cup (IF pc[p] = "trim" THEN {"double"} ELSE {})
                        \cup (IF pc[p] \in {"clear", "unsession"} THEN {"consent"} ELSE {})
  /\ UNCHANGED <<files, relay, queued, commands, events, sessions>>

Step(p) ==
  \/ Ensure(p) \/ LoadForChoice(p) \/ SaveChoice(p) \/ ClearOutbox(p) \/ ClearSession(p)
  \/ Emit(p) \/ LoadLocalSession(p) \/ CreateLocalSession(p) \/ NextSequence(p)
  \/ AppendOutbox(p) \/ CompleteSession(p)
  \/ Flush(p) \/ ReadOutbox(p) \/ LoadForToken(p) \/ Register(p) \/ LoadWriteToken(p)
  \/ OpenSession(p) \/ RefuseInstall(p) \/ Post(p) \/ LoseAnswer(p) \/ RefuseWrite(p)
  \/ GiveUp(p) \/ TrimOutbox(p)

Next ==
  \/ \E p \in Process : Step(p) \/ Kill(p) \/ \E c \in Commands : Run(p, c)
  \/ SuppressionEnds

Spec == Init /\ [][Next]_vars

(* Properties *)

\* Every variable has its type.
TypeOK ==
  /\ config \in Config /\ session \in Session
  /\ outbox \in Seq(Event)
  /\ pc \in [Process -> Steps] /\ cmd \in [Process -> Command]
  /\ cfg \in [Process -> Config] /\ ses \in [Process -> Session]
  /\ mine \in [Process -> 0..MaxEvents] /\ queue \in [Process -> Seq(Event)]
  /\ retried \in [Process -> BOOLEAN]
  /\ relay \in [1..MaxEvents -> Nat]
  /\ queued \subseteq 1..MaxEvents /\ excused \subseteq Excuse
  /\ commands \in Nat /\ events \in 0..MaxEvents /\ sessions \in Nat /\ failures \in Nat

\* Each event reaches the relay once. None is lost: what was emitted is in the
\* outbox or has been processed, until a decline clears it or another process
\* appends while the outbox is in hand; kills, lost answers, refused tokens and two
\* flushes at once lose nothing. None is processed twice unless an answer is lost, a
\* process is killed between the POST and the write that follows it, or two
\* processes flush at once.
EachOnce ==
  /\ "loss" \notin excused =>
       queued \subseteq Numbers(outbox) \cup {n \in DOMAIN relay : relay[n] > 0}
  /\ "double" \notin excused => \A n \in DOMAIN relay : relay[n] <= 1

\* The events of a local session have different numbers unless one process reads
\* the session while another is to save it. (They may be queued out of order; the
\* relay is told the lowest and the highest number of a batch.)
NumbersDiffer ==
  "number" \notin excused =>
    \A i, j \in DOMAIN outbox :
      i # j /\ outbox[i].session = outbox[j].session => outbox[i].seq # outbox[j].seq

\* "Never Ask Again" holds: once a decline has cleared the local state there is
\* nothing in the outbox and no token, until somebody chooses again; unless a
\* command was running at that moment, or the decline was killed half way.
DeclineHolds ==
  config.consent = "declined" /\ "consent" \notin excused
    /\ (\A p \in Process : pc[p] \notin {"clear", "unsession"})
    => outbox = <<>> /\ ~config.token

=============================================================================
