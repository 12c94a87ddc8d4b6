---------------------------- MODULE TelemetryProofs ----------------------------
(* What holds of the telemetry client for any number of processes, commands and
   events, wherever they are killed and whatever the relay answers. *)
EXTENDS Telemetry, SequenceTheorems, TLAPS

(* Types *)

FilesType ==
  config \in Config /\ session \in Session /\ outbox \in Seq(Event)

LocalsType ==
  /\ pc \in [Process -> Steps] /\ cmd \in [Process -> Command]
  /\ cfg \in [Process -> Config] /\ ses \in [Process -> Session]
  /\ mine \in [Process -> 0..MaxEvents] /\ queue \in [Process -> Seq(Event)]
  /\ retried \in [Process -> BOOLEAN]

HistoryType ==
  /\ relay \in [1..MaxEvents -> Nat]
  /\ queued \subseteq 1..MaxEvents /\ excused \subseteq Excuse

BudgetsType ==
  /\ commands \in Nat /\ events \in 0..MaxEvents /\ sessions \in Nat /\ failures \in Nat

\* The event a process emits has a number.
Emitting(p) == pc[p] \in {"local", "create", "number", "append"} => mine[p] \in 1..events

TypeInv ==
  /\ FilesType /\ LocalsType /\ HistoryType /\ BudgetsType
  /\ \A p \in Process : Emitting(p)

LEMMA Constants ==
  /\ NewConfig \in Config /\ NoSession \in Session /\ NoCommand \in Command
  /\ MaxEvents \in Nat /\ MaxSessions \in Nat
<1>1. NewConfig \in Config
  BY DEF NewConfig, Config, Consent
<1>2. NoSession \in Session
  BY DEF NoSession, Session
<1>3. NoCommand \in Command
  BY DEF NoCommand, Command
<1>. QED  BY <1>1, <1>2, <1>3, TelemetryAssumption DEF TelemetryAssumption

LEMMA EmptyType == <<>> \in Seq(Event)
  OBVIOUS

LEMMA GotoType ==
  ASSUME TypeInv, NEW p \in Process, NEW step \in Steps, Goto(p, step)
  PROVE  pc' \in [Process -> Steps] /\ pc'[p] = step /\ \A q \in Process \ {p} : pc'[q] = pc[q]
  BY DEF TypeInv, LocalsType, Goto

\* A process that ends, wherever it was.
LEMMA EndType ==
  ASSUME TypeInv, NEW p \in Process, End(p)
  PROVE  LocalsType' /\ pc'[p] = "idle" /\ \A q \in Process \ {p} : pc'[q] = pc[q] /\ mine'[q] = mine[q]
<1>1. pc' \in [Process -> Steps] /\ pc'[p] = "idle" /\ \A q \in Process \ {p} : pc'[q] = pc[q]
  BY GotoType DEF End, Steps
<1>2. cmd' \in [Process -> Command] /\ cfg' \in [Process -> Config] /\ ses' \in [Process -> Session]
  BY Constants DEF End, TypeInv, LocalsType
<1>3. /\ mine' \in [Process -> 0..MaxEvents] /\ retried' \in [Process -> BOOLEAN]
      /\ \A q \in Process \ {p} : mine'[q] = mine[q]
  BY Constants DEF End, TypeInv, LocalsType
<1>4. queue' \in [Process -> Seq(Event)]
  BY EmptyType DEF End, TypeInv, LocalsType
<1>. QED  BY <1>1, <1>2, <1>3, <1>4 DEF LocalsType

\* Every step leaves the events of the others alone.
LEMMA Together ==
  ASSUME TypeInv, NEW p \in Process, FilesType', LocalsType', HistoryType', BudgetsType',
         events' >= events, \A q \in Process \ {p} : pc'[q] = pc[q] /\ mine'[q] = mine[q],
         Emitting(p)'
  PROVE  TypeInv'
<1>1. \A q \in Process \ {p} : Emitting(q)'
  BY DEF TypeInv, Emitting, BudgetsType
<1>. QED  BY <1>1 DEF TypeInv

LEMMA EndTogether ==
  ASSUME TypeInv, NEW p \in Process, End(p), FilesType', HistoryType', BudgetsType',
         events' >= events
  PROVE  TypeInv'
<1>1. Emitting(p)'
  BY EndType DEF Emitting
<1>. QED  BY <1>1, EndType, Together

\* A step of a process that goes on, with the command and the event it has.
LEMMA GotoTogether ==
  ASSUME TypeInv, NEW p \in Process, NEW step \in Steps, Goto(p, step),
         mine' = mine, events' = events,
         step \in {"local", "create", "number", "append"} =>
           pc[p] \in {"local", "create", "number", "append"},
         cmd' \in [Process -> Command], cfg' \in [Process -> Config],
         ses' \in [Process -> Session], queue' \in [Process -> Seq(Event)],
         retried' \in [Process -> BOOLEAN],
         FilesType', HistoryType', BudgetsType'
  PROVE  TypeInv'
<1>1. LocalsType' /\ \A q \in Process \ {p} : pc'[q] = pc[q] /\ mine'[q] = mine[q]
  BY GotoType DEF TypeInv, LocalsType
<1>2. Emitting(p)'
  BY GotoType DEF TypeInv, Emitting
<1>3. events' >= events
  BY DEF TypeInv, BudgetsType
<1>. QED  BY <1>1, <1>2, <1>3, Together

LEMMA SessionExcept ==
  ASSUME NEW s \in Session, NEW n \in Nat
  PROVE  /\ [s EXCEPT !.id = n] \in Session /\ [s EXCEPT !.id = n, !.seq = 0] \in Session
         /\ [s EXCEPT !.seq = @ + 1] \in Session
         /\ [s EXCEPT !.token = TRUE] \in Session /\ [s EXCEPT !.token = FALSE] \in Session
<1>1. s.seq \in Nat /\ s.seq + 1 \in Nat
  BY DEF Session
<1>2. [s EXCEPT !.id = n] \in Session /\ [s EXCEPT !.id = n, !.seq = 0] \in Session
  BY DEF Session
<1>3. [s EXCEPT !.seq = @ + 1] \in Session
  BY <1>1 DEF Session
<1>4. [s EXCEPT !.token = TRUE] \in Session /\ [s EXCEPT !.token = FALSE] \in Session
  BY DEF Session
<1>. QED  BY <1>2, <1>3, <1>4

LEMMA ConfigExcept ==
  ASSUME NEW c \in Config, NEW b \in BOOLEAN
  PROVE  /\ [c EXCEPT !.suppressed = FALSE] \in Config /\ [c EXCEPT !.token = b] \in Config
         /\ [c EXCEPT !.consent = "unset", !.suppressed = TRUE] \in Config
         /\ [c EXCEPT !.consent = "enabled", !.suppressed = FALSE] \in Config
         /\ Declined(c) \in Config
  BY DEF Config, Consent, Declined

LEMMA ExcusedType ==
  ASSUME TypeInv, NEW kind \in Excuse, NEW condition, Excused(kind, condition)
  PROVE  excused' \subseteq Excuse
  BY DEF TypeInv, HistoryType, Excused

\* What is left of the events in hand, and those that were sent.
LEMMA PartsType ==
  ASSUME TypeInv, NEW p \in Process, NEW n \in BatchLengths(queue[p])
  PROVE  /\ Batch(p, n) \in Seq(Event) /\ Len(Batch(p, n)) = n
         /\ \A i \in 1..n : Batch(p, n)[i] = queue[p][i]
         /\ Remaining(p, n) \in Seq(Event) /\ Len(Remaining(p, n)) = Len(queue[p]) - n
         /\ \A i \in 1..(Len(queue[p]) - n) : Remaining(p, n)[i] = queue[p][n + i]
<1>1. queue[p] \in Seq(Event) /\ n \in 1..Len(queue[p]) /\ Len(queue[p]) \in Nat
  BY DEF TypeInv, LocalsType, BatchLengths
<1>. QED  BY <1>1, SubSeqProperties DEF Batch, Remaining

LEMMA RunType ==
  ASSUME TypeInv, NEW p \in Process, NEW c \in Commands, Run(p, c)
  PROVE  TypeInv'
<1>1. c \in Command
  BY TelemetryAssumption DEF TelemetryAssumption
<1>2. PICK step \in {"choose", "emit", "flush", "ensure"} : Goto(p, step)
  BY <1>1 DEF Run, Command
<1>3. cmd' \in [Process -> Command]
  BY <1>1 DEF Run, TypeInv, LocalsType
<1>4. FilesType' /\ HistoryType' /\ BudgetsType'
  BY DEF Run, TypeInv, FilesType, HistoryType, BudgetsType, files, history
<1>5. step \in Steps /\ mine' = mine /\ events' = events
  BY DEF Run, Steps
<1>. QED  BY <1>2, <1>3, <1>4, <1>5, GotoTogether DEF Run, TypeInv, LocalsType

LEMMA EnsureType ==
  ASSUME TypeInv, NEW p \in Process, Ensure(p) \/ Flush(p)
  PROVE  TypeInv'
<1>1. UNCHANGED <<files, history, budgets>>
  BY DEF Ensure, Flush
<1>2. FilesType' /\ HistoryType'
  BY <1>1 DEF TypeInv, FilesType, HistoryType, files, history
<1>3. BudgetsType' /\ events' = events /\ events' >= events
  BY <1>1 DEF TypeInv, BudgetsType, budgets
<1>4. CASE End(p)
  BY <1>2, <1>3, <1>4, EndTogether
<1>5. ASSUME NEW step \in {"choose", "read"}, Goto(p, step), UNCHANGED locals PROVE TypeInv'
  <2>1. step \in Steps
    BY <1>5 DEF Steps
  <2>. QED  BY <1>2, <1>3, <1>5, <2>1, GotoTogether DEF TypeInv, LocalsType, locals
<1>. QED  BY <1>4, <1>5 DEF Ensure, Flush

LEMMA SuppressionType ==
  ASSUME TypeInv, SuppressionEnds
  PROVE  TypeInv'
<1>1. config' \in Config
  BY ConfigExcept DEF SuppressionEnds, TypeInv, FilesType
<1>. QED  BY <1>1 DEF SuppressionEnds, TypeInv, FilesType, LocalsType, HistoryType, BudgetsType,
                      Emitting, locals, history, budgets

LEMMA LoadForChoiceType ==
  ASSUME TypeInv, NEW p \in Process, LoadForChoice(p)
  PROVE  TypeInv'
<1>1. cfg' \in [Process -> Config]
  BY DEF LoadForChoice, TypeInv, LocalsType, FilesType
<1>2. FilesType' /\ HistoryType' /\ BudgetsType' /\ "choice" \in Steps
  BY DEF LoadForChoice, TypeInv, FilesType, HistoryType, BudgetsType, files, history, budgets, Steps
<1>. QED  BY <1>1, <1>2, GotoTogether DEF LoadForChoice, TypeInv, LocalsType, budgets

LEMMA SaveChoiceType ==
  ASSUME TypeInv, NEW p \in Process, SaveChoice(p)
  PROVE  TypeInv'
<1>1. cfg[p] \in Config /\ "consent" \in Excuse /\ {"emit", "clear"} \subseteq Steps
  BY DEF TypeInv, LocalsType, Excuse, Steps
<1>2. config' \in Config
  BY <1>1, ConfigExcept DEF SaveChoice
<1>3. excused' \subseteq Excuse
  <2>1. excused' = excused \/ \E condition : Excused("consent", condition)
    BY DEF SaveChoice, Excused
  <2>. QED  BY <1>1, <2>1, ExcusedType DEF TypeInv, HistoryType
<1>4. FilesType' /\ HistoryType' /\ BudgetsType' /\ events' = events /\ events' >= events
  BY <1>2, <1>3 DEF SaveChoice, TypeInv, FilesType, HistoryType, BudgetsType, budgets
<1>5. CASE End(p)
  BY <1>4, <1>5, EndTogether
<1>6. CASE Goto(p, "clear") /\ UNCHANGED locals
  BY <1>1, <1>4, <1>6, GotoTogether DEF TypeInv, LocalsType, locals
<1>7. CASE /\ cmd' = [cmd EXCEPT ![p].flush = TRUE] /\ Goto(p, "emit")
           /\ UNCHANGED <<cfg, ses, mine, queue, retried>>
  <2>1. cmd' \in [Process -> Command]
    BY <1>7 DEF TypeInv, LocalsType, Command
  <2>. QED  BY <1>1, <1>4, <1>7, <2>1, GotoTogether DEF TypeInv, LocalsType
<1>. QED  BY <1>5, <1>6, <1>7 DEF SaveChoice

LEMMA ClearType ==
  ASSUME TypeInv, NEW p \in Process, ClearOutbox(p) \/ ClearSession(p)
  PROVE  TypeInv'
<1>1. /\ session' \in Session /\ outbox' \in Seq(Event) /\ config' = config
      /\ queued' \subseteq queued /\ UNCHANGED <<relay, excused, budgets>>
  <2>1. CASE ClearOutbox(p)
    BY <2>1, EmptyType DEF ClearOutbox, TypeInv, FilesType
  <2>2. CASE ClearSession(p)
    BY <2>2, Constants DEF ClearSession, TypeInv, FilesType, history
  <2>. QED  BY <2>1, <2>2
<1>2. FilesType'
  BY <1>1 DEF TypeInv, FilesType
<1>3. HistoryType'
  BY <1>1 DEF TypeInv, HistoryType
<1>4. BudgetsType' /\ events' = events /\ events' >= events
  BY <1>1 DEF TypeInv, BudgetsType, budgets
<1>5. CASE ClearOutbox(p)
  <2>1. Goto(p, "unsession") /\ "unsession" \in Steps /\ UNCHANGED locals
    BY <1>5 DEF ClearOutbox, Steps
  <2>. QED  BY <1>2, <1>3, <1>4, <2>1, GotoTogether DEF TypeInv, LocalsType, locals
<1>6. CASE ClearSession(p)
  BY <1>6, <1>2, <1>3, <1>4, EndTogether DEF ClearSession
<1>. QED  BY <1>5, <1>6

LEMMA EmitType ==
  ASSUME TypeInv, NEW p \in Process, Emit(p)
  PROVE  TypeInv'
<1>1. FilesType' /\ HistoryType'
  BY DEF Emit, TypeInv, FilesType, HistoryType, files, history
<1>2. CASE End(p) /\ UNCHANGED events
  <2>1. BudgetsType' /\ events' >= events
    BY <1>2 DEF Emit, TypeInv, BudgetsType
  <2>. QED  BY <1>1, <1>2, <2>1, EndTogether
<1>3. CASE /\ events < MaxEvents /\ events' = events + 1
           /\ mine' = [mine EXCEPT ![p] = events'] /\ Goto(p, "local")
           /\ UNCHANGED <<cmd, cfg, ses, queue, retried>>
  <2>1. events' \in 0..MaxEvents /\ events' \in 1..events' /\ events' >= events
    BY <1>3, Constants DEF TypeInv, BudgetsType
  <2>2. BudgetsType'
    BY <2>1 DEF Emit, TypeInv, BudgetsType
  <2>3. "local" \in Steps
    BY DEF Steps
  <2>4. pc' \in [Process -> Steps] /\ \A q \in Process \ {p} : pc'[q] = pc[q]
    BY <1>3, <2>3, GotoType
  <2>5. /\ mine' \in [Process -> 0..MaxEvents] /\ mine'[p] = events'
        /\ \A q \in Process \ {p} : mine'[q] = mine[q]
    BY <1>3, <2>1 DEF TypeInv, LocalsType
  <2>6. LocalsType'
    BY <1>3, <2>4, <2>5 DEF TypeInv, LocalsType
  <2>. QED  BY <1>1, <2>1, <2>2, <2>4, <2>5, <2>6, Together DEF Emitting
<1>. QED  BY <1>2, <1>3 DEF Emit

LEMMA LocalSessionType ==
  ASSUME TypeInv, NEW p \in Process, LoadLocalSession(p)
  PROVE  TypeInv'
<1>1. "number" \in Excuse /\ {"create", "number"} \subseteq Steps /\ pc[p] = "local"
  BY DEF Excuse, Steps, LoadLocalSession
<1>2. FilesType' /\ HistoryType'
  <2>1. excused' \subseteq Excuse
    BY <1>1, ExcusedType DEF LoadLocalSession
  <2>. QED  BY <2>1 DEF LoadLocalSession, TypeInv, FilesType, HistoryType, files
<1>3. BudgetsType' /\ events' = events /\ events' >= events
  BY DEF LoadLocalSession, TypeInv, BudgetsType
<1>4. CASE /\ sessions' = sessions + 1 /\ ses' = [ses EXCEPT ![p].id = sessions']
           /\ Goto(p, "create") /\ UNCHANGED <<cmd, cfg, mine, queue, retried>>
  <2>1. ses' = [ses EXCEPT ![p] = [ses[p] EXCEPT !.id = sessions']]
    BY <1>4
  <2>2. ses[p] \in Session /\ sessions' \in Nat
    BY <1>4 DEF TypeInv, LocalsType, BudgetsType
  <2>3. [ses[p] EXCEPT !.id = sessions'] \in Session
    BY <2>2, SessionExcept
  <2>4. ses' \in [Process -> Session]
    BY <2>1, <2>3 DEF TypeInv, LocalsType
  <2>. QED  BY <1>1, <1>2, <1>3, <1>4, <2>4, GotoTogether DEF TypeInv, LocalsType
<1>5. CASE /\ ses' = [ses EXCEPT ![p] = session]
           /\ Goto(p, "number") /\ UNCHANGED <<cmd, cfg, mine, queue, retried, sessions>>
  <2>1. ses' \in [Process -> Session]
    BY <1>5 DEF TypeInv, LocalsType, FilesType
  <2>. QED  BY <1>1, <1>2, <1>3, <1>5, <2>1, GotoTogether DEF TypeInv, LocalsType
<1>6. CASE End(p)
  BY <1>2, <1>3, <1>6, EndTogether
<1>. QED  BY <1>4, <1>5, <1>6 DEF LoadLocalSession

LEMMA SaveSessionType ==
  ASSUME TypeInv, NEW p \in Process,
         CreateLocalSession(p) \/ NextSequence(p) \/ OpenSession(p)
  PROVE  TypeInv'
<1>1. HistoryType' /\ BudgetsType' /\ events' = events /\ UNCHANGED <<config, outbox, mine, cmd, cfg, queue, retried>>
  BY DEF CreateLocalSession, NextSequence, OpenSession, TypeInv, HistoryType, BudgetsType,
         history, budgets
<1>2. PICK step \in {"number", "append", "post"} : Goto(p, step)
  BY DEF CreateLocalSession, NextSequence, OpenSession
<1>3. step \in Steps /\ (step \in {"number", "append"} => pc[p] \in {"create", "number"})
  BY <1>2, GotoType DEF CreateLocalSession, NextSequence, OpenSession, Steps, Goto, TypeInv,
                        LocalsType
<1>4. ses[p] \in Session /\ session \in Session /\ ses[p].id \in Nat
  BY DEF TypeInv, LocalsType, FilesType, Session
<1>5. \E s \in Session : ses' = [ses EXCEPT ![p] = s] /\ session' = s
  <2>1. CASE CreateLocalSession(p)
    BY <1>4, <2>1, SessionExcept DEF CreateLocalSession
  <2>2. CASE NextSequence(p)
    <3>1. ses' = [ses EXCEPT ![p] = [ses[p] EXCEPT !.seq = @ + 1]]
      BY <2>2 DEF NextSequence
    <3>2. [ses[p] EXCEPT !.seq = @ + 1] \in Session
      BY <1>4, SessionExcept
    <3>. QED  BY <2>2, <3>1, <3>2 DEF NextSequence, Counted, TypeInv, LocalsType
  <2>3. CASE OpenSession(p)
    <3>1. ses' = [ses EXCEPT ![p] = [ses[p] EXCEPT !.token = TRUE]]
      BY <2>3 DEF OpenSession
    <3>2. [ses[p] EXCEPT !.token = TRUE] \in Session
      BY <1>4, SessionExcept
    <3>. QED  BY <2>3, <3>1, <3>2 DEF OpenSession, TypeInv, LocalsType
  <2>. QED  BY <2>1, <2>2, <2>3
<1>6. ses' \in [Process -> Session] /\ session' \in Session
  BY <1>5 DEF TypeInv, LocalsType
<1>7. FilesType'
  BY <1>1, <1>6 DEF TypeInv, FilesType
<1>. QED  BY <1>1, <1>2, <1>3, <1>6, <1>7, GotoTogether DEF TypeInv, LocalsType

LEMMA EmittedType ==
  ASSUME TypeInv, NEW p \in Process, Emitted(p), FilesType', HistoryType', BudgetsType',
         events' = events
  PROVE  TypeInv'
<1>1. CASE End(p)
  <2>1. events' >= events
    BY DEF TypeInv, BudgetsType
  <2>. QED  BY <1>1, <2>1, EndTogether
<1>2. CASE Goto(p, "flush") /\ UNCHANGED locals
  <2>1. "flush" \in Steps
    BY DEF Steps
  <2>. QED  BY <1>2, <2>1, GotoTogether DEF TypeInv, LocalsType, locals
<1>. QED  BY <1>1, <1>2 DEF Emitted

LEMMA AppendType ==
  ASSUME TypeInv, NEW p \in Process, AppendOutbox(p) \/ CompleteSession(p)
  PROVE  TypeInv'
<1>1. BudgetsType' /\ events' = events
  BY DEF AppendOutbox, CompleteSession, TypeInv, BudgetsType, budgets
<1>2. CASE AppendOutbox(p)
  <2> DEFINE event == [number |-> mine[p], session |-> ses[p].id, seq |-> ses[p].seq]
  <2>1. mine[p] \in 1..MaxEvents /\ event \in Event
    BY <1>2, Constants DEF AppendOutbox, TypeInv, Emitting, BudgetsType, LocalsType, Session, Event
  <2>2. outbox' \in Seq(Event)
    BY <1>2, <2>1 DEF AppendOutbox, TypeInv, FilesType
  <2>3. excused' \subseteq Excuse
    BY <1>2, ExcusedType DEF AppendOutbox, Excuse
  <2>4. FilesType' /\ HistoryType'
    BY <1>2, <2>1, <2>2, <2>3 DEF AppendOutbox, TypeInv, FilesType, HistoryType
  <2>5. CASE Goto(p, "complete") /\ UNCHANGED locals
    <3>1. "complete" \in Steps
      BY DEF Steps
    <3>. QED  BY <1>1, <2>4, <2>5, <3>1, GotoTogether DEF TypeInv, LocalsType, locals
  <2>6. CASE Emitted(p)
    BY <1>1, <2>4, <2>6, EmittedType
  <2>. QED  BY <1>2, <2>5, <2>6 DEF AppendOutbox
<1>3. CASE CompleteSession(p)
  <2>1. FilesType' /\ HistoryType'
    BY <1>3, Constants DEF CompleteSession, TypeInv, FilesType, HistoryType, history
  <2>. QED  BY <1>1, <1>3, <2>1, EmittedType DEF CompleteSession
<1>. QED  BY <1>2, <1>3

LEMMA ReadType ==
  ASSUME TypeInv, NEW p \in Process, ReadOutbox(p)
  PROVE  TypeInv'
<1>1. FilesType' /\ BudgetsType' /\ events' = events /\ events' >= events
  BY DEF ReadOutbox, TypeInv, FilesType, BudgetsType, files, budgets
<1>2. CASE End(p) /\ UNCHANGED excused
  <2>1. HistoryType'
    BY <1>2 DEF ReadOutbox, TypeInv, HistoryType
  <2>. QED  BY <1>1, <1>2, <2>1, EndTogether
<1>3. CASE /\ queue' = [queue EXCEPT ![p] = outbox]
           /\ Excused("double", Others(p, Flushing))
           /\ Goto(p, "token") /\ UNCHANGED <<cmd, cfg, ses, mine, retried>>
  <2>1. excused' \subseteq Excuse
    BY <1>3, ExcusedType DEF Excuse
  <2>2. HistoryType'
    BY <2>1 DEF ReadOutbox, TypeInv, HistoryType
  <2>3. queue' \in [Process -> Seq(Event)] /\ "token" \in Steps
    BY <1>3 DEF TypeInv, LocalsType, FilesType, Steps
  <2>. QED  BY <1>1, <1>3, <2>2, <2>3, GotoTogether DEF TypeInv, LocalsType
<1>. QED  BY <1>2, <1>3 DEF ReadOutbox

LEMMA LoadForTokenType ==
  ASSUME TypeInv, NEW p \in Process, LoadForToken(p)
  PROVE  TypeInv'
<1>1. UNCHANGED <<files, history, budgets>>
  BY DEF LoadForToken
<1>2. FilesType' /\ HistoryType'
  BY <1>1 DEF TypeInv, FilesType, HistoryType, files, history
<1>3. BudgetsType' /\ events' = events /\ events' >= events
  BY <1>1 DEF TypeInv, BudgetsType, budgets
<1>4. CASE End(p)
  BY <1>2, <1>3, <1>4, EndTogether
<1>5. ASSUME NEW step \in {"session", "register"}, Goto(p, step),
             cfg' = [cfg EXCEPT ![p] = config], UNCHANGED <<cmd, ses, mine, queue, retried>>
      PROVE  TypeInv'
  <2>1. step \in Steps /\ step \notin {"local", "create", "number", "append"}
    BY <1>5 DEF Steps
  <2>2. cfg' \in [Process -> Config]
    BY <1>5 DEF TypeInv, LocalsType, FilesType
  <2>. QED  BY <1>2, <1>3, <1>5, <2>1, <2>2, GotoTogether DEF TypeInv, LocalsType
<1>. QED  BY <1>4, <1>5 DEF LoadForToken

LEMMA RegisterType ==
  ASSUME TypeInv, NEW p \in Process, Register(p)
  PROVE  TypeInv'
<1>1. PICK step \in {"session", "reopen"} : Goto(p, step)
  BY DEF Register
<1>2. step \in Steps /\ step \notin {"local", "create", "number", "append"}
  BY DEF Steps
<1>3. cfg' = [cfg EXCEPT ![p] = [cfg[p] EXCEPT !.token = TRUE]]
  BY DEF Register
<1>4. [cfg[p] EXCEPT !.token = TRUE] \in Config
  BY ConfigExcept DEF TypeInv, LocalsType
<1>5. cfg' \in [Process -> Config]
  BY <1>3, <1>4 DEF TypeInv, LocalsType
<1>6. config' \in Config
  BY <1>5 DEF Register
<1>7. FilesType' /\ HistoryType'
  BY <1>6 DEF Register, TypeInv, FilesType, HistoryType, history
<1>8. BudgetsType' /\ events' = events
  BY DEF Register, TypeInv, BudgetsType, budgets
<1>. QED  BY <1>1, <1>2, <1>5, <1>7, <1>8, GotoTogether DEF Register, TypeInv, LocalsType

LEMMA LoadWriteTokenType ==
  ASSUME TypeInv, NEW p \in Process, LoadWriteToken(p)
  PROVE  TypeInv'
<1>1. PICK step \in {"post", "open"} : Goto(p, step)
  BY DEF LoadWriteToken
<1>2. step \in Steps /\ step \notin {"local", "create", "number", "append"}
  BY DEF Steps
<1>3. ses' \in [Process -> Session]
  BY DEF LoadWriteToken, TypeInv, LocalsType, FilesType
<1>4. excused' \subseteq Excuse
  BY ExcusedType DEF LoadWriteToken, Excuse
<1>5. FilesType' /\ HistoryType'
  BY <1>4 DEF LoadWriteToken, TypeInv, FilesType, HistoryType, files
<1>6. BudgetsType' /\ events' = events
  BY DEF LoadWriteToken, TypeInv, BudgetsType, budgets
<1>. QED  BY <1>1, <1>2, <1>3, <1>5, <1>6, GotoTogether DEF LoadWriteToken, TypeInv, LocalsType

LEMMA ResetType ==
  ASSUME TypeInv, NEW p \in Process, ResetWriteToken(p)
  PROVE  session' \in Session /\ excused' \subseteq Excuse
<1>1. session' \in Session
  BY SessionExcept DEF ResetWriteToken, TypeInv, FilesType, Session
<1>2. excused' \subseteq Excuse
  BY ExcusedType DEF ResetWriteToken, Excuse
<1>. QED  BY <1>1, <1>2

LEMMA RefuseInstallType ==
  ASSUME TypeInv, NEW p \in Process, RefuseInstall(p)
  PROVE  TypeInv'
<1>1. config' \in Config
  BY ConfigExcept DEF RefuseInstall, TypeInv, LocalsType
<1>2. FilesType' /\ HistoryType'
  BY <1>1, ResetType DEF RefuseInstall, TypeInv, FilesType, HistoryType
<1>3. BudgetsType' /\ events' = events /\ events' >= events
  BY DEF RefuseInstall, Fails, TypeInv, BudgetsType
<1>4. CASE ConsentEnabled(cfg[p])
  <2>1. cfg' \in [Process -> Config] /\ "reregister" \in Steps
    BY <1>1, <1>4 DEF RefuseInstall, TypeInv, LocalsType, Steps
  <2>. QED  BY <1>2, <1>3, <1>4, <2>1, GotoTogether DEF RefuseInstall, TypeInv, LocalsType
<1>5. CASE ~ConsentEnabled(cfg[p])
  BY <1>2, <1>3, <1>5, EndTogether DEF RefuseInstall
<1>. QED  BY <1>4, <1>5

LEMMA RefuseWriteType ==
  ASSUME TypeInv, NEW p \in Process, RefuseWrite(p)
  PROVE  TypeInv'
<1>1. retried' \in [Process -> BOOLEAN]
  BY DEF RefuseWrite, TypeInv, LocalsType
<1>2. FilesType' /\ HistoryType'
  BY ResetType DEF RefuseWrite, TypeInv, FilesType, HistoryType
<1>3. BudgetsType' /\ events' = events
  BY DEF RefuseWrite, TypeInv, BudgetsType, budgets
<1>4. "token" \in Steps
  BY DEF Steps
<1>. QED  BY <1>1, <1>2, <1>3, <1>4, GotoTogether DEF RefuseWrite, TypeInv, LocalsType

LEMMA ProcessedType ==
  ASSUME TypeInv, NEW p \in Process, NEW n, Processed(p, n)
  PROVE  relay' \in [1..MaxEvents -> Nat]
  BY DEF TypeInv, HistoryType, Processed

LEMMA PostType ==
  ASSUME TypeInv, NEW p \in Process, Post(p) \/ LoseAnswer(p)
  PROVE  TypeInv'
<1>1. PICK n \in BatchLengths(queue[p]) : Processed(p, n)
  BY DEF Post, LoseAnswer
<1>2. relay' \in [1..MaxEvents -> Nat]
  BY <1>1, ProcessedType
<1>3. excused' \subseteq Excuse /\ UNCHANGED <<files, queued>>
  <2>1. CASE Post(p)
    BY <2>1 DEF Post, TypeInv, HistoryType
  <2>2. CASE LoseAnswer(p)
    BY <2>2, ExcusedType DEF LoseAnswer, Excuse
  <2>. QED  BY <2>1, <2>2
<1>4. FilesType' /\ HistoryType'
  BY <1>2, <1>3 DEF TypeInv, FilesType, HistoryType, files
<1>5. BudgetsType' /\ events' = events /\ events' >= events
  <2>1. CASE Post(p)
    BY <2>1 DEF Post, TypeInv, BudgetsType, budgets
  <2>2. CASE LoseAnswer(p)
    BY <2>2 DEF LoseAnswer, Fails, TypeInv, BudgetsType
  <2>. QED  BY <2>1, <2>2
<1>6. CASE Post(p)
  <2>1. Goto(p, "trim") /\ "trim" \in Steps /\ UNCHANGED locals
    BY <1>6 DEF Post, Steps
  <2>. QED  BY <1>4, <1>5, <2>1, GotoTogether DEF TypeInv, LocalsType, locals
<1>7. CASE LoseAnswer(p)
  BY <1>4, <1>5, <1>7, EndTogether DEF LoseAnswer
<1>. QED  BY <1>6, <1>7

LEMMA GiveUpType ==
  ASSUME TypeInv, NEW p \in Process, GiveUp(p)
  PROVE  TypeInv'
<1>1. FilesType' /\ HistoryType'
  BY DEF GiveUp, TypeInv, FilesType, HistoryType, files, history
<1>2. BudgetsType' /\ events' >= events
  BY DEF GiveUp, TypeInv, BudgetsType, budgets
<1>. QED  BY <1>1, <1>2, EndTogether DEF GiveUp

LEMMA KillType ==
  ASSUME TypeInv, NEW p \in Process, Kill(p)
  PROVE  TypeInv'
<1>1. excused' \subseteq Excuse
  BY DEF Kill, TypeInv, HistoryType, Excuse
<1>2. FilesType' /\ HistoryType'
  BY <1>1 DEF Kill, TypeInv, FilesType, HistoryType, files
<1>3. BudgetsType' /\ events' >= events
  BY DEF Kill, Fails, TypeInv, BudgetsType
<1>. QED  BY <1>2, <1>3, EndTogether DEF Kill

LEMMA TrimType ==
  ASSUME TypeInv, NEW p \in Process, TrimOutbox(p)
  PROVE  TypeInv'
<1>1. outbox' \in Seq(Event)
  BY PartsType DEF TrimOutbox
<1>2. FilesType' /\ HistoryType'
  BY <1>1 DEF TrimOutbox, TypeInv, FilesType, HistoryType, history
<1>3. BudgetsType' /\ events' = events /\ events' >= events
  BY DEF TrimOutbox, TypeInv, BudgetsType, budgets
<1>4. CASE End(p)
  BY <1>2, <1>3, <1>4, EndTogether
<1>5. CASE /\ queue' = [queue EXCEPT ![p] = outbox']
           /\ retried' = [retried EXCEPT ![p] = FALSE]
           /\ Goto(p, "token") /\ UNCHANGED <<cmd, cfg, ses, mine>>
  <2>1. queue' \in [Process -> Seq(Event)] /\ retried' \in [Process -> BOOLEAN]
    BY <1>1, <1>5 DEF TypeInv, LocalsType
  <2>2. "token" \in Steps
    BY DEF Steps
  <2>. QED  BY <1>2, <1>3, <1>5, <2>1, <2>2, GotoTogether DEF TypeInv, LocalsType
<1>. QED  BY <1>4, <1>5 DEF TrimOutbox

LEMMA InitType == Init => TypeInv
<1> SUFFICES ASSUME Init PROVE TypeInv
  OBVIOUS
<1>1. FilesType
  BY Constants, EmptyType, TelemetryAssumption DEF TelemetryAssumption, Init, FilesType
<1>2. pc \in [Process -> Steps] /\ cmd \in [Process -> Command] /\ cfg \in [Process -> Config]
  BY Constants DEF Init, Steps
<1>3. ses \in [Process -> Session] /\ mine \in [Process -> 0..MaxEvents] /\ retried \in [Process -> BOOLEAN]
  BY Constants DEF Init
<1>4. queue \in [Process -> Seq(Event)]
  BY EmptyType DEF Init
<1>5. HistoryType
  BY Constants DEF Init, HistoryType
<1>6. BudgetsType
  BY Constants DEF Init, BudgetsType
<1>7. \A p \in Process : Emitting(p)
  BY DEF Init, Emitting
<1>. QED  BY <1>1, <1>2, <1>3, <1>4, <1>5, <1>6, <1>7 DEF TypeInv, LocalsType

LEMMA NextType == TypeInv /\ [Next]_vars => TypeInv'
<1> SUFFICES ASSUME TypeInv, [Next]_vars PROVE TypeInv'
  OBVIOUS
<1>1. ASSUME NEW p \in Process, Step(p) PROVE TypeInv'
  BY <1>1, EnsureType, LoadForChoiceType, SaveChoiceType, ClearType, EmitType,
     LocalSessionType, SaveSessionType, AppendType, ReadType, LoadForTokenType, RegisterType,
     LoadWriteTokenType, RefuseInstallType, RefuseWriteType, PostType, GiveUpType, TrimType
     DEF Step
<1>2. ASSUME NEW p \in Process, Kill(p) \/ \E c \in Commands : Run(p, c) PROVE TypeInv'
  BY <1>2, KillType, RunType
<1>3. CASE SuppressionEnds
  BY <1>3, SuppressionType
<1>4. CASE UNCHANGED vars
  BY <1>4 DEF TypeInv, FilesType, LocalsType, HistoryType, BudgetsType, Emitting, vars, files,
              locals, history, budgets
<1>. QED  BY <1>1, <1>2, <1>3, <1>4 DEF Next

LEMMA TypeInvHolds == Spec => []TypeInv
<1>. QED  BY InitType, NextType, PTL DEF Spec

\* Every variable has its type, in every reachable state: whatever the processes
\* read of one another's files, they save sessions, configurations and events.
THEOREM TypeCorrect == Spec => []TypeOK
<1>1. TypeInv => TypeOK
  BY DEF TypeInv, FilesType, LocalsType, HistoryType, BudgetsType, TypeOK
<1>. QED  BY <1>1, TypeInvHolds, PTL

(* A decline. While it stands, every process is at a step that will find the
   consent missing, or at a choice; the ones that were further made it excused. *)

Calm == {"idle", "ensure", "choose", "choice", "clear", "unsession", "emit", "flush"}
Registering == {"register", "session", "open", "reregister"}

Declines ==
  config.consent = "declined" =>
    /\ ~config.token /\ \A p \in Process : pc[p] \in Calm
    /\ (\A p \in Process : pc[p] # "clear") => outbox = <<>>

\* The configuration a process is to save does not bring a decline back.
Loaded(p) == pc[p] \in Registering => cfg[p].consent # "declined"

DeclineInv == "consent" \notin excused => Declines /\ \A p \in Process : Loaded(p)

LEMMA ExcusedGrows ==
  ASSUME TypeInv, [Next]_vars
  PROVE  excused \subseteq excused'
<1>1. ASSUME NEW p \in Process, Step(p) PROVE excused \subseteq excused'
  BY <1>1 DEF Step, Ensure, LoadForChoice, SaveChoice, ClearOutbox, ClearSession, Emit,
     LoadLocalSession, CreateLocalSession, NextSequence, AppendOutbox, CompleteSession, Flush,
     ReadOutbox, LoadForToken, Register, LoadWriteToken, OpenSession, RefuseInstall, Post,
     LoseAnswer, RefuseWrite, GiveUp, TrimOutbox, ResetWriteToken, Excused, history
<1>2. ASSUME NEW p \in Process, Kill(p) PROVE excused \subseteq excused'
  BY <1>2 DEF Kill
<1>3. ASSUME NEW p \in Process, NEW c \in Commands, Run(p, c) PROVE excused \subseteq excused'
  BY <1>3 DEF Run, history
<1>4. CASE SuppressionEnds \/ UNCHANGED vars
  BY <1>4 DEF SuppressionEnds, vars, history
<1>. QED  BY <1>1, <1>2, <1>3, <1>4 DEF Next

\* Where one process is next, and what it has loaded.
LEMMA OnlyOne ==
  ASSUME TypeInv, NEW p \in Process, NEW step \in Steps,
         Goto(p, step) \/ (End(p) /\ step = "idle")
  PROVE  pc'[p] = step /\ \A q \in Process \ {p} : pc'[q] = pc[q]
  BY EndType, GotoType

\* A step that leaves the consent, the token and the outbox alone.
LEMMA CalmStep ==
  ASSUME TypeInv, DeclineInv, NEW p \in Process, excused \subseteq excused',
         NEW step \in Steps, Goto(p, step) \/ (End(p) /\ step = "idle"),
         step \in Calm \/ config.consent # "declined",
         pc[p] = "clear" => "consent" \in excused',
         config' = config, outbox' = outbox,
         \A q \in Process \ {p} : cfg'[q] = cfg[q],
         step \in Registering => "consent" \in excused' \/ cfg'[p].consent # "declined"
  PROVE  DeclineInv'
<1> SUFFICES ASSUME "consent" \notin excused' PROVE Declines' /\ \A q \in Process : Loaded(q)'
  BY DEF DeclineInv
<1>1. Declines /\ \A q \in Process : Loaded(q)
  BY DEF DeclineInv
<1>2. pc'[p] = step /\ \A q \in Process \ {p} : pc'[q] = pc[q]
  BY OnlyOne
<1>3. Declines'
  BY <1>1, <1>2 DEF Declines
<1>4. \A q \in Process : Loaded(q)'
  BY <1>1, <1>2 DEF Loaded
<1>. QED  BY <1>3, <1>4

\* A step of a process that is not calm: nothing has been declined.
LEMMA BusyStep ==
  ASSUME TypeInv, DeclineInv, NEW p \in Process, excused \subseteq excused', pc[p] \notin Calm,
         NEW step \in Steps, Goto(p, step) \/ (End(p) /\ step = "idle"),
         config'.consent = config.consent \/ (pc[p] \in Registering /\ config'.consent = cfg[p].consent),
         \A q \in Process \ {p} : cfg'[q] = cfg[q],
         step \in Registering => \/ cfg'[p].consent = cfg[p].consent /\ pc[p] \in Registering
                                 \/ cfg'[p] = config
  PROVE  DeclineInv'
<1> SUFFICES ASSUME "consent" \notin excused' PROVE Declines' /\ \A q \in Process : Loaded(q)'
  BY DEF DeclineInv
<1>1. Declines /\ \A q \in Process : Loaded(q)
  BY DEF DeclineInv
<1>2. pc'[p] = step /\ \A q \in Process \ {p} : pc'[q] = pc[q]
  BY OnlyOne
<1>3. config.consent # "declined"
  BY <1>1 DEF Declines
<1>4. Declines'
  BY <1>1, <1>3 DEF Declines, Loaded
<1>5. \A q \in Process : Loaded(q)'
  BY <1>1, <1>2, <1>3 DEF Loaded
<1>. QED  BY <1>4, <1>5

LEMMA EndForgets ==
  ASSUME TypeInv, NEW p \in Process, End(p)
  PROVE  "idle" \in Steps /\ \A q \in Process \ {p} : cfg'[q] = cfg[q]
  BY DEF TypeInv, LocalsType, End, Steps

LEMMA DeclineSave ==
  ASSUME TypeInv, DeclineInv, NEW p \in Process, excused \subseteq excused', SaveChoice(p)
  PROVE  DeclineInv'
<1> SUFFICES ASSUME "consent" \notin excused' PROVE Declines' /\ \A q \in Process : Loaded(q)'
  BY DEF DeclineInv
<1>1. (\A q \in Process : Loaded(q)) /\ cfg[p] \in Config
  BY DEF DeclineInv, TypeInv, LocalsType
<1>2. CASE End(p) /\ config' = [cfg[p] EXCEPT !.consent = "unset", !.suppressed = TRUE]
  <2>1. config'.consent = "unset"
    BY <1>1, <1>2 DEF Config
  <2>2. \A q \in Process : Loaded(q)'
    BY <1>1, <1>2, EndType, EndForgets DEF Loaded, Registering
  <2>. QED  BY <2>1, <2>2 DEF Declines
<1>3. CASE /\ Goto(p, "emit") /\ UNCHANGED cfg
           /\ config' = [cfg[p] EXCEPT !.consent = "enabled", !.suppressed = FALSE]
  <2>1. config'.consent = "enabled"
    BY <1>1, <1>3 DEF Config
  <2>2. \A q \in Process : Loaded(q)'
    BY <1>1, <1>3, GotoType DEF Loaded, Registering, Steps
  <2>. QED  BY <2>1, <2>2 DEF Declines
<1>4. CASE /\ Goto(p, "clear") /\ UNCHANGED locals /\ config' = Declined(cfg[p])
           /\ Excused("consent", \E q \in Process \ {p} : pc[q] # "idle")
  <2>1. \A q \in Process \ {p} : pc[q] = "idle"
    BY <1>4 DEF Excused
  <2>2. pc'[p] = "clear" /\ \A q \in Process \ {p} : pc'[q] = "idle"
    BY <1>4, <2>1, GotoType DEF Steps
  <2>3. Declines'
    BY <1>4, <2>2 DEF Declines, Declined, Calm
  <2>4. \A q \in Process : Loaded(q)'
    BY <2>2 DEF Loaded, Registering
  <2>. QED  BY <2>3, <2>4
<1>. QED  BY <1>2, <1>3, <1>4 DEF SaveChoice

LEMMA DeclineClear ==
  ASSUME TypeInv, DeclineInv, NEW p \in Process, excused \subseteq excused', ClearOutbox(p)
  PROVE  DeclineInv'
<1> SUFFICES ASSUME "consent" \notin excused' PROVE Declines' /\ \A q \in Process : Loaded(q)'
  BY DEF DeclineInv
<1>1. Declines /\ \A q \in Process : Loaded(q)
  BY DEF DeclineInv
<1>2. pc'[p] = "unsession" /\ \A q \in Process \ {p} : pc'[q] = pc[q]
  BY GotoType DEF ClearOutbox, Steps
<1>3. config' = config /\ outbox' = <<>> /\ cfg' = cfg
  BY DEF ClearOutbox, locals
<1>4. Declines'
  BY <1>1, <1>2, <1>3 DEF Declines, Calm
<1>5. \A q \in Process : Loaded(q)'
  BY <1>1, <1>2, <1>3 DEF Loaded, Registering
<1>. QED  BY <1>4, <1>5

\* The steps of a process that has gone beyond the check of the consent.
LEMMA DeclineBusy ==
  ASSUME TypeInv, DeclineInv, NEW p \in Process, excused \subseteq excused',
         \/ LoadLocalSession(p) \/ CreateLocalSession(p) \/ NextSequence(p) \/ AppendOutbox(p)
         \/ CompleteSession(p) \/ ReadOutbox(p) \/ LoadForToken(p) \/ Register(p)
         \/ LoadWriteToken(p) \/ OpenSession(p) \/ RefuseInstall(p) \/ Post(p) \/ LoseAnswer(p)
         \/ RefuseWrite(p) \/ GiveUp(p) \/ TrimOutbox(p)
  PROVE  DeclineInv'
<1>1. pc[p] \notin Calm
  BY DEF LoadLocalSession, CreateLocalSession, NextSequence, AppendOutbox, CompleteSession,
     ReadOutbox, LoadForToken, Register, LoadWriteToken, OpenSession, RefuseInstall, Post,
     LoseAnswer, RefuseWrite, GiveUp, TrimOutbox, Calm
<1>2. cfg \in [Process -> Config] /\ {"idle", "create", "number", "append", "complete", "flush",
        "token", "register", "session", "open", "reregister", "reopen", "post", "trim"} \subseteq Steps
  BY DEF TypeInv, LocalsType, Steps
<1>3. ASSUME End(p), config' = config PROVE DeclineInv'
  BY <1>1, <1>2, <1>3, BusyStep, EndForgets DEF Registering
<1>4. ASSUME NEW step \in Steps \ {"register", "session", "open", "reregister"},
             Goto(p, step), config' = config, cfg' = cfg
      PROVE  DeclineInv'
  BY <1>1, <1>2, <1>4, BusyStep DEF Registering
<1>5. CASE \/ LoadLocalSession(p) \/ CreateLocalSession(p) \/ NextSequence(p)
           \/ AppendOutbox(p) \/ CompleteSession(p)
  BY <1>2, <1>3, <1>4, <1>5 DEF LoadLocalSession, CreateLocalSession, NextSequence, AppendOutbox,
     CompleteSession, Emitted, files, locals
<1>6. CASE ReadOutbox(p) \/ Post(p) \/ LoseAnswer(p) \/ GiveUp(p) \/ TrimOutbox(p)
  BY <1>2, <1>3, <1>4, <1>6 DEF ReadOutbox, Post, LoseAnswer, GiveUp, TrimOutbox, files, locals
<1>7. CASE RefuseWrite(p)
  BY <1>2, <1>4, <1>7 DEF RefuseWrite
<1>8. CASE LoadForToken(p)
  <2>1. CASE End(p)
    BY <1>3, <1>8, <2>1 DEF LoadForToken, files
  <2>2. ASSUME NEW step \in {"session", "register"}, Goto(p, step), cfg' = [cfg EXCEPT ![p] = config]
        PROVE  DeclineInv'
    <3>1. cfg'[p] = config /\ (\A q \in Process \ {p} : cfg'[q] = cfg[q]) /\ config' = config
      BY <1>2, <1>8, <2>2 DEF LoadForToken, files
    <3>. QED  BY <1>1, <1>2, <2>2, <3>1, BusyStep
  <2>. QED  BY <1>8, <2>1, <2>2 DEF LoadForToken
<1>9. CASE Register(p)
  <2>1. cfg'[p] = [cfg[p] EXCEPT !.token = TRUE] /\ \A q \in Process \ {p} : cfg'[q] = cfg[q]
    BY <1>2, <1>9 DEF Register
  <2>2. cfg'[p].consent = cfg[p].consent /\ config' = cfg'[p]
    BY <1>2, <1>9, <2>1 DEF Register, Config
  <2>3. pc[p] \in Registering
    BY <1>9 DEF Register, Registering
  <2>4. PICK step \in {"session", "reopen"} : Goto(p, step)
    BY <1>9 DEF Register
  <2>. QED  BY <1>1, <1>2, <2>1, <2>2, <2>3, <2>4, BusyStep
<1>10. CASE LoadWriteToken(p)
  <2>1. pc[p] \in Registering /\ cfg' = cfg /\ config' = config
    BY <1>10 DEF LoadWriteToken, Registering, files
  <2>2. PICK step \in {"post", "open"} : Goto(p, step)
    BY <1>10 DEF LoadWriteToken
  <2>. QED  BY <1>1, <1>2, <2>1, <2>2, BusyStep
<1>11. CASE OpenSession(p)
  BY <1>2, <1>4, <1>11 DEF OpenSession
<1>12. CASE RefuseInstall(p)
  <2>1. config'.consent = cfg[p].consent /\ pc[p] \in Registering
    BY <1>2, <1>12 DEF RefuseInstall, Registering, Config
  <2>2. CASE ConsentEnabled(cfg[p])
    <3>1. cfg' = [cfg EXCEPT ![p] = config'] /\ Goto(p, "reregister")
      BY <1>12, <2>2 DEF RefuseInstall
    <3>2. cfg'[p] = config' /\ \A q \in Process \ {p} : cfg'[q] = cfg[q]
      BY <1>2, <3>1
    <3>. QED  BY <1>1, <1>2, <2>1, <3>1, <3>2, BusyStep
  <2>3. CASE ~ConsentEnabled(cfg[p])
    <3>1. End(p) /\ "idle" \notin Registering
      BY <1>12, <2>3 DEF RefuseInstall, Registering
    <3>. QED  BY <1>1, <1>2, <2>1, <3>1, BusyStep, EndForgets
  <2>. QED  BY <2>2, <2>3
<1>. QED  BY <1>5, <1>6, <1>7, <1>8, <1>9, <1>10, <1>11, <1>12

\* The steps that leave a decline alone.
LEMMA DeclineCalm ==
  ASSUME TypeInv, DeclineInv, NEW p \in Process, excused \subseteq excused',
         \/ Ensure(p) \/ LoadForChoice(p) \/ ClearSession(p) \/ Emit(p) \/ Flush(p) \/ Kill(p)
         \/ \E c \in Commands : Run(p, c)
  PROVE  DeclineInv'
<1>1. cfg \in [Process -> Config] /\ config' = config /\ outbox' = outbox
  BY DEF TypeInv, LocalsType, Ensure, LoadForChoice, ClearSession, Emit, Flush, Kill, Run, files
<1>2. /\ {"idle", "choose", "choice", "emit", "flush", "ensure"} \subseteq Steps \cap Calm
      /\ {"local", "read"} \subseteq Steps
      /\ {"local", "read", "idle", "choose", "choice", "emit", "flush", "ensure"} \cap Registering = {}
  BY DEF Steps, Calm, Registering
<1>3. pc[p] = "clear" => "consent" \in excused'
  BY DEF Ensure, LoadForChoice, ClearSession, Emit, Flush, Kill, Run
<1>4. ASSUME End(p) PROVE DeclineInv'
  BY <1>1, <1>2, <1>3, <1>4, CalmStep, EndForgets
<1>5. ASSUME NEW step \in {"choose", "choice", "emit", "flush", "ensure", "local", "read"},
             Goto(p, step), step \in {"local", "read"} => config.consent = "enabled",
             \A q \in Process \ {p} : cfg'[q] = cfg[q]
      PROVE  DeclineInv'
  BY <1>1, <1>2, <1>3, <1>5, CalmStep
<1>6. CASE Ensure(p) \/ ClearSession(p) \/ Kill(p)
  BY <1>4, <1>5, <1>6 DEF Ensure, ClearSession, Kill, locals
<1>7. CASE LoadForChoice(p)
  BY <1>1, <1>5, <1>7 DEF LoadForChoice
<1>8. CASE Emit(p) \/ Flush(p)
  BY <1>4, <1>5, <1>8 DEF Emit, Flush, ConsentEnabled, locals
<1>9. ASSUME NEW c \in Commands, Run(p, c) PROVE DeclineInv'
  <2>1. PICK step \in {"choose", "emit", "flush", "ensure"} : Goto(p, step)
    BY <1>9, TelemetryAssumption DEF TelemetryAssumption, Run, Command
  <2>. QED  BY <1>5, <1>9, <2>1 DEF Run
<1>. QED  BY <1>6, <1>7, <1>8, <1>9

LEMMA DeclineInit == Init => DeclineInv
  BY TelemetryAssumption DEF TelemetryAssumption, Init, DeclineInv, Declines, Loaded, Calm,
     Registering

LEMMA DeclineNext == TypeInv /\ DeclineInv /\ [Next]_vars => DeclineInv'
<1> SUFFICES ASSUME TypeInv, DeclineInv, [Next]_vars PROVE DeclineInv'
  OBVIOUS
<1>1. excused \subseteq excused'
  BY ExcusedGrows
<1>2. ASSUME NEW p \in Process, Step(p) PROVE DeclineInv'
  BY <1>1, <1>2, DeclineSave, DeclineClear, DeclineBusy, DeclineCalm DEF Step
<1>3. ASSUME NEW p \in Process, Kill(p) \/ \E c \in Commands : Run(p, c) PROVE DeclineInv'
  BY <1>1, <1>3, DeclineCalm
<1>4. CASE SuppressionEnds
  <2>1. config'.consent = config.consent /\ config'.token = config.token
    BY <1>4 DEF SuppressionEnds, TypeInv, FilesType, Config
  <2>2. UNCHANGED <<outbox, pc, cfg, excused>>
    BY <1>4 DEF SuppressionEnds, locals, history
  <2>. QED  BY <2>1, <2>2 DEF DeclineInv, Declines, Loaded
<1>5. CASE UNCHANGED vars
  <2>1. UNCHANGED <<config, outbox, pc, cfg, excused>>
    BY <1>5 DEF vars, files, locals, history
  <2>. QED  BY <2>1 DEF DeclineInv, Declines, Loaded
<1>. QED  BY <1>2, <1>3, <1>4, <1>5 DEF Next

\* "Never Ask Again" holds: however many commands race and wherever they are
\* killed, a decline that met no other command leaves no token behind, and an empty
\* outbox once the local state is cleared.
THEOREM ADeclineHolds == Spec => []DeclineHolds
<1>1. Spec => []DeclineInv
  BY TypeInvHolds, DeclineInit, DeclineNext, PTL DEF Spec
<1>2. DeclineInv => DeclineHolds
  BY DEF DeclineInv, Declines, DeclineHolds
<1>. QED  BY <1>1, <1>2, PTL

(* Losses and doubles *)

Pending == {"local", "create", "number", "append"}

\* The numbers of a sequence of events differ, and none has been processed.
Distinct(seq) == \A i, j \in DOMAIN seq : i # j => seq[i].number # seq[j].number
Fresh(seq) == \A i \in DOMAIN seq : relay[seq[i].number] = 0

\* What is queued is in the sequence, or has been processed.
Kept(seq) == \A n \in queued : n \in Numbers(seq) \/ relay[n] > 0

\* A batch that was sent has been processed, and what follows it is kept.
LossInv ==
  "loss" \notin excused =>
    /\ Kept(outbox)
    /\ \A p \in Process : pc[p] \in Flushing => Kept(queue[p])
    /\ \A p \in Process : pc[p] = "trim" =>
         \A n \in BatchLengths(queue[p]) : Kept(Remaining(p, n))

\* The events that somebody has or the relay had.
Known ==
  Numbers(outbox) \cup {n \in 1..MaxEvents : relay[n] > 0}
    \cup UNION {Numbers(queue[p]) : p \in Process}

\* The events a flush has in hand are still to be processed.
Unsent(p) ==
  /\ pc[p] \in Flushing \ {"trim"} => Fresh(queue[p])
  /\ pc[p] = "trim" => \A n \in BatchLengths(queue[p]) : Fresh(Remaining(p, n))

\* A number that was drawn is not in use.
Drawn(p) ==
  pc[p] \in Pending =>
    mine[p] \notin Known /\ \A q \in Process : pc[q] \in Pending /\ mine[q] = mine[p] => q = p

LEMMA EmptyFacts == Numbers(<<>>) = {} /\ Distinct(<<>>) /\ Fresh(<<>>)
  BY DEF Numbers, Distinct, Fresh

LEMMA NumbersType ==
  ASSUME NEW seq \in Seq(Event)
  PROVE  /\ \A n : n \in Numbers(seq) <=> \E i \in 1..Len(seq) : n = seq[i].number
         /\ DOMAIN seq = 1..Len(seq) /\ \A i \in 1..Len(seq) : seq[i] \in Event
  BY DEF Numbers

LEMMA QueuesType ==
  ASSUME TypeInv, NEW p \in Process
  PROVE  queue[p] \in Seq(Event) /\ outbox \in Seq(Event)
  BY DEF TypeInv, LocalsType, FilesType

\* An event at the end of the outbox.
LEMMA AppendFacts ==
  ASSUME NEW seq \in Seq(Event), NEW e \in Event
  PROVE  LET long == seq \o <<e>> IN
         /\ long \in Seq(Event) /\ Len(long) = Len(seq) + 1
         /\ \A i \in 1..Len(seq) : long[i] = seq[i]
         /\ long[Len(seq) + 1] = e
         /\ Numbers(long) = Numbers(seq) \cup {e.number}
<1> DEFINE long == seq \o <<e>>
<1>1. /\ long \in Seq(Event) /\ Len(long) = Len(seq) + 1 /\ Len(seq) \in Nat
      /\ \A i \in 1..Len(seq) : long[i] = seq[i]
      /\ long[Len(seq) + 1] = e
  OBVIOUS
<1> HIDE DEF long
<1>2. \A n : n \in Numbers(long) <=> \E i \in 1..Len(long) : n = long[i].number
  BY <1>1, NumbersType
<1>3. \A n : n \in Numbers(seq) <=> \E i \in 1..Len(seq) : n = seq[i].number
  BY NumbersType
<1>4. \A i \in 1..Len(long) : i \in 1..Len(seq) \/ i = Len(seq) + 1
  BY <1>1
<1>5. \A i \in 1..Len(seq) : i \in 1..Len(long)
  BY <1>1
<1>6. Len(seq) + 1 \in 1..Len(long)
  BY <1>1
<1>7. Numbers(long) = Numbers(seq) \cup {e.number}
  BY <1>1, <1>2, <1>3, <1>4, <1>5, <1>6
<1>. QED  BY <1>1, <1>7 DEF long

\* There is one leading batch.
LEMMA OneBatch ==
  ASSUME NEW q \in Seq(Event), NEW n \in BatchLengths(q), NEW m \in BatchLengths(q)
  PROVE  n = m
<1>1. Len(q) \in Nat /\ n \in 1..Len(q) /\ m \in 1..Len(q)
  BY DEF BatchLengths
<1>2. ~(n < m) /\ ~(m < n)
  BY <1>1 DEF BatchLengths
<1>. QED  BY <1>1, <1>2

\* The events in hand are the batch and the rest.
LEMMA PartsNumbers ==
  ASSUME TypeInv, NEW p \in Process, NEW n \in BatchLengths(queue[p])
  PROVE  /\ Numbers(queue[p]) = Numbers(Batch(p, n)) \cup Numbers(Remaining(p, n))
         /\ Distinct(queue[p]) => /\ Distinct(Remaining(p, n))
                                  /\ Numbers(Batch(p, n)) \cap Numbers(Remaining(p, n)) = {}
<1> DEFINE q == queue[p]  b == Batch(p, n)  r == Remaining(p, n)
<1>1. /\ b \in Seq(Event) /\ Len(b) = n /\ \A i \in 1..n : b[i] = q[i]
      /\ r \in Seq(Event) /\ Len(r) = Len(q) - n /\ \A i \in 1..(Len(q) - n) : r[i] = q[n + i]
      /\ q \in Seq(Event) /\ n \in 1..Len(q) /\ Len(q) \in Nat
  BY PartsType, QueuesType DEF BatchLengths
<1> HIDE DEF q, b, r
<1>2. \A m : m \in Numbers(b) <=> \E i \in 1..n : m = q[i].number
  <2>1. \A m : m \in Numbers(b) <=> \E i \in 1..n : m = b[i].number
    <3>1. \A m : m \in Numbers(b) <=> \E i \in 1..Len(b) : m = b[i].number
      BY <1>1, NumbersType
    <3>. QED  BY <1>1, <3>1
  <2>2. \A i \in 1..n : b[i].number = q[i].number
    BY <1>1
  <2>. QED  BY <2>1, <2>2
<1>3. \A m : m \in Numbers(r) <=> \E i \in 1..(Len(q) - n) : m = q[n + i].number
  <2>1. \A m : m \in Numbers(r) <=> \E i \in 1..(Len(q) - n) : m = r[i].number
    <3>1. \A m : m \in Numbers(r) <=> \E i \in 1..Len(r) : m = r[i].number
      BY <1>1, NumbersType
    <3>. QED  BY <1>1, <3>1
  <2>2. \A i \in 1..(Len(q) - n) : r[i].number = q[n + i].number
    BY <1>1
  <2>. QED  BY <2>1, <2>2
<1>4. \A m : m \in Numbers(q) <=> \E i \in 1..Len(q) : m = q[i].number
  BY <1>1, NumbersType
<1>5. /\ \A m : m \in Numbers(b) <=> \E i \in 1..n : m = q[i].number
      /\ \A m : m \in Numbers(r) <=> \E i \in 1..(Len(q) - n) : m = q[n + i].number
      /\ \A m : m \in Numbers(q) <=> \E i \in 1..Len(q) : m = q[i].number
  BY <1>2, <1>3, <1>4
<1>6. \A i \in 1..Len(q) : i \in 1..n \/ (i - n \in 1..(Len(q) - n) /\ n + (i - n) = i)
  BY <1>1
<1>7. \A i \in 1..(Len(q) - n) : n + i \in 1..Len(q) /\ n + i > n
  BY <1>1
<1>8. \A i \in 1..n : i \in 1..Len(q) /\ i <= n
  BY <1>1
<1>9. Numbers(q) \subseteq Numbers(b) \cup Numbers(r)
  BY <1>5, <1>6
<1>10. Numbers(b) \cup Numbers(r) \subseteq Numbers(q)
  BY <1>5, <1>7, <1>8
<1>11. ASSUME Distinct(q) PROVE Distinct(r) /\ Numbers(b) \cap Numbers(r) = {}
  <2>1. \A i, j \in 1..Len(q) : i # j => q[i].number # q[j].number
    BY <1>1, <1>11 DEF Distinct
  <2>2. Distinct(r)
    <3> SUFFICES ASSUME NEW i \in 1..(Len(q) - n), NEW j \in 1..(Len(q) - n), i # j
                 PROVE  r[i].number # r[j].number
      BY <1>1 DEF Distinct
    <3>1. n \in Nat /\ i \in Nat /\ j \in Nat
      BY <1>1
    <3>2. n + i # n + j
      BY <3>1
    <3>3. n + i \in 1..Len(q) /\ n + j \in 1..Len(q)
      BY <1>7
    <3>4. r[i].number = q[n + i].number /\ r[j].number = q[n + j].number
      BY <1>1
    <3>. QED  BY <2>1, <3>2, <3>3, <3>4
  <2>3. \A i \in 1..n : \A j \in 1..(Len(q) - n) : q[i].number # q[n + j].number
    <3> SUFFICES ASSUME NEW i \in 1..n, NEW j \in 1..(Len(q) - n)
                 PROVE  q[i].number # q[n + j].number
      OBVIOUS
    <3>1. i \in 1..Len(q) /\ n + j \in 1..Len(q) /\ i # n + j
      BY <1>1
    <3>. QED  BY <2>1, <3>1
  <2>. QED  BY <1>5, <2>2, <2>3
<1>. QED  BY <1>9, <1>10, <1>11 DEF q, b, r

\* The relay counts up what it is sent, and nothing else.
LEMMA ProcessedCounts ==
  ASSUME TypeInv, NEW p \in Process, NEW n, Processed(p, n)
  PROVE  \A m \in 1..MaxEvents :
           relay'[m] = IF m \in Numbers(Batch(p, n)) THEN relay[m] + 1 ELSE relay[m]
<1>1. relay \in [1..MaxEvents -> Nat]
  BY DEF TypeInv, HistoryType
<1>. QED  BY <1>1 DEF Processed

\* The event a process is about to append.
Drafted(p) == [number |-> mine[p], session |-> ses[p].id, seq |-> ses[p].seq]

LEMMA DraftedType ==
  ASSUME TypeInv, NEW p \in Process, pc[p] = "append"
  PROVE  /\ Drafted(p) \in Event /\ mine[p] \in 1..events /\ mine[p] \in 1..MaxEvents
         /\ Drafted(p).number = mine[p] /\ Drafted(p).session = ses[p].id
         /\ Drafted(p).seq = ses[p].seq
<1>1. mine[p] \in 1..events /\ events \in 0..MaxEvents /\ MaxEvents \in Nat
  BY Constants DEF TypeInv, Emitting, BudgetsType
<1>2. ses[p].id \in Nat /\ ses[p].seq \in Nat
  BY DEF TypeInv, LocalsType, Session
<1>3. mine[p] \in Nat /\ mine[p] \in 1..MaxEvents
  BY <1>1
<1>. QED  BY <1>1, <1>2, <1>3 DEF Drafted, Event

\* A step that neither sends, reads nor writes an outbox.
PassBy(p) ==
  /\ \A q \in Process \ {p} : pc'[q] = pc[q] /\ queue'[q] = queue[q] /\ mine'[q] = mine[q]
  /\ UNCHANGED <<outbox, relay, queued, events>>
  /\ queue'[p] \in {queue[p], <<>>}
  /\ pc'[p] \in Pending => pc[p] \in Pending /\ mine'[p] = mine[p]
  /\ pc'[p] \in Flushing =>
       pc[p] \in Flushing /\ pc[p] # "trim" /\ pc'[p] # "trim" /\ queue'[p] = queue[p]
  /\ pc[p] = "trim" => "double" \in excused'

LEMMA EndPasses ==
  ASSUME TypeInv, NEW p \in Process, End(p), UNCHANGED <<outbox, relay, queued, events>>,
         pc[p] = "trim" => "double" \in excused'
  PROVE  PassBy(p)
<1>1. pc'[p] = "idle" /\ \A q \in Process \ {p} : pc'[q] = pc[q] /\ mine'[q] = mine[q]
  BY EndType
<1>2. queue'[p] = <<>> /\ \A q \in Process \ {p} : queue'[q] = queue[q]
  BY DEF End, TypeInv, LocalsType
<1>. QED  BY <1>1, <1>2 DEF PassBy, Pending, Flushing

LEMMA GotoPasses ==
  ASSUME TypeInv, NEW p \in Process, NEW step \in Steps, Goto(p, step), pc[p] # "trim",
         step # "trim", step \in Pending => pc[p] \in Pending,
         step \in Flushing => pc[p] \in Flushing,
         UNCHANGED <<outbox, relay, queued, events, queue, mine>>
  PROVE  PassBy(p)
  BY GotoType DEF PassBy

LEMMA Passing ==
  ASSUME TypeInv, NEW p \in Process,
         \/ Ensure(p) \/ LoadForChoice(p) \/ SaveChoice(p) \/ ClearSession(p)
         \/ LoadLocalSession(p) \/ CreateLocalSession(p) \/ NextSequence(p) \/ CompleteSession(p)
         \/ Flush(p) \/ LoadForToken(p) \/ Register(p) \/ LoadWriteToken(p) \/ OpenSession(p)
         \/ RefuseInstall(p) \/ RefuseWrite(p) \/ GiveUp(p) \/ Kill(p)
         \/ \E c \in Commands : Run(p, c)
  PROVE  PassBy(p)
<1>1. /\ {"choose", "choice", "clear", "emit", "create", "number", "append", "flush", "read",
          "token", "register", "session", "open", "reregister", "reopen", "post", "ensure"}
           \subseteq Steps \ {"trim"}
      /\ {"choose", "choice", "clear", "emit", "ensure", "flush", "read"}
           \cap (Pending \cup Flushing) = {}
      /\ {"local", "create", "number", "append"} \subseteq Pending
      /\ {"create", "number", "append"} \cap Flushing = {}
      /\ {"token", "register", "session", "open", "reregister", "reopen", "post"} \subseteq Flushing
      /\ {"token", "register", "session", "open", "reregister", "reopen", "post"} \cap Pending = {}
  BY DEF Steps, Pending, Flushing
<1>2. ASSUME End(p), UNCHANGED <<outbox, relay, queued, events>>,
             pc[p] = "trim" => "double" \in excused'
      PROVE  PassBy(p)
  BY <1>2, EndPasses
<1>3. ASSUME NEW step \in {"choose", "choice", "clear", "emit", "ensure", "flush", "read"},
             Goto(p, step), pc[p] # "trim",
             UNCHANGED <<outbox, relay, queued, events, queue, mine>>
      PROVE  PassBy(p)
  BY <1>1, <1>3, GotoPasses
<1>4. ASSUME NEW step \in {"create", "number", "append"}, Goto(p, step), pc[p] \in Pending,
             UNCHANGED <<outbox, relay, queued, events, queue, mine>>
      PROVE  PassBy(p)
  BY <1>1, <1>4, GotoPasses DEF Pending
<1>5. ASSUME NEW step \in {"token", "register", "session", "open", "reregister", "reopen", "post"},
             Goto(p, step), pc[p] \in Flushing \ {"trim"},
             UNCHANGED <<outbox, relay, queued, events, queue, mine>>
      PROVE  PassBy(p)
  BY <1>1, <1>5, GotoPasses
<1>6. CASE Ensure(p) \/ Flush(p)
  <2>1. UNCHANGED <<outbox, relay, queued, events>> /\ pc[p] # "trim"
    BY <1>6 DEF Ensure, Flush, files, history, budgets
  <2>. QED  BY <1>2, <1>3, <1>6, <2>1 DEF Ensure, Flush, locals
<1>7. CASE LoadForChoice(p)
  BY <1>3, <1>7 DEF LoadForChoice, files, history, budgets
<1>8. CASE SaveChoice(p)
  <2>1. UNCHANGED <<outbox, relay, queued, events>> /\ pc[p] # "trim"
    BY <1>8 DEF SaveChoice, budgets
  <2>. QED  BY <1>2, <1>3, <1>8, <2>1 DEF SaveChoice, locals
<1>9. CASE ClearSession(p) \/ GiveUp(p)
  BY <1>2, <1>9 DEF ClearSession, GiveUp, files, history, budgets
<1>10. CASE LoadLocalSession(p)
  <2>1. UNCHANGED <<outbox, relay, queued, events>> /\ pc[p] = "local"
    BY <1>10 DEF LoadLocalSession, files
  <2>. QED  BY <1>1, <1>2, <1>4, <1>10, <2>1 DEF LoadLocalSession
<1>11. CASE CreateLocalSession(p) \/ NextSequence(p)
  BY <1>1, <1>4, <1>11 DEF CreateLocalSession, NextSequence, history, budgets
<1>12. CASE CompleteSession(p)
  BY <1>2, <1>3, <1>12 DEF CompleteSession, Emitted, history, budgets, locals
<1>13. CASE LoadForToken(p)
  <2>1. UNCHANGED <<outbox, relay, queued, events>> /\ pc[p] = "token"
    BY <1>13 DEF LoadForToken, files, history, budgets
  <2>. QED  BY <1>1, <1>2, <1>5, <1>13, <2>1 DEF LoadForToken
<1>14. CASE Register(p)
  <2>1. UNCHANGED <<outbox, relay, queued, events, queue, mine>> /\ pc[p] \in Flushing \ {"trim"}
    BY <1>14 DEF Register, history, budgets, Flushing
  <2>. QED  BY <1>5, <1>14, <2>1 DEF Register
<1>15. CASE LoadWriteToken(p)
  <2>1. UNCHANGED <<outbox, relay, queued, events, queue, mine>> /\ pc[p] \in Flushing \ {"trim"}
    BY <1>15 DEF LoadWriteToken, files, budgets, Flushing
  <2>. QED  BY <1>5, <1>15, <2>1 DEF LoadWriteToken
<1>16. CASE OpenSession(p)
  BY <1>5, <1>16 DEF OpenSession, history, budgets, Flushing
<1>17. CASE RefuseInstall(p) \/ RefuseWrite(p)
  <2>1. UNCHANGED <<outbox, relay, queued, events>> /\ pc[p] \in Flushing \ {"trim"}
    BY <1>17 DEF RefuseInstall, RefuseWrite, budgets, Flushing
  <2>. QED  BY <1>2, <1>5, <1>17, <2>1 DEF RefuseInstall, RefuseWrite
<1>18. CASE Kill(p)
  BY <1>2, <1>18 DEF Kill, files
<1>19. ASSUME NEW c \in Commands, Run(p, c) PROVE PassBy(p)
  <2>1. PICK step \in {"choose", "emit", "flush", "ensure"} : Goto(p, step)
    BY <1>19, TelemetryAssumption DEF TelemetryAssumption, Run, Command
  <2>. QED  BY <1>3, <1>19, <2>1 DEF Run, files, history
<1>. QED  BY <1>6, <1>7, <1>8, <1>9, <1>10, <1>11, <1>12, <1>13, <1>14, <1>15, <1>16, <1>17,
             <1>18, <1>19

LEMMA LossPass ==
  ASSUME TypeInv, LossInv, NEW p \in Process, PassBy(p), excused \subseteq excused'
  PROVE  LossInv'
<1> SUFFICES ASSUME "loss" \notin excused'
             PROVE  /\ Kept(outbox)'
                    /\ \A q \in Process : pc'[q] \in Flushing => Kept(queue[q])'
                    /\ \A q \in Process : pc'[q] = "trim" =>
                         \A n \in BatchLengths(queue'[q]) : Kept(Remaining(q, n))'
  BY DEF LossInv
<1>1. UNCHANGED <<outbox, relay, queued>>
  BY DEF PassBy
<1>2. /\ Kept(outbox)
      /\ \A q \in Process : pc[q] \in Flushing => Kept(queue[q])
      /\ \A q \in Process : pc[q] = "trim" =>
           \A n \in BatchLengths(queue[q]) : Kept(Remaining(q, n))
  BY DEF LossInv
<1>3. \A q \in Process : pc'[q] \in Flushing => pc[q] \in Flushing /\ queue'[q] = queue[q]
  BY DEF PassBy
<1>4. \A q \in Process : pc'[q] = "trim" => pc[q] = "trim" /\ queue'[q] = queue[q]
  BY DEF PassBy, Flushing
<1>. QED  BY <1>1, <1>2, <1>3, <1>4 DEF Kept, Remaining

\* The relay's count of an event only grows, and what a batch holds is counted.
LEMMA LossPost ==
  ASSUME TypeInv, LossInv, NEW p \in Process, Post(p) \/ LoseAnswer(p),
         excused \subseteq excused'
  PROVE  LossInv'
<1> SUFFICES ASSUME "loss" \notin excused'
             PROVE  /\ Kept(outbox)'
                    /\ \A q \in Process : pc'[q] \in Flushing => Kept(queue[q])'
                    /\ \A q \in Process : pc'[q] = "trim" =>
                         \A n \in BatchLengths(queue'[q]) : Kept(Remaining(q, n))'
  BY DEF LossInv
<1>1. /\ outbox' = outbox /\ queued' = queued /\ pc[p] = "post"
      /\ \A q \in Process \ {p} : pc'[q] = pc[q] /\ queue'[q] = queue[q]
      /\ pc'[p] = "idle" \/ (pc'[p] = "trim" /\ queue'[p] = queue[p])
  <2>1. CASE Post(p)
    BY <2>1, GotoType DEF Post, files, locals, Steps
  <2>2. CASE LoseAnswer(p)
    <3>1. pc'[p] = "idle" /\ \A q \in Process \ {p} : pc'[q] = pc[q]
      BY <2>2, EndType DEF LoseAnswer
    <3>. QED  BY <2>2, <3>1 DEF LoseAnswer, End, files, TypeInv, LocalsType
  <2>. QED  BY <2>1, <2>2
<1>2. PICK n \in BatchLengths(queue[p]) : Processed(p, n)
  BY DEF Post, LoseAnswer
<1>3. /\ \A m \in 1..MaxEvents : relay[m] \in Nat
      /\ \A m \in queued : m \in 1..MaxEvents
  BY DEF TypeInv, HistoryType
<1>4. \A m \in queued : /\ relay[m] > 0 => relay'[m] > 0
                        /\ m \in Numbers(Batch(p, n)) => relay'[m] > 0
  BY <1>2, <1>3, ProcessedCounts
<1>5. /\ \A m \in queued : m \in Numbers(outbox) \/ relay[m] > 0
      /\ \A q \in Process : pc[q] \in Flushing =>
           \A m \in queued : m \in Numbers(queue[q]) \/ relay[m] > 0
      /\ \A q \in Process : pc[q] = "trim" =>
           \A k \in BatchLengths(queue[q]) :
             \A m \in queued : m \in Numbers(Remaining(q, k)) \/ relay[m] > 0
  BY DEF LossInv, Kept
<1>6. Kept(outbox)'
  BY <1>1, <1>4, <1>5 DEF Kept
<1>7. ASSUME NEW q \in Process, pc'[q] \in Flushing PROVE Kept(queue[q])'
  <2>1. pc[q] \in Flushing /\ queue'[q] = queue[q]
    BY <1>1, <1>7 DEF Flushing
  <2>. QED  BY <1>1, <1>4, <1>5, <2>1 DEF Kept
<1>8. ASSUME NEW q \in Process, pc'[q] = "trim", NEW k \in BatchLengths(queue'[q])
      PROVE  Kept(Remaining(q, k))'
  <2>1. queue'[q] = queue[q]
    BY <1>1, <1>8
  <2>2. Remaining(q, k)' = Remaining(q, k)
    BY <2>1 DEF Remaining
  <2>3. \A m \in queued : m \in Numbers(Remaining(q, k)) \/ relay'[m] > 0
    <3>1. CASE q # p
      <4>1. \A m \in queued : m \in Numbers(Remaining(q, k)) \/ relay[m] > 0
        BY <1>1, <1>5, <1>8, <2>1, <3>1
      <4>. QED  BY <1>4, <4>1
    <3>2. CASE q = p
      <4>1. k = n
        BY <1>2, <1>8, <2>1, <3>2, OneBatch, QueuesType
      <4>2. \A m \in queued : m \in Numbers(queue[p]) \/ relay[m] > 0
        BY <1>1, <1>5 DEF Flushing
      <4>3. Numbers(queue[p]) = Numbers(Batch(p, n)) \cup Numbers(Remaining(p, n))
        BY <1>2, PartsNumbers
      <4>. QED  BY <1>4, <3>2, <4>1, <4>2, <4>3
    <3>. QED  BY <3>1, <3>2
  <2>. QED  BY <1>1, <2>2, <2>3 DEF Kept
<1>. QED  BY <1>6, <1>7, <1>8

\* The steps that read and write the outbox.
LEMMA LossOutbox ==
  ASSUME TypeInv, LossInv, NEW p \in Process, excused \subseteq excused',
         Emit(p) \/ ClearOutbox(p) \/ AppendOutbox(p) \/ ReadOutbox(p) \/ TrimOutbox(p)
  PROVE  LossInv'
<1> SUFFICES ASSUME "loss" \notin excused'
             PROVE  /\ Kept(outbox)'
                    /\ \A q \in Process : pc'[q] \in Flushing => Kept(queue[q])'
                    /\ \A q \in Process : pc'[q] = "trim" =>
                         \A n \in BatchLengths(queue'[q]) : Kept(Remaining(q, n))'
  BY DEF LossInv
<1>1. /\ Kept(outbox)
      /\ \A q \in Process : pc[q] \in Flushing => Kept(queue[q])
      /\ \A q \in Process : pc[q] = "trim" =>
           \A n \in BatchLengths(queue[q]) : Kept(Remaining(q, n))
  BY DEF LossInv
<1>2. /\ relay' = relay /\ pc'[p] # "trim"
      /\ \A q \in Process \ {p} : pc'[q] = pc[q] /\ queue'[q] = queue[q]
      /\ pc'[p] \in Flushing => queue'[p] \in {outbox, outbox'}
  <2>1. /\ {"local", "unsession", "complete", "flush", "idle"} \subseteq Steps \ ({"trim"} \cup Flushing)
        /\ "token" \in Steps
    BY DEF Steps, Flushing
  <2>2. CASE End(p)
    <3>1. pc'[p] = "idle" /\ \A q \in Process \ {p} : pc'[q] = pc[q]
      BY <2>2, EndType
    <3>2. \A q \in Process \ {p} : queue'[q] = queue[q]
      BY <2>2 DEF End, TypeInv, LocalsType
    <3>3. relay' = relay
      BY DEF Emit, ClearOutbox, AppendOutbox, ReadOutbox, TrimOutbox, history
    <3>. QED  BY <2>1, <3>1, <3>2, <3>3
  <2>3. ASSUME NEW step \in {"local", "unsession", "complete", "flush"}, Goto(p, step),
               queue' = queue
        PROVE  /\ pc'[p] = step /\ \A q \in Process \ {p} : pc'[q] = pc[q] /\ queue'[q] = queue[q]
               /\ pc'[p] \notin Flushing /\ pc'[p] # "trim"
    BY <2>1, <2>3, GotoType
  <2>4. CASE Emit(p)
    BY <2>2, <2>3, <2>4 DEF Emit, history
  <2>5. CASE ClearOutbox(p)
    BY <2>3, <2>5 DEF ClearOutbox, locals
  <2>6. CASE AppendOutbox(p)
    BY <2>2, <2>3, <2>6 DEF AppendOutbox, Emitted, locals
  <2>7. ASSUME Goto(p, "token"), queue' = [queue EXCEPT ![p] = outbox]
                                 \/ queue' = [queue EXCEPT ![p] = outbox']
        PROVE  /\ pc'[p] # "trim" /\ queue'[p] \in {outbox, outbox'}
               /\ \A q \in Process \ {p} : pc'[q] = pc[q] /\ queue'[q] = queue[q]
    BY <2>1, <2>7, GotoType DEF TypeInv, LocalsType
  <2>8. CASE ReadOutbox(p)
    BY <2>2, <2>7, <2>8 DEF ReadOutbox
  <2>9. CASE TrimOutbox(p)
    BY <2>2, <2>7, <2>9 DEF TrimOutbox, history
  <2>. QED  BY <2>4, <2>5, <2>6, <2>8, <2>9
<1>3. Kept(outbox)'
  <2>1. CASE Emit(p) \/ ReadOutbox(p)
    BY <1>1, <2>1 DEF Emit, ReadOutbox, files, history, Kept
  <2>2. CASE ClearOutbox(p)
    <3>1. outbox' = <<>> /\ queued' = queued \ Numbers(outbox) /\ relay' = relay
      BY <2>2 DEF ClearOutbox
    <3>. QED  BY <1>1, <3>1 DEF Kept
  <2>3. CASE AppendOutbox(p)
    <3>1. /\ outbox' = outbox \o <<Drafted(p)>> /\ queued' = queued \cup {mine[p]}
          /\ pc[p] = "append" /\ relay' = relay
      BY <2>3 DEF AppendOutbox, Drafted
    <3>2. Drafted(p) \in Event /\ Drafted(p).number = mine[p] /\ outbox \in Seq(Event)
      BY <3>1, DraftedType, QueuesType
    <3>3. Numbers(outbox') = Numbers(outbox) \cup {mine[p]}
      BY <3>1, <3>2, AppendFacts
    <3>. QED  BY <1>1, <3>1, <3>3 DEF Kept
  <2>4. CASE TrimOutbox(p)
    <3>1. PICK n \in BatchLengths(queue[p]) : outbox' = Remaining(p, n)
      BY <2>4 DEF TrimOutbox
    <3>2. pc[p] = "trim" /\ relay' = relay /\ queued' = queued
      BY <2>4 DEF TrimOutbox, history
    <3>. QED  BY <1>1, <3>1, <3>2 DEF Kept
  <2>. QED  BY <2>1, <2>2, <2>3, <2>4
<1>4. \A q \in Process : pc'[q] \in Flushing /\ (q = p \/ ~AppendOutbox(p)) =>
        queue'[q] = outbox' \/ (pc[q] = pc'[q] /\ queue'[q] = queue[q] /\ queued' \subseteq queued)
  <2>1. ReadOutbox(p) => outbox' = outbox
    BY DEF ReadOutbox, files
  <2>2. ~AppendOutbox(p) => queued' \subseteq queued
    BY DEF Emit, ClearOutbox, ReadOutbox, TrimOutbox, history
  <2>3. CASE AppendOutbox(p)
    <3>1. pc'[p] \in {"complete", "flush", "idle"}
      BY <2>3, EndType, GotoType DEF AppendOutbox, Emitted, Steps
    <3>. QED  BY <2>3, <3>1 DEF Flushing
  <2>4. CASE pc'[p] \in Flushing => queue'[p] = outbox'
    BY <1>2, <2>2, <2>3, <2>4
  <2>5. CASE ~(pc'[p] \in Flushing => queue'[p] = outbox')
    <3>1. Emit(p) => pc'[p] \in {"idle", "local"}
      BY EndType, GotoType DEF Emit, Steps
    <3>2. ClearOutbox(p) => pc'[p] = "unsession"
      BY GotoType DEF ClearOutbox, Steps
    <3>3. CASE TrimOutbox(p)
      <4>1. pc'[p] = "idle" \/ queue'[p] = outbox'
        BY <3>3, EndType DEF TrimOutbox, TypeInv, LocalsType
      <4>. QED  BY <2>5, <4>1 DEF Flushing
    <3>4. ~Emit(p) /\ ~ClearOutbox(p)
      BY <2>5, <3>1, <3>2 DEF Flushing
    <3>. QED  BY <1>2, <2>1, <2>3, <2>5, <3>3, <3>4
  <2>. QED  BY <2>4, <2>5
<1>5. \A q \in Process : pc'[q] \in Flushing => ~AppendOutbox(p)
  <2>1. ASSUME NEW q \in Process, pc'[q] \in Flushing, AppendOutbox(p) PROVE FALSE
    <3>1. pc'[p] \in {"complete", "flush", "idle"}
      BY <2>1, EndType, GotoType DEF AppendOutbox, Emitted, Steps
    <3>2. q # p /\ pc[q] \in Flushing
      BY <1>2, <2>1, <3>1 DEF Flushing
    <3>. QED  BY <2>1, <3>2 DEF AppendOutbox, Excused, Others
  <2>. QED  BY <2>1
<1>6. \A q \in Process : pc'[q] \in Flushing => Kept(queue[q])'
  BY <1>1, <1>2, <1>3, <1>4, <1>5 DEF Kept
<1>7. \A q \in Process : pc'[q] = "trim" =>
        \A n \in BatchLengths(queue'[q]) : Kept(Remaining(q, n))'
  <2>1. ASSUME NEW q \in Process, pc'[q] = "trim" PROVE q # p /\ pc[q] = "trim" /\ queue'[q] = queue[q] /\ queued' \subseteq queued
    <3>1. "trim" \in Flushing
      BY DEF Flushing
    <3>2. q # p /\ pc[q] = "trim" /\ queue'[q] = queue[q] /\ ~AppendOutbox(p)
      BY <1>2, <1>5, <2>1, <3>1
    <3>3. queued' \subseteq queued
      BY <3>2 DEF Emit, ClearOutbox, ReadOutbox, TrimOutbox, history
    <3>. QED  BY <3>2, <3>3
  <2>. QED  BY <1>1, <1>2, <2>1 DEF Kept, Remaining
<1>. QED  BY <1>3, <1>6, <1>7

\* DoubleInv, while nothing has excused a double.
Once ==
  /\ \A n \in 1..MaxEvents : relay[n] <= 1
  /\ Distinct(outbox) /\ \A p \in Process : Distinct(queue[p])
  /\ \A p, q \in Process : pc[p] \in Flushing /\ pc[q] \in Flushing => p = q
  /\ \A p \in Process : Unsent(p) /\ Drawn(p)
  /\ (\A p \in Process : pc[p] # "trim") => Fresh(outbox)
  /\ Known \subseteq 1..events

DoubleInv == "double" \notin excused => Once

\* A step that sends nothing: what it makes known was known, or was drawn by the
\* process that now appends it.
LEMMA OnceStep ==
  ASSUME TypeInv, TypeInv', Once, NEW p \in Process, relay' = relay, events' >= events,
         \A q \in Process \ {p} : pc'[q] = pc[q] /\ queue'[q] = queue[q] /\ mine'[q] = mine[q],
         \A n \in Known' : \/ n \in Known
                           \/ pc[p] \in Pending /\ pc'[p] \notin Pending /\ n = mine[p],
         Distinct(outbox'), Distinct(queue'[p]), Unsent(p)',
         pc'[p] \in Flushing => \A q \in Process \ {p} : pc[q] \notin Flushing,
         pc'[p] \in Pending => \/ pc[p] \in Pending /\ mine'[p] = mine[p]
                               \/ mine'[p] = events + 1,
         (\A q \in Process : pc'[q] # "trim") => Fresh(outbox)'
  PROVE  Once'
<1>1. /\ events \in Nat /\ events' \in Nat /\ MaxEvents \in Nat
      /\ \A q \in Process : pc[q] \in Pending => mine[q] \in 1..events /\ mine[q] \in 1..MaxEvents
  <2>1. events \in 0..MaxEvents /\ events' \in 0..MaxEvents /\ MaxEvents \in Nat
    BY Constants DEF TypeInv, BudgetsType
  <2>2. \A q \in Process : pc[q] \in Pending => mine[q] \in 1..events
    BY DEF TypeInv, Emitting, Pending
  <2>. QED  BY <2>1, <2>2
<1>2. \A q \in Process : pc'[q] \in Pending => mine'[q] \in 1..MaxEvents
  <2>1. events' \in 0..MaxEvents /\ MaxEvents \in Nat
    BY Constants DEF TypeInv, BudgetsType
  <2>2. \A q \in Process : pc'[q] \in Pending => mine'[q] \in 1..events'
    BY DEF TypeInv, Emitting, Pending
  <2>. QED  BY <2>1, <2>2
<1>3. \A n \in 1..MaxEvents : relay'[n] <= 1
  BY DEF Once
<1>4. \A q \in Process : Distinct(queue'[q])
  BY DEF Once
<1>5. \A q, r \in Process : pc'[q] \in Flushing /\ pc'[r] \in Flushing => q = r
  BY DEF Once
<1>6. ASSUME NEW q \in Process PROVE Unsent(q)'
  <2>1. CASE q # p
    <3>1. pc'[q] = pc[q] /\ queue'[q] = queue[q]
      BY <2>1
    <3>2. Unsent(q)
      BY DEF Once
    <3>3. Fresh(queue[q]) => Fresh(queue[q])'
      BY <3>1 DEF Fresh
    <3>4. \A n : Remaining(q, n)' = Remaining(q, n)
      BY <3>1 DEF Remaining
    <3>5. \A n : Fresh(Remaining(q, n)) => Fresh(Remaining(q, n))'
      BY <3>4 DEF Fresh
    <3>. QED  BY <3>1, <3>2, <3>3, <3>5 DEF Unsent
  <2>. QED  BY <2>1
<1>7. ASSUME NEW n \in Known' PROVE n \in 1..events'
  <2>1. n \in 1..events
    BY <1>1, <1>7 DEF Once
  <2>. QED  BY <1>1, <2>1
<1>8. \A q \in Process : pc[q] \in Pending =>
        mine[q] \notin Known /\ \A r \in Process : pc[r] \in Pending /\ mine[r] = mine[q] => r = q
  BY DEF Once, Drawn
<1>9. ASSUME NEW q \in Process, pc'[q] \in Pending, mine'[q] \in Known' PROVE FALSE
  <2>2. CASE q = p /\ mine'[p] = events + 1
    <3>1. events + 1 \in Known
      BY <1>9, <2>2
    <3>2. events + 1 \in 1..events
      BY <3>1 DEF Once
    <3>. QED  BY <1>1, <3>2
  <2>3. CASE pc[q] \in Pending /\ mine'[q] = mine[q]
    BY <1>8, <1>9, <2>3
  <2>. QED  BY <1>9, <2>2, <2>3
<1>10. ASSUME NEW q \in Process, pc'[q] \in Pending,
              NEW r \in Process, pc'[r] \in Pending, mine'[r] = mine'[q]
       PROVE  r = q
  <2>1. \A s \in Process : pc'[s] \in Pending =>
          \/ pc[s] \in Pending /\ mine'[s] = mine[s] /\ mine[s] <= events
          \/ s = p /\ mine'[s] = events + 1
    BY <1>1
  <2>2. ~(events + 1 <= events)
    BY <1>1
  <2>. QED  BY <1>8, <1>10, <2>1, <2>2
<1>11. ASSUME NEW q \in Process PROVE Drawn(q)'
  BY <1>9, <1>10 DEF Drawn
<1>. QED  BY <1>3, <1>4, <1>5, <1>6, <1>7, <1>11 DEF Once

LEMMA OncePass ==
  ASSUME TypeInv, TypeInv', Once, NEW p \in Process, PassBy(p), "double" \notin excused'
  PROVE  Once'
<1>1. /\ UNCHANGED <<outbox, relay, queued, events>> /\ pc[p] # "trim"
      /\ \A q \in Process \ {p} : pc'[q] = pc[q] /\ queue'[q] = queue[q] /\ mine'[q] = mine[q]
      /\ queue'[p] \in {queue[p], <<>>}
  BY DEF PassBy
<1>2. Known' \subseteq Known
  <2>1. \A q \in Process : \A n : n \in Numbers(queue'[q]) => n \in Numbers(queue[q])
    BY <1>1, EmptyFacts
  <2>. QED  BY <1>1, <2>1 DEF Known
<1>3. Distinct(outbox') /\ Distinct(queue'[p])
  BY <1>1, EmptyFacts DEF Once
<1>4. Unsent(p)'
  <2>1. pc'[p] \in Flushing => pc[p] \in Flushing \ {"trim"} /\ pc'[p] # "trim" /\ queue'[p] = queue[p]
    BY DEF PassBy
  <2>2. pc'[p] \in Flushing => Fresh(queue[p])
    BY <2>1 DEF Once, Unsent
  <2>3. pc'[p] = "trim" => pc'[p] \in Flushing
    BY DEF Flushing
  <2>. QED  BY <1>1, <2>1, <2>2, <2>3 DEF Unsent, Fresh
<1>5. pc'[p] \in Flushing => \A q \in Process \ {p} : pc[q] \notin Flushing
  BY DEF PassBy, Once
<1>6. (\A q \in Process : pc'[q] # "trim") => Fresh(outbox)'
  <2>1. (\A q \in Process : pc'[q] # "trim") => \A q \in Process : pc[q] # "trim"
    BY <1>1
  <2>. QED  BY <1>1, <2>1 DEF Once, Fresh
<1>7. events' >= events /\ relay' = relay
  BY <1>1 DEF TypeInv, BudgetsType
<1>8. pc'[p] \in Pending => pc[p] \in Pending /\ mine'[p] = mine[p]
  BY DEF PassBy
<1>. QED  BY <1>1, <1>2, <1>3, <1>4, <1>5, <1>6, <1>7, <1>8, OnceStep

LEMMA OnceEmit ==
  ASSUME TypeInv, TypeInv', Once, NEW p \in Process, Emit(p) \/ ClearOutbox(p), "double" \notin excused'
  PROVE  Once'
<1>1. /\ relay' = relay /\ pc[p] \notin Flushing /\ pc[p] # "trim"
      /\ outbox' \in {outbox, <<>>}
  BY DEF Emit, ClearOutbox, files, history, Flushing
<1>2. CASE Emit(p) /\ End(p)
  <2>1. pc[p] = "emit" /\ UNCHANGED <<outbox, relay, queued>>
    BY <1>2 DEF Emit, files, history
  <2>2. CASE events' = events
    BY <1>2, <2>1, <2>2, EndPasses, OncePass
  <2>3. CASE events' # events
    <3>1. pc'[p] = "local" /\ pc'[p] = "idle"
      BY <1>2, <2>3, EndType, GotoType DEF Emit, Steps
    <3>. QED  BY <3>1
  <2>. QED  BY <2>2, <2>3
<1>3. CASE ClearOutbox(p) \/ (Emit(p) /\ Goto(p, "local") /\ events' = events + 1
                              /\ mine' = [mine EXCEPT ![p] = events'] /\ queue' = queue)
  <2>1. /\ queue' = queue /\ \A q \in Process \ {p} : pc'[q] = pc[q] /\ mine'[q] = mine[q]
        /\ pc'[p] \in {"unsession", "local"} /\ events' >= events
        /\ pc'[p] = "local" => mine'[p] = events + 1
    <3>1. CASE ClearOutbox(p)
      BY <3>1, GotoType DEF ClearOutbox, Steps, locals, budgets, TypeInv, BudgetsType
    <3>2. CASE /\ Goto(p, "local") /\ events' = events + 1
               /\ mine' = [mine EXCEPT ![p] = events'] /\ queue' = queue
      <4>1. /\ pc'[p] = "local" /\ \A q \in Process \ {p} : pc'[q] = pc[q]
        BY <3>2, GotoType DEF Steps
      <4>2. events' >= events
        BY <3>2 DEF TypeInv, BudgetsType
      <4>3. mine'[p] = events + 1 /\ \A q \in Process \ {p} : mine'[q] = mine[q]
        BY <3>2 DEF TypeInv, LocalsType
      <4>. QED  BY <3>2, <4>1, <4>2, <4>3
    <3>. QED  BY <1>3, <3>1, <3>2
  <2>2. Known' \subseteq Known
    BY <1>1, <2>1, EmptyFacts DEF Known
  <2>3. Distinct(outbox') /\ Distinct(queue'[p])
    BY <1>1, <2>1, EmptyFacts DEF Once
  <2>4. pc'[p] \notin Flushing
    BY <2>1 DEF Flushing
  <2>5. Unsent(p)'
    BY <2>4 DEF Unsent, Flushing
  <2>6. (\A q \in Process : pc'[q] # "trim") => Fresh(outbox)'
    <3>1. (\A q \in Process : pc'[q] # "trim") => \A q \in Process : pc[q] # "trim"
      BY <1>1, <2>1
    <3>. QED  BY <1>1, <3>1 DEF Once, Fresh
  <2>7. pc'[p] \in Pending => mine'[p] = events + 1
    BY <2>1 DEF Pending
  <2>. QED  BY <1>1, <2>1, <2>2, <2>3, <2>4, <2>5, <2>6, <2>7, OnceStep
<1>. QED  BY <1>2, <1>3 DEF Emit

LEMMA OnceAppend ==
  ASSUME TypeInv, TypeInv', Once, NEW p \in Process, AppendOutbox(p)
  PROVE  Once'
<1>1. /\ pc[p] = "append" /\ relay' = relay /\ events' = events
      /\ outbox' = outbox \o <<Drafted(p)>>
  BY DEF AppendOutbox, Drafted, budgets
<1>2. /\ Drafted(p) \in Event /\ Drafted(p).number = mine[p] /\ mine[p] \in 1..MaxEvents
      /\ outbox \in Seq(Event) /\ pc[p] \in Pending /\ "append" \notin Flushing
  BY <1>1, DraftedType, QueuesType DEF Pending, Flushing
<1>3. /\ Len(outbox') = Len(outbox) + 1 /\ \A i \in 1..Len(outbox) : outbox'[i] = outbox[i]
      /\ outbox' \in Seq(Event) /\ outbox'[Len(outbox) + 1] = Drafted(p)
      /\ Numbers(outbox') = Numbers(outbox) \cup {mine[p]}
  BY <1>1, <1>2, AppendFacts
<1>4. /\ pc'[p] \in {"complete", "flush", "idle"} /\ queue'[p] \in {queue[p], <<>>}
      /\ \A q \in Process \ {p} : pc'[q] = pc[q] /\ queue'[q] = queue[q] /\ mine'[q] = mine[q]
  <2>1. CASE End(p)
    <3>1. \A q \in Process : queue'[q] = IF q = p THEN <<>> ELSE queue[q]
      BY <2>1 DEF End, TypeInv, LocalsType
    <3>. QED  BY <2>1, <3>1, EndType
  <2>2. CASE Goto(p, "complete") /\ UNCHANGED locals
    BY <2>2, GotoType DEF locals, Steps
  <2>3. CASE Goto(p, "flush") /\ UNCHANGED locals
    BY <2>3, GotoType DEF locals, Steps
  <2>. QED  BY <2>1, <2>2, <2>3 DEF AppendOutbox, Emitted
<1>5. pc'[p] \notin Flushing /\ pc'[p] \notin Pending /\ pc'[p] # "trim"
  BY <1>4 DEF Flushing, Pending
<1>6. mine[p] \notin Known
  BY <1>2 DEF Once, Drawn
<1>7. \A n \in Known' : n \in Known \/ n = mine[p]
  <2>1. \A q \in Process : \A n : n \in Numbers(queue'[q]) => n \in Numbers(queue[q])
    BY <1>4, EmptyFacts
  <2>. QED  BY <1>1, <1>3, <2>1 DEF Known
<1>8. \A i \in 1..Len(outbox) : outbox[i].number # mine[p]
  BY <1>2, <1>6, NumbersType DEF Known
<1>9. \A i \in 1..Len(outbox') : i \in 1..Len(outbox) \/ i = Len(outbox) + 1
  BY <1>2, <1>3
<1>10. /\ \A i \in 1..Len(outbox) : outbox'[i].number = outbox[i].number
       /\ outbox'[Len(outbox) + 1].number = mine[p]
  BY <1>2, <1>3
<1>11. Distinct(outbox')
  <2>1. \A i, j \in 1..Len(outbox) : i # j => outbox[i].number # outbox[j].number
    BY <1>2 DEF Once, Distinct
  <2>2. \A i, j \in 1..Len(outbox') : i # j => outbox'[i].number # outbox'[j].number
    BY <1>8, <1>9, <1>10, <2>1
  <2>. QED  BY <1>3, <2>2 DEF Distinct
<1>12. ASSUME \A q \in Process : pc'[q] # "trim" PROVE Fresh(outbox)'
  <2>1. \A q \in Process : pc[q] # "trim"
    BY <1>1, <1>4, <1>12
  <2>2. \A i \in 1..Len(outbox) : relay[outbox[i].number] = 0
    BY <1>2, <2>1 DEF Once, Fresh
  <2>3. relay[mine[p]] = 0
    BY <1>2, <1>6 DEF Known, TypeInv, HistoryType
  <2>4. \A i \in 1..Len(outbox') : relay[outbox'[i].number] = 0
    BY <1>9, <1>10, <2>2, <2>3
  <2>5. DOMAIN outbox' = 1..Len(outbox')
    BY <1>3
  <2>. QED  BY <1>1, <2>4, <2>5 DEF Fresh
<1>13. Distinct(queue'[p])
  BY <1>4, EmptyFacts DEF Once
<1>14. Unsent(p)'
  BY <1>5 DEF Unsent
<1>15. events' >= events
  BY <1>1 DEF TypeInv, BudgetsType
<1>. QED  BY <1>1, <1>2, <1>4, <1>5, <1>7, <1>11, <1>12, <1>13, <1>14, <1>15, OnceStep

LEMMA OnceRead ==
  ASSUME TypeInv, TypeInv', Once, NEW p \in Process, ReadOutbox(p), "double" \notin excused'
  PROVE  Once'
<1>1. pc[p] = "read" /\ UNCHANGED <<outbox, relay, queued, events>>
  BY DEF ReadOutbox, files, budgets
<1>2. CASE End(p)
  BY <1>1, <1>2, EndPasses, OncePass
<1>3. CASE /\ queue' = [queue EXCEPT ![p] = outbox] /\ ~Others(p, Flushing)
           /\ Goto(p, "token") /\ UNCHANGED <<cmd, cfg, ses, mine, retried>>
  <2>1. /\ pc'[p] = "token" /\ \A q \in Process \ {p} : pc'[q] = pc[q] /\ queue'[q] = queue[q]
        /\ queue'[p] = outbox
    BY <1>3, GotoType DEF TypeInv, LocalsType, Steps
  <2>2. \A q \in Process : pc[q] \notin Flushing
    BY <1>1, <1>3 DEF Others, Flushing
  <2>3. \A q \in Process : pc[q] # "trim" /\ pc'[q] # "trim"
    BY <2>1, <2>2 DEF Flushing
  <2>4. Fresh(outbox) /\ Distinct(outbox)
    BY <2>3 DEF Once
  <2>5. \A n \in Known' : n \in Known
    <3>1. \A q \in Process : Numbers(queue'[q]) \subseteq Numbers(outbox) \cup Numbers(queue[q])
      BY <2>1
    <3>. QED  BY <1>1, <3>1 DEF Known
  <2>6. Unsent(p)' /\ Fresh(outbox)'
    BY <1>1, <2>1, <2>4 DEF Unsent, Fresh
  <2>7. pc'[p] \notin Pending /\ events' >= events /\ mine' = mine
    BY <1>1, <1>3, <2>1 DEF Pending, TypeInv, BudgetsType
  <2>. QED  BY <1>1, <2>1, <2>2, <2>4, <2>5, <2>6, <2>7, OnceStep
<1>. QED  BY <1>2, <1>3 DEF ReadOutbox, Excused

LEMMA OnceTrim ==
  ASSUME TypeInv, TypeInv', Once, NEW p \in Process, TrimOutbox(p)
  PROVE  Once'
<1>1. pc[p] = "trim" /\ UNCHANGED <<relay, queued, events>> /\ pc[p] \in Flushing
  BY DEF TrimOutbox, history, budgets, Flushing
<1>2. PICK n \in BatchLengths(queue[p]) : outbox' = Remaining(p, n)
  BY DEF TrimOutbox
<1>3. \A q \in Process \ {p} : pc[q] \notin Flushing
  BY <1>1 DEF Once
<1>4. /\ pc'[p] \in {"idle", "token"} /\ queue'[p] \in {<<>>, outbox'}
      /\ pc'[p] = "token" => queue'[p] = outbox'
      /\ \A q \in Process \ {p} : pc'[q] = pc[q] /\ queue'[q] = queue[q] /\ mine'[q] = mine[q]
  <2>1. CASE End(p)
    <3>1. \A q \in Process : queue'[q] = IF q = p THEN <<>> ELSE queue[q]
      BY <2>1 DEF End, TypeInv, LocalsType
    <3>. QED  BY <2>1, <3>1, EndType
  <2>2. CASE /\ queue' = [queue EXCEPT ![p] = outbox'] /\ Goto(p, "token")
             /\ UNCHANGED <<cmd, cfg, ses, mine>>
    <3>1. \A q \in Process : queue'[q] = IF q = p THEN outbox' ELSE queue[q]
      BY <2>2 DEF TypeInv, LocalsType
    <3>. QED  BY <2>2, <3>1, GotoType DEF Steps
  <2>. QED  BY <2>1, <2>2 DEF TrimOutbox
<1>5. Fresh(Remaining(p, n)) /\ Distinct(queue[p])
  BY <1>1, <1>2 DEF Once, Unsent
<1>6. /\ Distinct(outbox') /\ Numbers(outbox') \subseteq Numbers(queue[p])
      /\ Fresh(outbox)'
  <2>1. Distinct(Remaining(p, n)) /\ Numbers(Remaining(p, n)) \subseteq Numbers(queue[p])
    BY <1>2, <1>5, PartsNumbers
  <2>2. \A i \in DOMAIN Remaining(p, n) : relay[Remaining(p, n)[i].number] = 0
    BY <1>5 DEF Fresh
  <2>3. Fresh(outbox)'
    BY <1>1, <1>2, <2>2 DEF Fresh
  <2>. QED  BY <1>2, <2>1, <2>3
<1>7. \A m \in Known' : m \in Known
  <2>1. \A q \in Process : \E r \in Process : Numbers(queue'[q]) \subseteq Numbers(queue[r])
    BY <1>4, <1>6, EmptyFacts
  <2>. QED  BY <1>1, <1>6, <2>1 DEF Known
<1>8. Distinct(queue'[p])
  BY <1>4, <1>6, EmptyFacts
<1>9. Unsent(p)'
  <2>1. pc'[p] # "trim" /\ (pc'[p] \in Flushing => queue'[p] = outbox')
    BY <1>4 DEF Flushing
  <2>. QED  BY <1>6, <2>1 DEF Unsent, Fresh
<1>10. pc'[p] \notin Pending /\ events' >= events
  BY <1>1, <1>4 DEF Pending, TypeInv, BudgetsType
<1>. QED  BY <1>1, <1>3, <1>4, <1>6, <1>7, <1>8, <1>9, <1>10, OnceStep

\* The batch is sent while nobody else flushes, and none of it was sent before.
LEMMA OncePost ==
  ASSUME TypeInv, TypeInv', Once, NEW p \in Process, Post(p)
  PROVE  Once'
<1>1. /\ pc[p] = "post" /\ UNCHANGED <<outbox, queue, mine, events>> /\ pc'[p] = "trim"
      /\ \A q \in Process \ {p} : pc'[q] = pc[q]
  BY GotoType DEF Post, files, locals, budgets, Steps
<1>2. PICK n \in BatchLengths(queue[p]) : Processed(p, n)
  BY DEF Post
<1>3. Fresh(queue[p]) /\ Distinct(queue[p]) /\ \A q \in Process \ {p} : pc[q] \notin Flushing
  BY <1>1 DEF Once, Unsent, Flushing
<1>4. /\ Numbers(queue[p]) = Numbers(Batch(p, n)) \cup Numbers(Remaining(p, n))
      /\ Numbers(Batch(p, n)) \cap Numbers(Remaining(p, n)) = {}
  BY <1>2, <1>3, PartsNumbers
<1>5. \A m \in 1..MaxEvents : relay'[m] = IF m \in Numbers(Batch(p, n)) THEN relay[m] + 1 ELSE relay[m]
  BY <1>2, ProcessedCounts
<1>6. \A m \in Numbers(queue[p]) : relay[m] = 0
  BY <1>3 DEF Fresh, Numbers
<1>7. \A m \in 1..MaxEvents : relay'[m] <= 1
  <2>1. \A m \in 1..MaxEvents : m \in Numbers(Batch(p, n)) => relay[m] = 0
    BY <1>4, <1>6
  <2>. QED  BY <1>5, <2>1 DEF Once
<1>8. \A m \in Known' : m \in Known
  <2>1. \A m \in 1..MaxEvents : relay'[m] > 0 => relay[m] > 0 \/ m \in Numbers(queue[p])
    BY <1>4, <1>5
  <2>. QED  BY <1>1, <2>1 DEF Known
<1>9. Numbers(queue[p]) \subseteq 1..MaxEvents
  <2>1. Numbers(queue[p]) \subseteq 1..events
    BY DEF Once, Known
  <2>. QED  BY <2>1, Constants DEF TypeInv, BudgetsType
<1>10. Unsent(p)'
  <2>1. ASSUME NEW k \in BatchLengths(queue[p]) PROVE Fresh(Remaining(p, k))'
    <3>1. k = n /\ Remaining(p, k)' = Remaining(p, n)
      BY <1>1, <1>2, <2>1, OneBatch, QueuesType DEF Remaining
    <3>2. \A m \in Numbers(Remaining(p, n)) : relay[m] = 0 /\ m \notin Numbers(Batch(p, n))
      BY <1>4, <1>6
    <3>3. \A m \in Numbers(Remaining(p, n)) : m \in 1..MaxEvents
      BY <1>4, <1>9
    <3>4. \A m \in Numbers(Remaining(p, n)) : relay'[m] = 0
      BY <1>5, <3>2, <3>3
    <3>5. \A m \in Numbers(Remaining(p, k)') : relay'[m] = 0
      BY <3>1, <3>4
    <3>. QED  BY <3>5 DEF Fresh, Numbers
  <2>. QED  BY <1>1, <2>1 DEF Unsent
<1>11. \A q \in Process : Distinct(queue'[q]) /\ Distinct(outbox')
  BY <1>1 DEF Once
<1>12. \A q, r \in Process : pc'[q] \in Flushing /\ pc'[r] \in Flushing => q = r
  BY <1>1, <1>3
<1>13. ASSUME NEW q \in Process PROVE Drawn(q)'
  <2>1. \A r \in Process : pc'[r] \in Pending => pc[r] \in Pending
    BY <1>1 DEF Pending
  <2>2. Drawn(q)
    BY DEF Once
  <2>. QED  BY <1>1, <1>8, <2>1, <2>2 DEF Drawn
<1>14. ASSUME NEW q \in Process PROVE Unsent(q)'
  <2>1. CASE q # p
    BY <1>1, <1>3, <2>1 DEF Unsent, Flushing
  <2>. QED  BY <1>10, <2>1
<1>15. (\A q \in Process : pc'[q] # "trim") => Fresh(outbox)'
  BY <1>1
<1>16. Known' \subseteq 1..events'
  BY <1>1, <1>8 DEF Once
<1>. QED  BY <1>7, <1>11, <1>12, <1>13, <1>14, <1>15, <1>16 DEF Once

LEMMA LossInit == Init => LossInv /\ DoubleInv
<1> SUFFICES ASSUME Init PROVE LossInv /\ DoubleInv
  OBVIOUS
<1>1. /\ outbox = <<>> /\ queued = {} /\ relay = [n \in 1..MaxEvents |-> 0] /\ events = 0
      /\ \A p \in Process : pc[p] = "idle" /\ queue[p] = <<>>
  BY DEF Init
<1>2. "idle" \notin Flushing /\ "idle" \notin Pending
  BY DEF Flushing, Pending
<1>3. LossInv
  BY <1>1, <1>2 DEF LossInv, Kept
<1>4. Known \subseteq 1..events
  BY <1>1, EmptyFacts DEF Known
<1>5. \A n \in 1..MaxEvents : relay[n] <= 1
  BY <1>1
<1>6. \A p \in Process : Unsent(p) /\ Drawn(p)
  BY <1>1, <1>2 DEF Unsent, Drawn
<1>. QED  BY <1>1, <1>2, <1>3, <1>4, <1>5, <1>6, EmptyFacts DEF DoubleInv, Once

LEMMA LossNext == TypeInv /\ TypeInv' /\ LossInv /\ DoubleInv /\ [Next]_vars => LossInv' /\ DoubleInv'
<1> SUFFICES ASSUME TypeInv, TypeInv', LossInv, DoubleInv, [Next]_vars
             PROVE  LossInv' /\ DoubleInv'
  OBVIOUS
<1>1. excused \subseteq excused'
  BY ExcusedGrows
<1>2. "double" \notin excused' => Once
  BY <1>1 DEF DoubleInv
<1>3. ASSUME NEW p \in Process, PassBy(p) PROVE LossInv' /\ DoubleInv'
  BY <1>1, <1>2, <1>3, LossPass, OncePass DEF DoubleInv
<1>4. ASSUME NEW p \in Process, Step(p) PROVE LossInv' /\ DoubleInv'
  <2>1. CASE Post(p) \/ LoseAnswer(p)
    <3>1. LoseAnswer(p) => "double" \in excused'
      BY DEF LoseAnswer, Excused
    <3>. QED  BY <1>1, <1>2, <2>1, <3>1, LossPost, OncePost DEF DoubleInv
  <2>2. CASE Emit(p) \/ ClearOutbox(p) \/ AppendOutbox(p) \/ ReadOutbox(p) \/ TrimOutbox(p)
    BY <1>1, <1>2, <2>2, LossOutbox, OnceEmit, OnceAppend, OnceRead, OnceTrim DEF DoubleInv
  <2>. QED  BY <1>3, <1>4, <2>1, <2>2, Passing DEF Step
<1>5. ASSUME NEW p \in Process, Kill(p) \/ \E c \in Commands : Run(p, c)
      PROVE  LossInv' /\ DoubleInv'
  BY <1>3, <1>5, Passing
<1>6. CASE SuppressionEnds \/ UNCHANGED vars
  <2>1. UNCHANGED <<outbox, pc, queue, mine, relay, queued, excused, events>>
    BY <1>6 DEF SuppressionEnds, vars, files, locals, history, budgets
  <2>2. LossInv'
    BY <2>1 DEF LossInv, Kept, Remaining
  <2>3. \A q \in Process : Unsent(q) <=> Unsent(q)'
    BY <2>1 DEF Unsent, Fresh, Remaining
  <2>4. Known' = Known /\ (Fresh(outbox) <=> Fresh(outbox)') /\ \A q \in Process : Drawn(q) <=> Drawn(q)'
    BY <2>1 DEF Known, Fresh, Drawn
  <2>5. Once => Once'
    BY <2>1, <2>3, <2>4 DEF Once
  <2>. QED  BY <2>1, <2>2, <2>5 DEF DoubleInv
<1>. QED  BY <1>4, <1>5, <1>6 DEF Next

\* Whatever fails, no event is lost unless it was appended while another process
\* had the outbox in hand, and none is sent twice unless an answer was lost or a
\* process was killed after it posted, or two processes flushed at once.
THEOREM EventsOnce == Spec => []EachOnce
<1>1. Spec => [](LossInv /\ DoubleInv)
  BY TypeInvHolds, LossInit, LossNext, PTL DEF Spec
<1>2. TypeInv /\ LossInv /\ DoubleInv => EachOnce
  <2> SUFFICES ASSUME TypeInv, LossInv, DoubleInv PROVE EachOnce
    OBVIOUS
  <2>1. DOMAIN relay = 1..MaxEvents /\ queued \subseteq 1..MaxEvents
    BY DEF TypeInv, HistoryType
  <2>2. "loss" \notin excused =>
          queued \subseteq Numbers(outbox) \cup {n \in DOMAIN relay : relay[n] > 0}
    BY <2>1 DEF LossInv, Kept
  <2>3. "double" \notin excused => \A n \in DOMAIN relay : relay[n] <= 1
    BY <2>1 DEF DoubleInv, Once
  <2>. QED  BY <2>2, <2>3 DEF EachOnce
<1>. QED  BY <1>1, <1>2, TypeInvHolds, PTL

(* Numbers of the events of a session *)

\* A mark is a session and a number in it.
Mark(e) == <<e.session, e.seq>>
Marks(seq) == {Mark(seq[i]) : i \in DOMAIN seq}
Apart(seq) == \A i, j \in DOMAIN seq : i # j => Mark(seq[i]) # Mark(seq[j])

\* The mark of the event a process is about to append.
MyMark(p) == <<ses[p].id, ses[p].seq>>
Pool == Marks(outbox) \cup UNION {Marks(queue[p]) : p \in Process}
Marked == Pool \cup {MyMark(p) : p \in {q \in Process : pc[q] = "append"}}

\* The number in a session's record is the highest that was given in it.
Highest(s) == s.id # 0 => \A m \in Marked : m[1] = s.id => m[2] <= s.seq

\* Steps at which a process is to save the session it has in hand.
Saving == {"number", "open", "reregister", "reopen"}

Unique ==
  /\ Apart(outbox) /\ \A p \in Process : Apart(queue[p])
  /\ \A p, q \in Process : pc[p] \in HoldsSession /\ pc[q] \in HoldsSession => p = q
  /\ \A p \in Process : pc[p] = "append" =>
       /\ MyMark(p) \notin Pool
       /\ \A q \in Process : pc[q] = "append" /\ MyMark(q) = MyMark(p) => q = p
  /\ Highest(session) /\ \A p \in Process : pc[p] \in Saving => Highest(ses[p])
  /\ \A p \in Process : pc[p] = "create" => \A m \in Marked : m[1] # ses[p].id
  /\ session.id <= sessions /\ \A p \in Process : ses[p].id <= sessions
  /\ \A p \in Process : pc[p] \in {"create", "number", "append"} => ses[p].id # 0
  /\ \A m \in Marked : m[1] \in 1..sessions

UniqueInv == "number" \notin excused => Unique

\* Whether two records are of one session, at one number.
Like(s, t) == s.id = t.id /\ s.seq = t.seq

\* What a step that numbers no event may do to the sessions.
SessionPass(p) ==
  /\ \A q \in Process \ {p} : pc'[q] = pc[q] /\ ses'[q] = ses[q]
  /\ sessions' \in {sessions, sessions + 1}
  /\ pc'[p] # "append"
  /\ \/ session'.id = 0 \/ Like(session', session)
     \/ pc[p] \in Saving /\ Like(session', ses[p])
     \/ pc[p] = "create" /\ session'.id = ses[p].id
  /\ pc'[p] \in HoldsSession =>
       pc[p] \in HoldsSession \/ \A q \in Process \ {p} : pc[q] \notin HoldsSession
  /\ pc'[p] \in Saving => \/ pc[p] \in Saving /\ Like(ses'[p], ses[p])
                          \/ Like(ses'[p], session)
                          \/ pc[p] = "create" /\ ses'[p].id = ses[p].id
  /\ pc'[p] = "create" => ses'[p].id = sessions + 1 /\ sessions' = sessions + 1
  /\ ses'[p].id \in {0, ses[p].id, session.id, sessions'}
  /\ pc'[p] \in {"create", "number"} => ses'[p].id # 0

\* ... and to the outbox: what it adds is the event the process was to append.
OutboxPass(p) ==
  /\ Apart(outbox') /\ Apart(queue'[p])
  /\ \A q \in Process \ {p} : queue'[q] = queue[q]
  /\ \A m \in Pool' : m \in Pool \/ (pc[p] = "append" /\ m = MyMark(p))

LEMMA EmptyMarks == Marks(<<>>) = {} /\ Apart(<<>>)
  BY DEF Marks, Apart

LEMMA MarksType ==
  ASSUME TypeInv
  PROVE  \A m \in Marked : m[1] \in Nat /\ m[2] \in Nat
<1>1. ASSUME NEW seq \in Seq(Event) PROVE \A m \in Marks(seq) : m[1] \in Nat /\ m[2] \in Nat
  <2>1. \A i \in DOMAIN seq : seq[i].session \in Nat /\ seq[i].seq \in Nat
    <3>1. \A i \in DOMAIN seq : seq[i] \in Event
      BY NumbersType
    <3>. QED  BY <3>1 DEF Event
  <2>2. ASSUME NEW m \in Marks(seq) PROVE m[1] \in Nat /\ m[2] \in Nat
    <3>1. PICK i \in DOMAIN seq : m = <<seq[i].session, seq[i].seq>>
      BY DEF Marks, Mark
    <3>. QED  BY <2>1, <3>1
  <2>. QED  BY <2>2
<1>2. \A p \in Process : MyMark(p)[1] \in Nat /\ MyMark(p)[2] \in Nat
  BY DEF MyMark, TypeInv, LocalsType, Session
<1>3. outbox \in Seq(Event) /\ \A p \in Process : queue[p] \in Seq(Event)
  BY QueuesType DEF TypeInv, FilesType
<1>. QED  BY <1>1, <1>2, <1>3 DEF Marked, Pool

LEMMA SessionsType ==
  ASSUME TypeInv
  PROVE  /\ session.id \in Nat /\ session.seq \in Nat /\ sessions \in Nat
         /\ \A p \in Process : ses[p].id \in Nat /\ ses[p].seq \in Nat
  BY DEF TypeInv, FilesType, LocalsType, BudgetsType, Session

LEMMA UniqueStep ==
  ASSUME TypeInv, TypeInv', Unique, NEW p \in Process, SessionPass(p), OutboxPass(p)
  PROVE  Unique'
<1>1. /\ \A q \in Process \ {p} : pc'[q] = pc[q] /\ ses'[q] = ses[q] /\ queue'[q] = queue[q]
      /\ pc'[p] # "append"
  BY DEF SessionPass, OutboxPass
<1>2. \A q \in Process : pc'[q] = "append" => q # p /\ pc[q] = "append" /\ MyMark(q)' = MyMark(q)
  BY <1>1 DEF MyMark
<1>3. \A m \in Marked' : m \in Marked
  <2>1. \A m \in Pool' : m \in Marked
    BY DEF OutboxPass, Marked
  <2>. QED  BY <1>2, <2>1 DEF Marked
<1>4. /\ session.id \in Nat /\ sessions \in Nat /\ sessions' \in Nat /\ session'.id \in Nat
      /\ \A q \in Process : ses[q].id \in Nat /\ ses'[q].id \in Nat
  BY SessionsType DEF TypeInv, FilesType, LocalsType, BudgetsType, Session
<1>5. Apart(outbox') /\ \A q \in Process : Apart(queue'[q])
  BY <1>1 DEF OutboxPass, Unique
<1>6. \A q, r \in Process : pc'[q] \in HoldsSession /\ pc'[r] \in HoldsSession => q = r
  BY <1>1 DEF SessionPass, Unique
<1>7. ASSUME NEW q \in Process, pc'[q] = "append"
      PROVE  /\ MyMark(q)' \notin Pool'
             /\ \A r \in Process : pc'[r] = "append" /\ MyMark(r)' = MyMark(q)' => r = q
  <2>1. q # p /\ pc[q] = "append" /\ MyMark(q)' = MyMark(q)
    BY <1>2, <1>7
  <2>2. /\ MyMark(q) \notin Pool
        /\ \A r \in Process : pc[r] = "append" /\ MyMark(r) = MyMark(q) => r = q
    BY <2>1 DEF Unique
  <2>3. \A m \in Pool' : m \in Pool \/ (pc[p] = "append" /\ m = MyMark(p))
    BY DEF OutboxPass
  <2>. QED  BY <1>2, <2>1, <2>2, <2>3
<1>8. /\ Highest(session)
      /\ pc[p] \in Saving => Highest(ses[p])
      /\ pc[p] = "create" => \A m \in Marked : m[1] # ses[p].id
  BY DEF Unique
<1>9. Highest(session)'
  <2>1. session'.id # 0 => \A m \in Marked' : m[1] = session'.id => m[2] <= session'.seq
    <3>1. CASE Like(session', session)
      BY <1>3, <1>8, <3>1 DEF Highest, Like
    <3>2. CASE pc[p] \in Saving /\ Like(session', ses[p])
      BY <1>3, <1>8, <3>2 DEF Highest, Like
    <3>3. CASE pc[p] = "create" /\ session'.id = ses[p].id
      BY <1>3, <1>8, <3>3
    <3>. QED  BY <3>1, <3>2, <3>3 DEF SessionPass
  <2>. QED  BY <2>1 DEF Highest
<1>10. ASSUME NEW q \in Process, pc'[q] \in Saving PROVE Highest(ses[q])'
  <2>1. CASE q = p
    <3>1. ses'[p].id # 0 => \A m \in Marked' : m[1] = ses'[p].id => m[2] <= ses'[p].seq
      <4>1. CASE Like(ses'[p], session)
        BY <1>3, <1>8, <4>1 DEF Highest, Like
      <4>2. CASE pc[p] \in Saving /\ Like(ses'[p], ses[p])
        BY <1>3, <1>8, <4>2 DEF Highest, Like
      <4>3. CASE pc[p] = "create" /\ ses'[p].id = ses[p].id
        BY <1>3, <1>8, <4>3
      <4>. QED  BY <1>10, <2>1, <4>1, <4>2, <4>3 DEF SessionPass
    <3>. QED  BY <2>1, <3>1 DEF Highest
  <2>2. CASE q # p
    BY <1>1, <1>3, <1>10, <2>2 DEF Unique, Highest
  <2>. QED  BY <2>1, <2>2
<1>11. ASSUME NEW q \in Process, pc'[q] = "create", NEW m \in Marked' PROVE m[1] # ses'[q].id
  <2>1. m \in Marked /\ m[1] \in 1..sessions
    BY <1>3 DEF Unique
  <2>2. CASE q = p
    BY <1>4, <1>11, <2>1, <2>2 DEF SessionPass
  <2>3. CASE q # p
    BY <1>1, <1>11, <2>1, <2>3 DEF Unique
  <2>. QED  BY <2>2, <2>3
<1>12. session'.id <= sessions' /\ \A q \in Process : ses'[q].id <= sessions'
  <2>1. session.id <= sessions /\ \A q \in Process : ses[q].id <= sessions
    BY DEF Unique
  <2>2. sessions <= sessions'
    BY <1>4 DEF SessionPass
  <2>3. session'.id = 0 \/ session'.id = session.id \/ session'.id = ses[p].id
    BY DEF SessionPass, Like
  <2>4. ses'[p].id \in {0, ses[p].id, session.id, sessions'}
    BY DEF SessionPass
  <2>5. session'.id <= sessions'
    BY <1>4, <2>1, <2>2, <2>3
  <2>6. ses'[p].id <= sessions'
    BY <1>4, <2>1, <2>2, <2>4
  <2>7. \A q \in Process \ {p} : ses'[q].id <= sessions'
    BY <1>1, <1>4, <2>1, <2>2
  <2>. QED  BY <2>5, <2>6, <2>7
<1>13. \A q \in Process : pc'[q] \in {"create", "number", "append"} => ses'[q].id # 0
  BY <1>1 DEF SessionPass, Unique
<1>14. \A m \in Marked' : m[1] \in 1..sessions'
  <2>1. \A m \in Marked' : m[1] \in 1..sessions
    BY <1>3 DEF Unique
  <2>. QED  BY <1>4, <2>1 DEF SessionPass
<1>. QED  BY <1>5, <1>6, <1>7, <1>9, <1>10, <1>11, <1>12, <1>13, <1>14 DEF Unique

\* The next number of a session is higher than every number given in it.
LEMMA UniqueNumber ==
  ASSUME TypeInv, TypeInv', Unique, NEW p \in Process, NextSequence(p)
  PROVE  Unique'
<1>1. /\ pc[p] = "number" /\ UNCHANGED <<outbox, queue, sessions>>
      /\ pc'[p] = "append" /\ \A q \in Process \ {p} : pc'[q] = pc[q]
  BY GotoType DEF NextSequence, budgets, Steps
<1>2. /\ \A q \in Process \ {p} : ses'[q] = ses[q]
      /\ ses'[p].id = ses[p].id /\ ses'[p].seq = ses[p].seq + 1
      /\ session' = ses'[p]
  BY DEF NextSequence, Counted, TypeInv, LocalsType, Session
<1>3. /\ ses[p].id \in Nat /\ ses[p].seq \in Nat /\ sessions \in Nat
      /\ \A m \in Marked : m[1] \in Nat /\ m[2] \in Nat
  BY SessionsType, MarksType
<1>4. /\ Highest(ses[p]) /\ ses[p].id # 0 /\ ses[p].id <= sessions
      /\ \A q \in Process \ {p} : pc[q] \notin HoldsSession
  BY <1>1 DEF Unique, Saving, HoldsSession
<1>5. MyMark(p)' = <<ses[p].id, ses[p].seq + 1>>
  BY <1>2 DEF MyMark
<1>6. <<ses[p].id, ses[p].seq + 1>> \notin Marked
  <2>1. ASSUME <<ses[p].id, ses[p].seq + 1>> \in Marked PROVE FALSE
    <3>1. ses[p].seq + 1 <= ses[p].seq
      BY <1>4, <2>1 DEF Highest
    <3>. QED  BY <1>3, <3>1
  <2>. QED  BY <2>1
<1>7. Pool' = Pool /\ Pool \subseteq Marked
  BY <1>1 DEF Pool, Marked
<1>8. \A q \in Process \ {p} : MyMark(q)' = MyMark(q)
  BY <1>2 DEF MyMark
<1>9. \A m \in Marked' : m \in Marked \/ m = <<ses[p].id, ses[p].seq + 1>>
  BY <1>1, <1>5, <1>7, <1>8 DEF Marked
<1>10. ASSUME NEW q \in Process, pc'[q] = "append"
      PROVE  /\ MyMark(q)' \notin Pool'
             /\ \A r \in Process : pc'[r] = "append" /\ MyMark(r)' = MyMark(q)' => r = q
  <2>1. \A r \in Process : pc[r] = "append" => MyMark(r) \in Marked /\ MyMark(r) # <<ses[p].id, ses[p].seq + 1>>
    BY <1>6 DEF Marked
  <2>2. CASE q = p
    BY <1>1, <1>5, <1>6, <1>7, <1>8, <2>1, <2>2
  <2>3. CASE q # p
    <3>1. /\ pc[q] = "append" /\ MyMark(q) \notin Pool
          /\ \A r \in Process : pc[r] = "append" /\ MyMark(r) = MyMark(q) => r = q
      BY <1>1, <1>10, <2>3 DEF Unique
    <3>. QED  BY <1>1, <1>5, <1>7, <1>8, <2>1, <2>3, <3>1
  <2>. QED  BY <2>2, <2>3
<1>11. Highest(session)'
  <2>1. ASSUME NEW m \in Marked', m[1] = ses[p].id PROVE m[2] <= ses[p].seq + 1
    <3>1. CASE m \in Marked
      <4>1. m[2] <= ses[p].seq /\ m[2] \in Nat
        BY <1>3, <1>4, <2>1, <3>1 DEF Highest
      <4>. QED  BY <1>3, <4>1
    <3>2. CASE m = <<ses[p].id, ses[p].seq + 1>>
      BY <1>3, <3>2
    <3>. QED  BY <1>9, <3>1, <3>2
  <2>. QED  BY <1>2, <2>1 DEF Highest
<1>12. \A q \in Process : pc'[q] \notin Saving /\ pc'[q] # "create" /\ (pc'[q] \in HoldsSession => FALSE)
  BY <1>1, <1>4 DEF Saving, HoldsSession
<1>13. session'.id <= sessions' /\ \A q \in Process : ses'[q].id <= sessions'
  BY <1>1, <1>2, <1>4 DEF Unique
<1>14. \A q \in Process : pc'[q] \in {"create", "number", "append"} => ses'[q].id # 0
  BY <1>1, <1>2, <1>4 DEF Unique
<1>15. \A m \in Marked' : m[1] \in 1..sessions'
  <2>1. ses[p].id \in 1..sessions
    BY <1>3, <1>4
  <2>. QED  BY <1>1, <1>9, <2>1 DEF Unique
<1>16. Apart(outbox') /\ \A q \in Process : Apart(queue'[q])
  BY <1>1 DEF Unique
<1>. QED  BY <1>10, <1>11, <1>12, <1>13, <1>14, <1>15, <1>16 DEF Unique

LEMMA OutboxMoves ==
  ASSUME Unique, NEW p \in Process, \A q \in Process \ {p} : queue'[q] = queue[q],
         Apart(outbox'),
         \A m \in Marks(outbox') : m \in Pool \/ (pc[p] = "append" /\ m = MyMark(p)),
         queue'[p] \in {queue[p], <<>>, outbox, outbox'}
  PROVE  OutboxPass(p)
<1>1. Apart(queue'[p])
  BY EmptyMarks DEF Unique
<1>2. \A q \in Process : \A m \in Marks(queue'[q]) :
        m \in Pool \/ (pc[p] = "append" /\ m = MyMark(p))
  BY EmptyMarks DEF Pool
<1>3. \A m \in Pool' : m \in Pool \/ (pc[p] = "append" /\ m = MyMark(p))
  BY <1>2 DEF Pool
<1>. QED  BY <1>1, <1>3 DEF OutboxPass

LEMMA EndQueues ==
  ASSUME TypeInv, NEW p \in Process, End(p)
  PROVE  queue'[p] = <<>> /\ \A q \in Process \ {p} : queue'[q] = queue[q]
  BY DEF End, TypeInv, LocalsType

LEMMA OutboxPasses ==
  ASSUME TypeInv, Unique, NEW p \in Process,
         \/ PassBy(p) \/ Emit(p) \/ ClearOutbox(p) \/ AppendOutbox(p) \/ ReadOutbox(p)
         \/ Post(p) \/ LoseAnswer(p) \/ TrimOutbox(p)
  PROVE  OutboxPass(p)
<1>1. Apart(outbox) /\ \A m \in Marks(outbox) : m \in Pool
  BY DEF Unique, Pool
<1>2. CASE PassBy(p)
  BY <1>1, <1>2, OutboxMoves DEF PassBy
<1>3. CASE Emit(p) \/ Post(p) \/ LoseAnswer(p) \/ ReadOutbox(p)
  <2>1. outbox' = outbox
    BY <1>3 DEF Emit, Post, LoseAnswer, ReadOutbox, files
  <2>2. CASE End(p)
    BY <1>1, <2>1, <2>2, EndQueues, OutboxMoves
  <2>3. CASE queue' = queue \/ queue' = [queue EXCEPT ![p] = outbox]
    <3>1. queue'[p] \in {queue[p], outbox} /\ \A q \in Process \ {p} : queue'[q] = queue[q]
      BY <2>3 DEF TypeInv, LocalsType
    <3>. QED  BY <1>1, <2>1, <3>1, OutboxMoves
  <2>. QED  BY <1>3, <2>2, <2>3 DEF Emit, Post, LoseAnswer, ReadOutbox, locals
<1>4. CASE ClearOutbox(p)
  BY <1>4, EmptyMarks, OutboxMoves DEF ClearOutbox, locals
<1>5. CASE AppendOutbox(p)
  <2>1. pc[p] = "append" /\ outbox' = outbox \o <<Drafted(p)>>
    BY <1>5 DEF AppendOutbox, Drafted
  <2>2. Drafted(p) \in Event /\ Mark(Drafted(p)) = MyMark(p) /\ outbox \in Seq(Event)
    BY <2>1, DraftedType, QueuesType DEF Mark, MyMark
  <2>3. /\ Len(outbox') = Len(outbox) + 1 /\ \A i \in 1..Len(outbox) : outbox'[i] = outbox[i]
        /\ outbox' \in Seq(Event) /\ outbox'[Len(outbox) + 1] = Drafted(p)
    BY <2>1, <2>2, AppendFacts
  <2>4. /\ \A i \in 1..Len(outbox') : i \in 1..Len(outbox) \/ i = Len(outbox) + 1
        /\ DOMAIN outbox' = 1..Len(outbox') /\ DOMAIN outbox = 1..Len(outbox)
    BY <2>2, <2>3
  <2>5. /\ \A i \in 1..Len(outbox) : Mark(outbox'[i]) = Mark(outbox[i])
        /\ Mark(outbox'[Len(outbox) + 1]) = MyMark(p)
    BY <2>2, <2>3
  <2>6. MyMark(p) \notin Pool
    BY <2>1 DEF Unique
  <2>7. \A i \in 1..Len(outbox) : Mark(outbox[i]) \in Pool
    BY <1>1, <2>4 DEF Marks
  <2>8. Apart(outbox')
    <3>1. \A i, j \in 1..Len(outbox) : i # j => Mark(outbox[i]) # Mark(outbox[j])
      BY <1>1, <2>4 DEF Apart
    <3>2. \A i, j \in 1..Len(outbox') : i # j => Mark(outbox'[i]) # Mark(outbox'[j])
      BY <2>4, <2>5, <2>6, <2>7, <3>1
    <3>. QED  BY <2>4, <3>2 DEF Apart
  <2>9. \A m \in Marks(outbox') : m \in Pool \/ (pc[p] = "append" /\ m = MyMark(p))
    BY <2>1, <2>4, <2>5, <2>7 DEF Marks
  <2>10. queue'[p] \in {queue[p], <<>>} /\ \A q \in Process \ {p} : queue'[q] = queue[q]
    BY <1>5, EndQueues DEF AppendOutbox, Emitted, locals
  <2>. QED  BY <2>8, <2>9, <2>10, OutboxMoves
<1>6. CASE TrimOutbox(p)
  <2>1. PICK n \in BatchLengths(queue[p]) : outbox' = Remaining(p, n)
    BY <1>6 DEF TrimOutbox
  <2> DEFINE q == queue[p]  r == Remaining(p, n)
  <2>2. /\ r \in Seq(Event) /\ Len(r) = Len(q) - n /\ q \in Seq(Event)
        /\ n \in 1..Len(q) /\ Len(q) \in Nat
        /\ \A i \in 1..(Len(q) - n) : r[i] = q[n + i]
    BY PartsType, QueuesType DEF BatchLengths
  <2>3. Apart(q) /\ \A m \in Marks(q) : m \in Pool
    BY DEF Unique, Pool
  <2> HIDE DEF q, r
  <2>4. /\ DOMAIN q = 1..Len(q) /\ DOMAIN r = 1..(Len(q) - n)
        /\ \A i \in 1..(Len(q) - n) : n + i \in 1..Len(q)
    BY <2>2
  <2>5. \A i \in DOMAIN r : n + i \in DOMAIN q /\ Mark(r[i]) = Mark(q[n + i])
    BY <2>2, <2>4
  <2>6. Apart(r)
    <3> SUFFICES ASSUME NEW i \in DOMAIN r, NEW j \in DOMAIN r, i # j
                 PROVE  Mark(r[i]) # Mark(r[j])
      BY DEF Apart
    <3>1. i \in Nat /\ j \in Nat /\ n \in Nat
      BY <2>2, <2>4
    <3>2. n + i # n + j
      BY <3>1
    <3>. QED  BY <2>3, <2>5, <3>2 DEF Apart
  <2>7. \A m \in Marks(r) : m \in Pool
    BY <2>3, <2>5 DEF Marks
  <2>8. queue'[p] \in {<<>>, outbox'} /\ \A s \in Process \ {p} : queue'[s] = queue[s]
    <3>1. CASE End(p)
      BY <3>1, EndQueues
    <3>2. CASE queue' = [queue EXCEPT ![p] = outbox']
      BY <3>2 DEF TypeInv, LocalsType
    <3>. QED  BY <1>6, <3>1, <3>2 DEF TrimOutbox
  <2>9. outbox' = r
    BY <2>1 DEF r
  <2>. QED  BY <2>6, <2>7, <2>8, <2>9, OutboxMoves
<1>. QED  BY <1>2, <1>3, <1>4, <1>5, <1>6

\* A process that ends has no session in hand.
LEMMA EndLike ==
  ASSUME TypeInv, NEW p \in Process, End(p), session'.id = 0 \/ Like(session', session),
         sessions' = sessions
  PROVE  SessionPass(p)
<1>1. pc'[p] = "idle" /\ \A q \in Process \ {p} : pc'[q] = pc[q]
  BY EndType
<1>2. ses'[p].id = 0 /\ \A q \in Process \ {p} : ses'[q] = ses[q]
  BY DEF End, TypeInv, LocalsType, NoSession
<1>. QED  BY <1>1, <1>2 DEF SessionPass, HoldsSession, Saving

LEMMA EndSession ==
  ASSUME TypeInv, NEW p \in Process, End(p), session' \in {session, NoSession},
         sessions' = sessions
  PROVE  SessionPass(p)
<1>1. session'.id = 0 \/ Like(session', session)
  BY DEF NoSession, Like
<1>. QED  BY <1>1, EndLike

\* A process that goes on with the session it has, and reads or drops the file.
LEMMA GotoSession ==
  ASSUME TypeInv, NEW p \in Process, NEW step \in Steps \ (HoldsSession \cup {"append"}),
         Goto(p, step), ses' = ses, sessions' = sessions, session' \in {session, NoSession}
  PROVE  SessionPass(p)
<1>1. pc'[p] = step /\ \A q \in Process \ {p} : pc'[q] = pc[q]
  BY GotoType
<1>2. session'.id = 0 \/ Like(session', session)
  BY DEF NoSession, Like
<1>. QED  BY <1>1, <1>2 DEF SessionPass, HoldsSession, Saving

LEMMA SessionPasses ==
  ASSUME TypeInv, Unique, NEW p \in Process, "number" \notin excused',
         (Step(p) /\ ~NextSequence(p)) \/ Kill(p) \/ \E c \in Commands : Run(p, c)
  PROVE  SessionPass(p)
<1>1. {"choose", "choice", "clear", "unsession", "emit", "local", "complete", "flush", "read",
       "token", "register", "session", "post", "trim", "ensure"}
        \subseteq Steps \ (HoldsSession \cup {"append"})
  BY DEF Steps, HoldsSession
<1>2. /\ session.id \in Nat /\ session.seq \in Nat /\ sessions \in Nat
      /\ \A q \in Process : ses[q].id \in Nat /\ ses[q].seq \in Nat
  BY SessionsType
<1>3. CASE Ensure(p) \/ Flush(p) \/ LoadForChoice(p) \/ SaveChoice(p)
  <2>1. UNCHANGED <<session, sessions>>
    BY <1>3 DEF Ensure, Flush, LoadForChoice, SaveChoice, files, budgets
  <2>2. CASE End(p)
    BY <2>1, <2>2, EndSession
  <2>3. CASE ses' = ses /\ \E step \in {"choose", "read", "choice", "emit", "clear"} : Goto(p, step)
    BY <1>1, <2>1, <2>3, GotoSession
  <2>. QED  BY <1>3, <2>2, <2>3 DEF Ensure, Flush, LoadForChoice, SaveChoice, locals
<1>4. CASE ClearOutbox(p) \/ ClearSession(p) \/ CompleteSession(p) \/ AppendOutbox(p)
  <2>1. session' \in {session, NoSession} /\ sessions' = sessions
    BY <1>4 DEF ClearOutbox, ClearSession, CompleteSession, AppendOutbox, budgets
  <2>2. CASE End(p)
    BY <2>1, <2>2, EndSession
  <2>3. CASE ses' = ses /\ \E step \in {"unsession", "complete", "flush"} : Goto(p, step)
    BY <1>1, <2>1, <2>3, GotoSession
  <2>. QED  BY <1>4, <2>2, <2>3 DEF ClearOutbox, ClearSession, CompleteSession, AppendOutbox,
                                    Emitted, locals
<1>5. CASE Emit(p) \/ ReadOutbox(p) \/ Post(p) \/ LoseAnswer(p) \/ GiveUp(p) \/ TrimOutbox(p)
  <2>1. UNCHANGED <<session, sessions>>
    BY <1>5 DEF Emit, ReadOutbox, Post, LoseAnswer, GiveUp, TrimOutbox, files, budgets
  <2>2. CASE End(p)
    BY <2>1, <2>2, EndSession
  <2>3. CASE ses' = ses /\ \E step \in {"local", "token", "trim"} : Goto(p, step)
    BY <1>1, <2>1, <2>3, GotoSession
  <2>. QED  BY <1>5, <2>2, <2>3 DEF Emit, ReadOutbox, Post, LoseAnswer, GiveUp, TrimOutbox, locals
<1>6. CASE Kill(p) \/ \E c \in Commands : Run(p, c)
  <2>1. UNCHANGED <<session, sessions>>
    BY <1>6 DEF Kill, Run, files
  <2>2. CASE Kill(p)
    BY <2>1, <2>2, EndSession DEF Kill
  <2>3. ASSUME NEW c \in Commands, Run(p, c) PROVE SessionPass(p)
    <3>1. PICK step \in {"choose", "emit", "flush", "ensure"} : Goto(p, step)
      BY <2>3, TelemetryAssumption DEF TelemetryAssumption, Run, Command
    <3>2. ses' = ses
      BY <2>3 DEF Run
    <3>. QED  BY <1>1, <2>1, <3>1, <3>2, GotoSession
  <2>. QED  BY <1>6, <2>2, <2>3
<1>7. CASE LoadForToken(p)
  <2>1. UNCHANGED <<session, sessions>>
    BY <1>7 DEF LoadForToken, files, budgets
  <2>2. CASE End(p)
    BY <2>1, <2>2, EndSession
  <2>3. CASE ses' = ses /\ \E step \in {"session", "register"} : Goto(p, step)
    BY <1>1, <2>1, <2>3, GotoSession
  <2>. QED  BY <1>7, <2>2, <2>3 DEF LoadForToken
<1>8. CASE LoadLocalSession(p)
  <2>1. session' = session /\ pc[p] = "local"
    BY <1>8 DEF LoadLocalSession, files
  <2>2. \A q \in Process \ {p} : pc[q] \notin HoldsSession
    BY <1>8 DEF LoadLocalSession, Excused, Others
  <2>3. CASE End(p) /\ UNCHANGED sessions
    BY <2>1, <2>3, EndSession
  <2>4. CASE /\ sessions' = sessions + 1 /\ ses' = [ses EXCEPT ![p].id = sessions']
             /\ Goto(p, "create")
    <3>1. pc'[p] = "create" /\ \A q \in Process \ {p} : pc'[q] = pc[q]
      BY <2>4, GotoType DEF Steps
    <3>2. ses'[p].id = sessions + 1 /\ \A q \in Process \ {p} : ses'[q] = ses[q]
      BY <2>4 DEF TypeInv, LocalsType, Session
    <3>. QED  BY <1>2, <2>1, <2>2, <2>4, <3>1, <3>2 DEF SessionPass, Saving, Like
  <2>5. CASE /\ session.id # 0 /\ ses' = [ses EXCEPT ![p] = session] /\ Goto(p, "number")
             /\ UNCHANGED sessions
    <3>1. pc'[p] = "number" /\ \A q \in Process \ {p} : pc'[q] = pc[q]
      BY <2>5, GotoType DEF Steps
    <3>2. ses'[p] = session /\ \A q \in Process \ {p} : ses'[q] = ses[q]
      BY <2>5 DEF TypeInv, LocalsType
    <3>. QED  BY <2>1, <2>2, <2>5, <3>1, <3>2 DEF SessionPass, Like
  <2>. QED  BY <1>8, <2>3, <2>4, <2>5 DEF LoadLocalSession
<1>9. CASE CreateLocalSession(p)
  <2>1. pc[p] = "create" /\ sessions' = sessions
    BY <1>9 DEF CreateLocalSession, budgets
  <2>2. pc'[p] = "number" /\ \A q \in Process \ {p} : pc'[q] = pc[q]
    BY <1>9, GotoType DEF CreateLocalSession, Steps
  <2>3. session'.id = ses[p].id
    BY <1>9 DEF CreateLocalSession, TypeInv, FilesType, Session
  <2>4. ses'[p] = session' /\ \A q \in Process \ {p} : ses'[q] = ses[q]
    BY <1>9 DEF CreateLocalSession, TypeInv, LocalsType
  <2>5. ses[p].id # 0
    BY <2>1 DEF Unique
  <2>. QED  BY <2>1, <2>2, <2>3, <2>4, <2>5 DEF SessionPass, HoldsSession
<1>10. CASE Register(p)
  <2>1. UNCHANGED <<session, ses, sessions>>
    BY <1>10 DEF Register, budgets
  <2>2. CASE pc[p] = "register"
    BY <1>1, <1>10, <2>1, <2>2, GotoSession DEF Register
  <2>3. CASE pc[p] = "reregister"
    <3>1. pc'[p] = "reopen" /\ \A q \in Process \ {p} : pc'[q] = pc[q]
      BY <1>10, <2>3, GotoType DEF Register, Steps
    <3>. QED  BY <2>1, <2>3, <3>1 DEF SessionPass, HoldsSession, Saving, Like
  <2>. QED  BY <1>10, <2>2, <2>3 DEF Register
<1>11. CASE LoadWriteToken(p)
  <2>1. /\ UNCHANGED <<session, sessions>> /\ pc[p] = "session"
        /\ \A q \in Process \ {p} : pc[q] \notin HoldsSession
    BY <1>11 DEF LoadWriteToken, files, budgets, Excused, Others
  <2>2. pc'[p] \in {"post", "open"} /\ \A q \in Process \ {p} : pc'[q] = pc[q]
    BY <1>11, GotoType DEF LoadWriteToken, Steps
  <2>3. ses'[p] = session /\ \A q \in Process \ {p} : ses'[q] = ses[q]
    BY <1>11 DEF LoadWriteToken, TypeInv, LocalsType
  <2>. QED  BY <2>1, <2>2, <2>3 DEF SessionPass, Like
<1>12. CASE OpenSession(p)
  <2>1. pc[p] \in Saving /\ sessions' = sessions
    BY <1>12 DEF OpenSession, budgets, Saving
  <2>2. pc'[p] = "post" /\ \A q \in Process \ {p} : pc'[q] = pc[q]
    BY <1>12, GotoType DEF OpenSession, Steps
  <2>3. /\ session'.id = ses[p].id /\ session'.seq = ses[p].seq /\ ses'[p] = session'
        /\ \A q \in Process \ {p} : ses'[q] = ses[q]
    BY <1>12 DEF OpenSession, TypeInv, LocalsType, Session
  <2>. QED  BY <2>1, <2>2, <2>3 DEF SessionPass, HoldsSession, Saving, Like
<1>13. CASE RefuseInstall(p) \/ RefuseWrite(p)
  <2>1. Like(session', session) /\ sessions' = sessions
    <3>1. session' = [session EXCEPT !.token = FALSE]
      BY <1>13 DEF RefuseInstall, RefuseWrite, ResetWriteToken
    <3>2. session'.id = session.id /\ session'.seq = session.seq
      BY <3>1 DEF TypeInv, FilesType, Session
    <3>. QED  BY <1>13, <3>2 DEF RefuseInstall, RefuseWrite, budgets, Like
  <2>2. CASE RefuseInstall(p)
    <3>1. CASE ConsentEnabled(cfg[p])
      <4>1. /\ pc[p] = "open" /\ pc'[p] = "reregister" /\ \A q \in Process \ {p} : pc'[q] = pc[q]
            /\ ses' = ses
        BY <2>2, <3>1, GotoType DEF RefuseInstall, Steps
      <4>. QED  BY <2>1, <4>1 DEF SessionPass, HoldsSession, Saving, Like
    <3>2. CASE ~ConsentEnabled(cfg[p])
      BY <2>1, <2>2, <3>2, EndLike DEF RefuseInstall
    <3>. QED  BY <3>1, <3>2
  <2>3. CASE RefuseWrite(p)
    <3>1. pc'[p] = "token" /\ ses' = ses /\ \A q \in Process \ {p} : pc'[q] = pc[q]
      BY <2>3, GotoType DEF RefuseWrite, Steps
    <3>. QED  BY <2>1, <3>1 DEF SessionPass, HoldsSession, Saving, Like
  <2>. QED  BY <1>13, <2>2, <2>3
<1>. QED  BY <1>3, <1>4, <1>5, <1>6, <1>7, <1>8, <1>9, <1>10, <1>11, <1>12, <1>13 DEF Step

LEMMA UniqueInit == Init => UniqueInv
<1> SUFFICES ASSUME Init PROVE Unique
  BY DEF UniqueInv
<1>1. /\ outbox = <<>> /\ session = NoSession /\ sessions = 0
      /\ \A p \in Process : pc[p] = "idle" /\ queue[p] = <<>> /\ ses[p] = NoSession
  BY DEF Init
<1>2. Marked = {}
  BY <1>1, EmptyMarks DEF Marked, Pool
<1>3. Apart(outbox) /\ \A p \in Process : Apart(queue[p])
  BY <1>1, EmptyMarks
<1>4. session.id = 0 /\ \A p \in Process : ses[p].id = 0
  BY <1>1 DEF NoSession
<1>. QED  BY <1>1, <1>2, <1>3, <1>4 DEF Unique, Highest, HoldsSession, Saving

LEMMA UniqueNext == TypeInv /\ TypeInv' /\ UniqueInv /\ [Next]_vars => UniqueInv'
<1> SUFFICES ASSUME TypeInv, TypeInv', UniqueInv, [Next]_vars, "number" \notin excused'
             PROVE  Unique'
  BY DEF UniqueInv
<1>1. Unique /\ "number" \notin excused
  BY ExcusedGrows DEF UniqueInv
<1>2. ASSUME NEW p \in Process, Step(p) PROVE Unique'
  <2>1. CASE NextSequence(p)
    BY <1>1, <2>1, UniqueNumber
  <2>2. CASE ~NextSequence(p)
    <3>1. SessionPass(p)
      BY <1>1, <1>2, <2>2, SessionPasses
    <3>2. OutboxPass(p)
      BY <1>1, <1>2, Passing, OutboxPasses DEF Step
    <3>. QED  BY <1>1, <3>1, <3>2, UniqueStep
  <2>. QED  BY <2>1, <2>2
<1>3. ASSUME NEW p \in Process, Kill(p) \/ \E c \in Commands : Run(p, c) PROVE Unique'
  <2>1. SessionPass(p)
    BY <1>1, <1>3, SessionPasses
  <2>2. OutboxPass(p)
    BY <1>1, <1>3, Passing, OutboxPasses
  <2>. QED  BY <1>1, <2>1, <2>2, UniqueStep
<1>4. CASE SuppressionEnds \/ UNCHANGED vars
  <2>1. UNCHANGED <<outbox, session, pc, queue, ses, sessions>>
    BY <1>4 DEF SuppressionEnds, vars, files, locals, budgets
  <2>2. /\ Pool' = Pool /\ \A p \in Process : MyMark(p)' = MyMark(p)
    BY <2>1 DEF Pool, MyMark
  <2>3. Marked' = Marked
    BY <2>1, <2>2 DEF Marked
  <2>4. Highest(session)' = Highest(session) /\ \A p \in Process : Highest(ses[p])' = Highest(ses[p])
    BY <2>1, <2>3 DEF Highest
  <2>. QED  BY <1>1, <2>1, <2>2, <2>3, <2>4 DEF Unique
<1>. QED  BY <1>2, <1>3, <1>4 DEF Next

\* The events of a session that are queued have different numbers, whatever is killed
\* or refused, while no process reads the session's record that another is to save.
THEOREM NumbersAreUnique == Spec => []NumbersDiffer
<1>1. Spec => []UniqueInv
  BY TypeInvHolds, UniqueInit, UniqueNext, PTL DEF Spec
<1>2. UniqueInv => NumbersDiffer
  <2> SUFFICES ASSUME Unique,
                      NEW i \in DOMAIN outbox, NEW j \in DOMAIN outbox, i # j,
                      outbox[i].session = outbox[j].session
               PROVE  outbox[i].seq # outbox[j].seq
    BY DEF UniqueInv, NumbersDiffer
  <2>1. Mark(outbox[i]) # Mark(outbox[j])
    BY DEF Unique, Apart
  <2>. QED  BY <2>1 DEF Mark
<1>. QED  BY <1>1, <1>2, PTL

=============================================================================
