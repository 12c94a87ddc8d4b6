--------------------------- MODULE TeamAccessProofs ---------------------------
(* What holds of a shared project for any team, any number of requests, sockets
   and tickets, and any commands. *)
EXTENDS TeamAccess, TLAPS

(* Types *)

Serving(a) == pc[a] \in {"check", "run"}

\* What an actor needs to go on: a command, a caller, a place in its statements,
\* a role that was looked up, a ticket that was issued.
Equipped(a) ==
  /\ Serving(a) => cmd[a] \in Command /\ caller[a] \in Subject
  /\ Serving(a) /\ a \in Socket => Live(cmd[a])
  /\ pc[a] = "run" => at[a] \in 1..Len(Statements(cmd[a]))
  /\ pc[a] = "run" /\ a \in Request => granted[a] \in Role
  /\ pc[a] = "open" => a \in Socket /\ caller[a] \in Subject
  /\ pc[a] = "redeem" => a \in Socket /\ using[a] \in TicketId /\ tickets[using[a]] # NoOne

TypeInv == TypeOK /\ \A a \in Actor : Equipped(a)

LEMMA StatementsType ==
  ASSUME NEW c \in Command, NEW i \in 1..Len(Statements(c))
  PROVE  /\ i \in 0..5 /\ 1 \in 1..Len(Statements(c))
         /\ Statements(c)[i] \notin {"commit", "issue"} => i + 1 \in 1..Len(Statements(c))
<1>1. CASE c.kind \in {"set", "remove"}
  BY <1>1 DEF Statements, OnMember
<1>2. CASE c.kind = "act"
  BY <1>2 DEF Statements
<1>3. CASE c.kind = "draft"
  BY <1>3 DEF Statements
<1>4. CASE c.kind = "steer"
  BY <1>4 DEF Statements
<1>5. CASE c.kind = "ticket"
  BY <1>5 DEF Statements
<1>. QED  BY <1>1, <1>2, <1>3, <1>4, <1>5 DEF Command, Kind

LEMMA FirstStatement ==
  ASSUME NEW c \in Command
  PROVE  1 \in 1..Len(Statements(c))
<1>1. CASE c.kind \in {"set", "remove"}
  BY <1>1 DEF Statements, OnMember
<1>2. CASE c.kind = "act"
  BY <1>2 DEF Statements
<1>3. CASE c.kind = "draft"
  BY <1>3 DEF Statements
<1>4. CASE c.kind = "steer"
  BY <1>4 DEF Statements
<1>5. CASE c.kind = "ticket"
  BY <1>5 DEF Statements
<1>. QED  BY <1>1, <1>2, <1>3, <1>4, <1>5 DEF Command, Kind

(* What a step of one actor leaves alone *)

\* The other actors have the locals they had, and the lock on the project's row.
Others(a) ==
  \A b \in Actor \ {a} :
    /\ pc'[b] = pc[b] /\ cmd'[b] = cmd[b] /\ caller'[b] = caller[b] /\ admin'[b] = admin[b]
    /\ granted'[b] = granted[b] /\ at'[b] = at[b] /\ late'[b] = late[b]
    /\ b \in Socket => using'[b] = using[b]
    /\ locker = b => locker' = b

\* The types of everything that is not a row.
LocalsType ==
  /\ locker \in Actor \cup {NoOne} /\ sharers \subseteq Actor
  /\ updater \in Actor \cup {NoOne} /\ owner \in Actor \cup {NoOne}
  /\ pc \in [Actor -> {"idle", "check", "run", "shut", "redeem", "open"}]
  /\ cmd \in [Actor -> Command \cup {NoOne}] /\ caller \in [Actor -> Subject \cup {NoOne}]
  /\ admin \in [Actor -> BOOLEAN] /\ granted \in [Actor -> Role \cup {NoOne}]
  /\ at \in [Actor -> 0..5] /\ seq \in [Actor -> Nat]
  /\ late \in [Actor -> BOOLEAN]

LEMMA LeaveType ==
  ASSUME TypeInv, NEW a \in Actor, Leave(a), Answer(a) \/ Fail(a)
  PROVE  LocalsType'
<1> USE DEF TypeInv, TypeOK, Leave
<1>1. /\ locker' \in Actor \cup {NoOne} /\ sharers' \subseteq Actor
      /\ updater' \in Actor \cup {NoOne} /\ owner' \in Actor \cup {NoOne}
  BY DEF Release
<1>2. pc' \in [Actor -> {"idle", "check", "run", "shut", "redeem", "open"}]
  BY DEF Answer, Fail
<1>3. cmd' \in [Actor -> Command \cup {NoOne}]
  OBVIOUS
<1>4. caller' \in [Actor -> Subject \cup {NoOne}]
  OBVIOUS
<1>5. admin' \in [Actor -> BOOLEAN]
  OBVIOUS
<1>6. granted' \in [Actor -> Role \cup {NoOne}]
  OBVIOUS
<1>7. at' \in [Actor -> 0..5] /\ seq' \in [Actor -> Nat] /\ late' \in [Actor -> BOOLEAN]
  OBVIOUS
<1>. QED  BY <1>1, <1>2, <1>3, <1>4, <1>5, <1>6, <1>7 DEF LocalsType

LEMMA LeaveOthers ==
  ASSUME TypeInv, NEW a \in Actor, Leave(a), Answer(a) \/ Fail(a),
         \A k \in Socket \ {a} : using'[k] = using[k]
  PROVE  Others(a)
  BY DEF TypeInv, TypeOK, Leave, Release, Answer, Fail, Others

LEMMA LeaveEquipped ==
  ASSUME TypeInv, NEW a \in Actor, Leave(a), Fail(a) \/ (Answer(a) /\ pc[a] = "run")
  PROVE  Equipped(a)'
<1>1. pc'[a] \notin {"check", "run", "redeem"}
  BY DEF TypeInv, TypeOK, Answer, Fail
<1>2. pc'[a] = "open" => a \in Socket /\ Answer(a) /\ pc[a] = "run"
  BY DEF TypeInv, TypeOK, Answer, Fail
<1>3. a \in Socket /\ pc[a] = "run" => caller'[a] \in Subject
  BY TeamAssumption DEF TypeInv, TypeOK, Equipped, Leave, TeamAssumption, Serving
<1>. QED  BY <1>1, <1>2, <1>3 DEF Equipped, Serving

\* Tickets that are issued stay issued.
Issued == \A t \in TicketId : tickets[t] # NoOne => tickets'[t] # NoOne

LEMMA OthersEquipped ==
  ASSUME TypeInv, NEW a \in Actor, Others(a), Issued, NEW b \in Actor \ {a}
  PROVE  Equipped(b)'
  BY DEF TypeInv, Others, Issued, Equipped, Serving

LEMMA Together ==
  ASSUME TypeInv, NEW a \in Actor, Others(a), Issued, TypeOK', Equipped(a)'
  PROVE  TypeInv'
  BY OthersEquipped DEF TypeInv

LEMMA RollbackType ==
  ASSUME TypeInv, NEW a \in Actor, Rollback(a), UNCHANGED <<rows, streams, opened>>,
         requests' \in Nat, kills' \in Nat, using' \in [Socket -> TicketId \cup {0}],
         \A k \in Socket \ {a} : using'[k] = using[k]
  PROVE  TypeInv' /\ Others(a)
<1>1. Leave(a) /\ Fail(a)
  BY DEF Rollback
<1>2. LocalsType' /\ Others(a) /\ Equipped(a)'
  BY <1>1, LeaveType, LeaveOthers, LeaveEquipped
<1>3. standing' \in [Actor -> SUBSET (Role \cup {NoOne})]
  BY DEF Rollback, TypeInv, TypeOK
<1>4. TypeOK'
  BY <1>2, <1>3 DEF TypeInv, TypeOK, LocalsType, rows, streams
<1>5. Issued
  BY DEF Issued, rows
<1>. QED  BY <1>2, <1>4, <1>5, Together

LEMMA RollbackOnly ==
  ASSUME TypeInv, NEW a \in Actor, Rollback(a),
         UNCHANGED <<rows, using, streams, opened, requests, kills>>
  PROVE  TypeInv' /\ Others(a)
<1>1. /\ requests' \in Nat /\ kills' \in Nat /\ using' \in [Socket -> TicketId \cup {0}]
      /\ \A k \in Socket \ {a} : using'[k] = using[k]
  BY DEF TypeInv, TypeOK
<1>. QED  BY <1>1, RollbackType

\* The next statement of a transaction.
LEMMA AdvanceType ==
  ASSUME TypeInv, NEW a \in Actor, InTransaction(a), Statement(a) \notin {"commit", "issue"},
         Advance(a),
         UNCHANGED <<rows, pc, cmd, caller, admin, granted, seq, using, streams, history,
                     requests, kills>>,
         locker' \in Actor \cup {NoOne}, sharers' \subseteq Actor,
         updater' \in Actor \cup {NoOne}, owner' \in Actor \cup {NoOne},
         \A b \in Actor \ {a} : locker = b => locker' = b
  PROVE  TypeInv' /\ Others(a)
<1>1. pc[a] = "run" /\ cmd[a] \in Command /\ at[a] \in 1..Len(Statements(cmd[a]))
  BY DEF InTransaction, TypeInv, Equipped, Serving
<1>2. at'[a] = at[a] + 1 /\ at'[a] \in 1..Len(Statements(cmd[a]))
  BY <1>1, StatementsType DEF Statement, Advance, TypeInv, TypeOK
<1>3. at'[a] \in 0..5
  BY <1>1, <1>2, StatementsType
<1>4. at' \in [Actor -> 0..5]
  BY <1>3 DEF Advance, TypeInv, TypeOK
<1>5. TypeOK'
  BY <1>4 DEF TypeInv, TypeOK, rows, streams, history
<1>6. Others(a) /\ Issued
  BY DEF Others, Issued, Advance, TypeInv, TypeOK, rows, history
<1>7. Equipped(a)'
  BY <1>2 DEF TypeInv, Equipped, Serving, rows
<1>. QED  BY <1>5, <1>6, <1>7, Together

LEMMA AskType ==
  ASSUME TypeInv, NEW a \in Actor, NEW c \in Commands, Ask(a, c)
  PROVE  /\ cmd' \in [Actor -> Command \cup {NoOne}] /\ late' \in [Actor -> BOOLEAN]
         /\ pc' \in [Actor -> {"idle", "check", "run", "shut", "redeem", "open"}]
         /\ requests' \in Nat /\ pc'[a] = "check" /\ cmd'[a] = c /\ c \in Command
  BY TeamAssumption DEF TeamAssumption, Ask, TypeInv, TypeOK

LEMMA ArriveType ==
  ASSUME TypeInv, NEW r \in Request, NEW s \in Subject, NEW c \in Commands, Arrive(r, s, c)
  PROVE  TypeInv' /\ Others(r)
<1>1. Ask(r, c) /\ r \in Actor /\ r \notin Socket
  BY TeamAssumption DEF TeamAssumption, Arrive, Actor
<1>2. /\ caller' \in [Actor -> Subject \cup {NoOne}] /\ admin' \in [Actor -> BOOLEAN]
      /\ caller'[r] = s
  BY <1>1 DEF Arrive, TypeInv, TypeOK
<1>3. standing' \in [Actor -> SUBSET (Role \cup {NoOne})]
  BY <1>1 DEF Arrive, TypeInv, TypeOK
<1>4. TypeOK'
  BY <1>1, <1>2, <1>3, AskType DEF Arrive, TypeInv, TypeOK, rows, locks, streams
<1>5. Equipped(r)'
  BY <1>1, <1>2, AskType DEF Equipped, Serving
<1>6. Others(r) /\ Issued
  BY <1>1 DEF Arrive, Ask, Others, Issued, TypeInv, TypeOK, rows, locks
<1>. QED  BY <1>1, <1>4, <1>5, <1>6, Together

LEMMA SendType ==
  ASSUME TypeInv, NEW k \in Socket, NEW c \in Commands, Send(k, c)
  PROVE  TypeInv' /\ Others(k)
<1>1. k \in Actor /\ pc[k] = "open" /\ caller[k] \in Subject /\ Live(c)
  BY DEF Send, TypeInv, Equipped, Actor
<1>2. Issued
  BY DEF Send, Issued, rows
<1>3. CASE granted[k] = "VIEWER"
  <2>1. Fail(k) /\ UNCHANGED <<rows, locks, cmd, caller, admin, granted, at, seq, using, streams,
                               history, requests, kills>>
    BY <1>3 DEF Send, history
  <2>2. pc' = [pc EXCEPT ![k] = "shut"]
    BY <2>1 DEF Fail
  <2>3. TypeOK'
    BY <2>1, <2>2 DEF TypeInv, TypeOK, rows, locks, streams, history
  <2>4. Others(k)
    BY <2>1, <2>2 DEF Others, TypeInv, TypeOK, locks, history
  <2>5. Equipped(k)'
    BY <1>1, <2>2 DEF Equipped, Serving, TypeInv, TypeOK
  <2>. QED  BY <1>1, <1>2, <2>3, <2>4, <2>5, Together
<1>4. CASE granted[k] # "VIEWER"
  <2>1. Ask(k, c) /\ standing' = [standing EXCEPT ![k] = {roles[caller[k]]}]
    BY <1>4 DEF Send
  <2>2. UNCHANGED <<rows, locks, caller, admin, granted, at, seq, using, streams, opened, kills>>
    BY DEF Send
  <2>3. standing' \in [Actor -> SUBSET (Role \cup {NoOne})]
    BY <1>1, <2>1 DEF TypeInv, TypeOK
  <2>4. TypeOK'
    BY <1>1, <2>1, <2>2, <2>3, AskType DEF TypeInv, TypeOK, rows, locks, streams
  <2>5. Others(k)
    BY <2>1, <2>2 DEF Ask, Others, TypeInv, TypeOK, locks
  <2>6. Equipped(k)'
    <3>1. k \notin Request
      BY TeamAssumption DEF TeamAssumption
    <3>. QED  BY <1>1, <2>1, <2>2, <3>1, AskType DEF Equipped, Serving
  <2>. QED  BY <1>1, <1>2, <2>4, <2>5, <2>6, Together
<1>. QED  BY <1>3, <1>4

LEMMA RoleForType ==
  ASSUME TypeInv, NEW a \in Actor, Serving(a)
  PROVE  /\ role_for(a) \in Role \cup {NoOne}
         /\ ROLE_LEVEL[role_for(a)] >= ROLE_LEVEL[Needs(cmd[a])] => role_for(a) \in Role
<1>1. role_for(a) \in Role \cup {NoOne}
  BY DEF role_for, TypeInv, TypeOK, Equipped, Role
<1>2. Needs(cmd[a]) \in Role
  BY DEF Needs, Role
<1>3. ROLE_LEVEL[NoOne] = 0
  BY TeamAssumption DEF TeamAssumption, ROLE_LEVEL, Role
<1>4. ROLE_LEVEL[Needs(cmd[a])] \in {1, 2, 3}
  BY <1>2 DEF ROLE_LEVEL, Role
<1>. QED  BY <1>1, <1>3, <1>4

LEMMA CheckType ==
  ASSUME TypeInv, NEW a \in Actor, Check(a)
  PROVE  TypeInv' /\ Others(a)
<1>1. pc[a] = "check" /\ Serving(a) /\ cmd[a] \in Command /\ Issued
  BY DEF Check, Serving, TypeInv, Equipped, Issued, rows
<1>2. CASE ROLE_LEVEL[role_for(a)] >= ROLE_LEVEL[Needs(cmd[a])]
  <2>1. /\ pc' = [pc EXCEPT ![a] = "run"] /\ at' = [at EXCEPT ![a] = 1]
        /\ granted' = IF a \in Request THEN [granted EXCEPT ![a] = role_for(a)] ELSE granted
        /\ UNCHANGED <<rows, locks, cmd, caller, admin, seq, standing, late, using, streams,
                       opened, requests, kills>>
    BY <1>2 DEF Check
  <2>2. pc'[a] = "run" /\ at'[a] = 1 /\ 1 \in 1..Len(Statements(cmd[a]))
    BY <1>1, <2>1, FirstStatement DEF TypeInv, TypeOK
  <2>3. granted' \in [Actor -> Role \cup {NoOne}] /\ (a \in Request => granted'[a] \in Role)
    BY <1>1, <1>2, <2>1, RoleForType DEF TypeInv, TypeOK
  <2>4. TypeOK'
    BY <2>1, <2>3 DEF TypeInv, TypeOK, rows, locks, streams
  <2>5. Others(a)
    BY <2>1 DEF Others, TypeInv, TypeOK, locks
  <2>6. Equipped(a)'
    BY <1>1, <2>1, <2>2, <2>3 DEF TypeInv, Equipped, Serving
  <2>. QED  BY <1>1, <2>4, <2>5, <2>6, Together
<1>3. CASE ~(ROLE_LEVEL[role_for(a)] >= ROLE_LEVEL[Needs(cmd[a])])
  BY <1>3, RollbackOnly DEF Check
<1>. QED  BY <1>2, <1>3

\* The statements that take a lock.
LEMMA LockType ==
  ASSUME TypeInv, NEW a \in Actor,
         \/ LockChallenge(a) \/ UpdateChallenge(a) \/ UpdateCoordinator(a)
         \/ InsertMessage(a) \/ InsertEvent(a)
  PROVE  TypeInv' /\ Others(a)
<1>1. InTransaction(a) /\ Statement(a) \notin {"commit", "issue"} /\ Advance(a)
  BY DEF LockChallenge, UpdateChallenge, UpdateCoordinator, InsertMessage, InsertEvent, Runs
<1>2. UNCHANGED <<rows, pc, cmd, caller, admin, granted, seq, using, streams, history,
                  requests, kills>>
  BY DEF LockChallenge, UpdateChallenge, UpdateCoordinator, InsertMessage, InsertEvent
<1>3. /\ locker' \in Actor \cup {NoOne} /\ sharers' \subseteq Actor
      /\ updater' \in Actor \cup {NoOne} /\ owner' \in Actor \cup {NoOne}
  BY DEF LockChallenge, UpdateChallenge, UpdateCoordinator, InsertMessage, InsertEvent,
         TypeInv, TypeOK
<1>4. locker' = locker \/ locker = NoOne
  BY DEF LockChallenge, LockFree, UpdateChallenge, UpdateCoordinator, InsertMessage, InsertEvent
<1>5. \A b \in Actor \ {a} : locker = b => locker' = b
  BY <1>4, TeamAssumption DEF TeamAssumption
<1>. QED  BY <1>1, <1>2, <1>3, <1>5, AdvanceType

\* The statements that only read.
LEMMA LookType ==
  ASSUME TypeInv, NEW a \in Actor, CountOwners(a) \/ ReadDraft(a)
  PROVE  TypeInv' /\ Others(a)
<1>1. InTransaction(a) /\ Statement(a) \notin {"commit", "issue"}
  BY DEF CountOwners, ReadDraft, Runs
<1>2. UNCHANGED <<rows, using, streams, opened, requests, kills>>
  BY DEF CountOwners, ReadDraft
<1>3. CASE Rollback(a)
  BY <1>2, <1>3, RollbackOnly
<1>4. CASE Advance(a) /\ UNCHANGED <<locks, pc, cmd, caller, admin, granted, seq, standing, late>>
  <2>1. /\ locker' \in Actor \cup {NoOne} /\ sharers' \subseteq Actor
        /\ updater' \in Actor \cup {NoOne} /\ owner' \in Actor \cup {NoOne}
        /\ \A b \in Actor \ {a} : locker = b => locker' = b
    BY <1>4 DEF TypeInv, TypeOK, locks
  <2>2. UNCHANGED <<rows, pc, cmd, caller, admin, granted, seq, using, streams, history,
                    requests, kills>>
    BY <1>2, <1>4 DEF history
  <2>. QED  BY <1>1, <1>4, <2>1, <2>2, AdvanceType
<1>. QED  BY <1>3, <1>4 DEF CountOwners, ReadDraft

\* A transaction that ends with an answer.
LEMMA AnswerType ==
  ASSUME TypeInv, NEW a \in Actor, pc[a] = "run", Leave(a), Answer(a),
         using' = using
  PROVE  LocalsType' /\ Others(a) /\ Equipped(a)'
  BY LeaveType, LeaveOthers, LeaveEquipped

LEMMA OwnType ==
  ASSUME TypeInv, NEW a \in Actor, OwnCoordinator(a)
  PROVE  TypeInv' /\ Others(a)
<1>1. pc[a] = "run" /\ InTransaction(a) /\ Statement(a) \notin {"commit", "issue"}
  BY DEF OwnCoordinator, Runs, InTransaction
<1>2. UNCHANGED <<rows, using, streams, opened, requests, kills>>
  BY DEF OwnCoordinator
<1>3. CASE /\ owner' = a /\ Advance(a)
           /\ UNCHANGED <<locker, sharers, updater, pc, cmd, caller, admin, granted, seq, standing,
                          late>>
  <2>1. /\ locker' \in Actor \cup {NoOne} /\ sharers' \subseteq Actor
        /\ updater' \in Actor \cup {NoOne} /\ owner' \in Actor \cup {NoOne}
        /\ \A b \in Actor \ {a} : locker = b => locker' = b
    BY <1>3 DEF TypeInv, TypeOK
  <2>2. UNCHANGED <<rows, pc, cmd, caller, admin, granted, seq, using, streams, history,
                    requests, kills>>
    BY <1>2, <1>3 DEF history
  <2>. QED  BY <1>1, <1>3, <2>1, <2>2, AdvanceType
<1>4. CASE Rollback(a)
  BY <1>2, <1>4, RollbackOnly
<1>5. CASE Leave(a) /\ Answer(a) /\ standing' = [standing EXCEPT ![a] = {}]
  <2>1. LocalsType' /\ Others(a) /\ Equipped(a)'
    BY <1>1, <1>2, <1>5, AnswerType
  <2>2. standing' \in [Actor -> SUBSET (Role \cup {NoOne})]
    BY <1>5 DEF TypeInv, TypeOK
  <2>3. TypeOK' /\ Issued
    BY <1>2, <2>1, <2>2 DEF TypeInv, TypeOK, LocalsType, Issued, rows, streams
  <2>. QED  BY <2>1, <2>3, Together
<1>. QED  BY <1>3, <1>4, <1>5 DEF OwnCoordinator

LEMMA DrawType ==
  ASSUME TypeInv, NEW a \in Actor, DrawSequence(a)
  PROVE  TypeInv' /\ Others(a)
<1>1. next' \in Nat \ {0} /\ seq' \in [Actor -> Nat]
  BY DEF DrawSequence, TypeInv, TypeOK
<1>2. TypeOK'
  BY <1>1 DEF DrawSequence, TypeInv, TypeOK, locks, streams, history
<1>3. Others(a) /\ Issued
  BY DEF DrawSequence, Others, Issued, locks, history
<1>4. Equipped(a)'
  BY DEF DrawSequence, TypeInv, Equipped, Serving
<1>. QED  BY <1>2, <1>3, <1>4, Together

LEMMA OutcomeType ==
  ASSUME NEW c \in Command
  PROVE  c.target \in Subject /\ Outcome(c) \in Role \cup {NoOne} /\ c.kind \in Kind
  BY DEF Command, Outcome

LEMMA CommitType ==
  ASSUME TypeInv, NEW a \in Actor, Commit(a)
  PROVE  TypeInv' /\ Others(a)
<1>1. pc[a] = "run" /\ cmd[a] \in Command
  BY DEF Commit, Runs, InTransaction, TypeInv, Equipped, Serving
<1>2. UNCHANGED <<next, tickets, used, expired, using, streams, opened, requests, kills>>
  BY DEF Commit
<1>3. LocalsType' /\ Others(a) /\ Equipped(a)'
  BY <1>1, <1>2, AnswerType DEF Commit
<1>4. roles' \in [Subject -> Role \cup {NoOne}] /\ started' \in BOOLEAN
  BY <1>1, OutcomeType DEF Commit, TypeInv, TypeOK
<1>5. log' \subseteq Entry
  <2> DEFINE entry == [seq |-> seq[a], kind |-> cmd[a].kind, target |-> cmd[a].target,
                       role |-> Outcome(cmd[a])]
  <2>1. entry \in Entry
    BY <1>1, OutcomeType DEF Entry, TypeInv, TypeOK
  <2>2. log' = log \cup {entry}
    BY DEF Commit
  <2>. QED  BY <2>1, <2>2 DEF TypeInv, TypeOK
<1>6. standing' \in [Actor -> SUBSET (Role \cup {NoOne})]
  <2>1. ASSUME NEW b \in Actor, pc[b] \in {"check", "run"}
        PROVE  standing[b] \cup {roles'[caller[b]]} \subseteq Role \cup {NoOne}
    BY <1>4, <2>1 DEF TypeInv, TypeOK, Equipped, Serving
  <2>. QED  BY <2>1 DEF Commit
<1>7. TypeOK' /\ Issued
  BY <1>2, <1>3, <1>4, <1>5, <1>6 DEF TypeInv, TypeOK, LocalsType, Issued, streams
<1>. QED  BY <1>3, <1>7, Together

LEMMA IssueType ==
  ASSUME TypeInv, NEW a \in Actor, IssueTicket(a)
  PROVE  TypeInv' /\ Others(a)
<1>1. pc[a] = "run" /\ cmd[a] \in Command /\ Statement(a) = "issue" /\ caller[a] \in Subject
  BY DEF IssueTicket, Runs, InTransaction, TypeInv, Equipped, Serving
<1>2. UNCHANGED <<roles, started, log, next, used, expired, using, streams, opened, requests,
                  kills>>
  BY DEF IssueTicket
<1>3. LocalsType' /\ Others(a) /\ Equipped(a)'
  BY <1>1, <1>2, AnswerType DEF IssueTicket
<1>4. granted[a] \in Role
  <2>1. at[a] \in 1..Len(Statements(cmd[a]))
    BY <1>1 DEF TypeInv, Equipped
  <2>2. cmd[a].kind \notin {"act", "steer"}
    BY <1>1, <2>1 DEF Statement, Statements
  <2>3. a \notin Socket
    BY <1>1, <2>2 DEF TypeInv, Equipped, Serving, Live
  <2>. QED  BY <1>1, <2>3 DEF TypeInv, Equipped, Actor
<1>5. PICK t \in TicketId :
        /\ \A u \in TicketId : u < t <=> tickets[u] # NoOne
        /\ tickets' = [tickets EXCEPT ![t] = [subject |-> caller[a], role |-> granted[a]]]
  BY DEF IssueTicket
<1>6. tickets' \in [TicketId -> Ticket \cup {NoOne}]
  BY <1>1, <1>4, <1>5 DEF TypeInv, TypeOK, Ticket
<1>7. Issued
  <2>1. tickets[t] = NoOne
    BY <1>5 DEF TicketId
  <2>. QED  BY <1>5, <2>1 DEF Issued, TypeInv, TypeOK
<1>8. standing' \in [Actor -> SUBSET (Role \cup {NoOne})]
  BY DEF IssueTicket, TypeInv, TypeOK
<1>9. TypeOK'
  BY <1>2, <1>3, <1>6, <1>8 DEF TypeInv, TypeOK, LocalsType, streams
<1>. QED  BY <1>3, <1>7, <1>9, Together

LEMMA KillType ==
  ASSUME TypeInv, NEW a \in Actor, Kill(a)
  PROVE  TypeInv' /\ Others(a)
<1>1. Rollback(a) /\ UNCHANGED <<rows, streams, opened>>
  BY DEF Kill
<1>2. requests' \in Nat /\ kills' \in Nat
  BY DEF Kill, TypeInv, TypeOK
<1>3. using' \in [Socket -> TicketId \cup {0}] /\ \A k \in Socket \ {a} : using'[k] = using[k]
  BY DEF Kill, TypeInv, TypeOK
<1>. QED  BY <1>1, <1>2, <1>3, RollbackType

LEMMA WorksType ==
  ASSUME TypeInv, NEW a \in Actor, Works(a)
  PROVE  TypeInv' /\ Others(a)
<1>1. CASE BreakDeadlock(a)
  BY <1>1, RollbackOnly DEF BreakDeadlock
<1>2. CASE \/ LockChallenge(a) \/ UpdateChallenge(a) \/ UpdateCoordinator(a)
           \/ InsertMessage(a) \/ InsertEvent(a)
  BY <1>2, LockType
<1>3. CASE Check(a) \/ CountOwners(a) \/ ReadDraft(a) \/ OwnCoordinator(a)
  BY <1>3, CheckType, LookType, OwnType
<1>4. CASE DrawSequence(a) \/ Commit(a) \/ IssueTicket(a) \/ Kill(a)
  BY <1>4, DrawType, CommitType, IssueType, KillType
<1>. QED  BY <1>1, <1>2, <1>3, <1>4 DEF Works

(* Sockets and tickets *)

LEMMA OpenedType ==
  ASSUME TypeInv, NEW k \in Socket, Opened(k)
  PROVE  /\ pc' = [pc EXCEPT ![k] = "open"] /\ k \in Actor
         /\ pc' \in [Actor -> {"idle", "check", "run", "shut", "redeem", "open"}]
         /\ cursor' \in [Socket -> Nat] /\ heard' \in [Socket -> SUBSET Nat]
  BY DEF Opened, TypeInv, TypeOK, streams, Actor

LEMMA RedeemType ==
  ASSUME TypeInv, NEW k \in Socket, NEW t \in TicketId, RedeemTicket(k, t)
  PROVE  TypeInv' /\ Others(k)
<1>1. k \in Actor
  BY DEF Actor
<1>2. TypeOK'
  BY <1>1 DEF RedeemTicket, TypeInv, TypeOK, rows, locks, streams, history
<1>3. Others(k) /\ Issued
  BY <1>1 DEF RedeemTicket, Others, Issued, TypeInv, TypeOK, rows, locks, history
<1>4. Equipped(k)'
  BY <1>1 DEF RedeemTicket, Equipped, Serving, TypeInv, TypeOK, rows
<1>. QED  BY <1>1, <1>2, <1>3, <1>4, Together

LEMMA UseType ==
  ASSUME TypeInv, NEW k \in Socket, UseTicket(k)
  PROVE  TypeInv' /\ Others(k)
<1>1. k \in Actor /\ using[k] \in TicketId /\ tickets[using[k]] # NoOne
  BY DEF UseTicket, TypeInv, Equipped, Actor
<1>2. tickets[using[k]].subject \in Subject /\ tickets[using[k]].role \in Role
  BY <1>1 DEF TypeInv, TypeOK, Ticket
<1>3. Opened(k)
  BY DEF UseTicket
<1>4. UNCHANGED <<roles, started, log, next, tickets, expired, locks, cmd, at, seq, standing, late,
                  requests, kills>>
  BY DEF UseTicket
<1>5. used' \subseteq TicketId /\ opened' \in [TicketId -> Nat]
  BY <1>1 DEF UseTicket, TypeInv, TypeOK
<1>6. caller' = [caller EXCEPT ![k] = tickets[using[k]].subject]
  BY DEF UseTicket
<1>7. caller' \in [Actor -> Subject \cup {NoOne}] /\ caller'[k] \in Subject
  BY <1>1, <1>2, <1>6 DEF TypeInv, TypeOK
<1>8. /\ granted' \in [Actor -> Role \cup {NoOne}] /\ admin' \in [Actor -> BOOLEAN]
      /\ using' \in [Socket -> TicketId \cup {0}]
  BY <1>1, <1>2 DEF UseTicket, TypeInv, TypeOK
<1>9. TypeOK'
  BY <1>3, <1>4, <1>5, <1>7, <1>8, OpenedType DEF TypeInv, TypeOK, locks
<1>10. Others(k)
  BY <1>1, <1>3, OpenedType DEF UseTicket, Others, TypeInv, TypeOK, locks
<1>11. Equipped(k)' /\ Issued
  BY <1>1, <1>3, <1>4, <1>7, OpenedType DEF Equipped, Serving, Issued, TypeInv, TypeOK
<1>. QED  BY <1>1, <1>9, <1>10, <1>11, Together

LEMMA OpenType ==
  ASSUME TypeInv, NEW k \in Socket, NEW s \in Subject, OpenWithToken(k, s)
  PROVE  TypeInv' /\ Others(k)
<1>1. Opened(k) /\ k \in Actor
  BY OpenedType DEF OpenWithToken
<1>2. UNCHANGED <<rows, locks, cmd, at, seq, using, history, requests, kills>>
  BY DEF OpenWithToken
<1>3. /\ caller' \in [Actor -> Subject \cup {NoOne}] /\ caller'[k] \in Subject
      /\ admin' \in [Actor -> BOOLEAN]
  BY <1>1 DEF OpenWithToken, TypeInv, TypeOK
<1>4. granted' \in [Actor -> Role \cup {NoOne}]
  BY <1>1 DEF OpenWithToken, TypeInv, TypeOK, Role
<1>5. TypeOK'
  BY <1>1, <1>2, <1>3, <1>4, OpenedType DEF TypeInv, TypeOK, rows, locks, history
<1>6. Others(k) /\ Issued
  BY <1>1, OpenedType DEF OpenWithToken, Others, Issued, TypeInv, TypeOK, rows, locks, history
<1>7. Equipped(k)'
  BY <1>1, <1>3, OpenedType DEF Equipped, Serving, TypeInv, TypeOK
<1>. QED  BY <1>1, <1>5, <1>6, <1>7, Together

LEMMA PollType ==
  ASSUME TypeInv, NEW k \in Socket, Poll(k)
  PROVE  TypeInv' /\ Others(k)
<1>1. Page(cursor[k]) \subseteq Nat
  BY DEF Page, TypeInv, TypeOK, Entry
<1>2. cursor' \in [Socket -> Nat] /\ heard' \in [Socket -> SUBSET Nat]
  BY <1>1 DEF Poll, TypeInv, TypeOK
<1>3. UNCHANGED <<rows, locks, pc, locals, history, requests, kills>>
  BY DEF Poll
<1>4. TypeOK'
  BY <1>2, <1>3 DEF TypeInv, TypeOK, rows, locks, locals, history
<1>5. Others(k)
  BY <1>3 DEF Others, locks, locals, history
<1>6. \A a \in Actor : Equipped(a)'
  BY <1>3 DEF TypeInv, Equipped, Serving, rows, locals
<1>. QED  BY <1>4, <1>5, <1>6 DEF TypeInv

LEMMA DisconnectType ==
  ASSUME TypeInv, NEW k \in Socket, Disconnect(k)
  PROVE  TypeInv' /\ Others(k)
<1>1. k \in Actor /\ pc' = [pc EXCEPT ![k] = "shut"]
  BY DEF Disconnect, Actor
<1>2. TypeOK'
  BY <1>1 DEF Disconnect, TypeInv, TypeOK, rows, locks, locals, streams, history
<1>3. Others(k) /\ Issued
  BY <1>1 DEF Disconnect, Others, Issued, TypeInv, TypeOK, rows, locks, locals, history
<1>4. Equipped(k)'
  BY <1>1 DEF Equipped, Serving, TypeInv, TypeOK
<1>. QED  BY <1>1, <1>2, <1>3, <1>4, Together

\* Nothing that an actor has in hand changes.
Still == UNCHANGED <<roles, started, used, locks, pc, locals, history>>

LEMMA ExpireType ==
  ASSUME TypeInv, NEW t \in TicketId, TicketExpires(t)
  PROVE  TypeInv' /\ Still
<1>1. Still
  BY DEF TicketExpires, Still
<1>2. TypeOK'
  BY DEF TicketExpires, TypeInv, TypeOK, locks, locals, streams, history
<1>3. \A a \in Actor : Equipped(a)'
  BY DEF TicketExpires, TypeInv, Equipped, Serving, locals
<1>. QED  BY <1>1, <1>2, <1>3 DEF TypeInv

\* A step of a request, a socket or both.
ActorStep(a) ==
  \/ Works(a)
  \/ a \in Request /\ \E s \in Subject, c \in Commands : Arrive(a, s, c)
  \/ /\ a \in Socket
     /\ \/ \E c \in Commands : Send(a, c)
        \/ \E t \in TicketId : RedeemTicket(a, t)
        \/ \E s \in Subject : OpenWithToken(a, s)
        \/ UseTicket(a) \/ Poll(a) \/ Disconnect(a)

LEMMA ActorType ==
  ASSUME TypeInv, NEW a \in Actor, ActorStep(a)
  PROVE  TypeInv' /\ Others(a)
<1>1. CASE Works(a)
  BY <1>1, WorksType
<1>2. CASE a \in Request /\ \E s \in Subject, c \in Commands : Arrive(a, s, c)
  BY <1>2, ArriveType
<1>3. ASSUME NEW c \in Commands, a \in Socket, Send(a, c) PROVE TypeInv' /\ Others(a)
  BY <1>3, SendType
<1>4. ASSUME NEW t \in TicketId, a \in Socket, RedeemTicket(a, t) PROVE TypeInv' /\ Others(a)
  BY <1>4, RedeemType
<1>5. ASSUME NEW s \in Subject, a \in Socket, OpenWithToken(a, s) PROVE TypeInv' /\ Others(a)
  BY <1>5, OpenType
<1>6. CASE a \in Socket /\ (UseTicket(a) \/ Poll(a) \/ Disconnect(a))
  BY <1>6, UseType, PollType, DisconnectType
<1>. QED  BY <1>1, <1>2, <1>3, <1>4, <1>5, <1>6 DEF ActorStep

LEMMA NextCases ==
  ASSUME [Next]_vars
  PROVE  \/ \E a \in Actor : ActorStep(a)
         \/ \E t \in TicketId : TicketExpires(t)
         \/ UNCHANGED vars
  BY DEF Next, ActorStep, Actor

LEMMA NextType ==
  ASSUME TypeInv, [Next]_vars
  PROVE  TypeInv'
<1>1. ASSUME NEW a \in Actor, ActorStep(a) PROVE TypeInv'
  BY <1>1, ActorType
<1>2. ASSUME NEW t \in TicketId, TicketExpires(t) PROVE TypeInv'
  BY <1>2, ExpireType
<1>3. CASE UNCHANGED vars
  BY <1>3 DEF vars, rows, locks, locals, streams, history, TypeInv, TypeOK, Equipped, Serving
<1>. QED  BY <1>1, <1>2, <1>3, NextCases

LEMMA InitType ==
  ASSUME Init
  PROVE  TypeInv
<1>1. roles \in [Subject -> Role \cup {NoOne}] /\ started \in BOOLEAN
  BY DEF Init
<1>2. /\ log \subseteq Entry /\ next \in Nat \ {0}
      /\ tickets \in [TicketId -> Ticket \cup {NoOne}]
      /\ used \subseteq TicketId /\ expired \subseteq TicketId
  BY DEF Init
<1>3. /\ locker \in Actor \cup {NoOne} /\ sharers \subseteq Actor
      /\ updater \in Actor \cup {NoOne} /\ owner \in Actor \cup {NoOne}
  BY DEF Init
<1>4. pc \in [Actor -> {"idle", "check", "run", "shut", "redeem", "open"}]
  BY DEF Init
<1>5. /\ cmd \in [Actor -> Command \cup {NoOne}] /\ caller \in [Actor -> Subject \cup {NoOne}]
      /\ admin \in [Actor -> BOOLEAN] /\ granted \in [Actor -> Role \cup {NoOne}]
  BY DEF Init
<1>6. at \in [Actor -> 0..5] /\ seq \in [Actor -> Nat] /\ using \in [Socket -> TicketId \cup {0}]
  BY DEF Init
<1>7. cursor \in [Socket -> Nat] /\ heard \in [Socket -> SUBSET Nat]
  BY DEF Init
<1>8. standing \in [Actor -> SUBSET (Role \cup {NoOne})] /\ late \in [Actor -> BOOLEAN]
  BY DEF Init
<1>9. opened \in [TicketId -> Nat] /\ requests \in Nat /\ kills \in Nat
  BY DEF Init
<1>10. \A a \in Actor : Equipped(a)
  BY DEF Init, Equipped, Serving
<1>. QED  BY <1>1, <1>2, <1>3, <1>4, <1>5, <1>6, <1>7, <1>8, <1>9, <1>10 DEF TypeInv, TypeOK

\* Every variable has its type, and every actor what it needs for its next step:
\* a transaction never runs past its last statement, and no socket opens with a
\* ticket that was not issued.
THEOREM TypeCorrect == Spec => []TypeOK
<1>1. Init => TypeInv
  BY InitType
<1>2. TypeInv /\ [Next]_vars => TypeInv'
  BY NextType
<1>3. TypeInv => TypeOK
  BY DEF TypeInv
<1>. QED  BY <1>1, <1>2, <1>3, PTL DEF Spec

(* What a step does for the actor that takes it *)

SameCommand(a) ==
  /\ cmd'[a] = cmd[a] /\ caller'[a] = caller[a] /\ admin'[a] = admin[a] /\ late'[a] = late[a]
  /\ standing'[a] = standing[a]

\* The project and what the others have been entitled to stay as they are.
Quiet(a) ==
  /\ UNCHANGED <<roles, started>>
  /\ \A b \in Actor \ {a} : standing'[b] = standing[b]

Idles(a) == Quiet(a) /\ ~Serving(a)'

Asks(a) ==
  /\ Quiet(a) /\ pc'[a] = "check"
  /\ late'[a] = started /\ standing'[a] = {roles[caller'[a]]}

Enters(a) ==
  /\ Quiet(a) /\ SameCommand(a) /\ pc[a] = "check" /\ pc'[a] = "run" /\ at'[a] = 1
  /\ ROLE_LEVEL[role_for(a)] >= ROLE_LEVEL[Needs(cmd[a])]

Moves(a) ==
  /\ Quiet(a) /\ SameCommand(a) /\ pc[a] = "run" /\ pc'[a] = "run" /\ at'[a] = at[a] + 1
  /\ Statement(a) # "commit"
  /\ Statement(a) = "read" => ~started
  /\ Statement(a) = "lock" => locker' = a
  /\ Statement(a) = "count" => ~(Demotes(cmd[a]) /\ LastOwner(cmd[a].target))
  /\ locker = a => locker' = a

Stays(a) ==
  Quiet(a) /\ SameCommand(a) /\ pc'[a] = pc[a] /\ at'[a] = at[a] /\ locker' = locker

LEMMA RollbackIdles ==
  ASSUME TypeInv, NEW a \in Actor, Rollback(a), UNCHANGED <<roles, started>>
  PROVE  Idles(a)
  BY DEF Rollback, Fail, Idles, Quiet, Serving, TypeInv, TypeOK

LEMMA AnswerIdles ==
  ASSUME TypeInv, NEW a \in Actor, Answer(a), UNCHANGED <<roles, started>>,
         standing' = [standing EXCEPT ![a] = {}]
  PROVE  Idles(a)
  BY DEF Answer, Idles, Quiet, Serving, TypeInv, TypeOK

LEMMA LockShape ==
  ASSUME TypeInv, NEW a \in Actor,
         \/ LockChallenge(a) \/ UpdateChallenge(a) \/ UpdateCoordinator(a)
         \/ InsertMessage(a) \/ InsertEvent(a)
  PROVE  Moves(a)
<1>1. pc[a] = "run" /\ Statement(a) \notin {"read", "count", "commit"} /\ Advance(a)
  BY DEF LockChallenge, UpdateChallenge, UpdateCoordinator, InsertMessage, InsertEvent, Runs,
         InTransaction
<1>2. UNCHANGED <<rows, pc, cmd, caller, admin, late, standing>>
  BY DEF LockChallenge, UpdateChallenge, UpdateCoordinator, InsertMessage, InsertEvent, history
<1>3. (Statement(a) = "lock" => locker' = a) /\ (locker = a => locker' = a)
  BY DEF LockChallenge, UpdateChallenge, UpdateCoordinator, InsertMessage, InsertEvent, Runs
<1>4. at'[a] = at[a] + 1
  BY <1>1 DEF Advance, TypeInv, TypeOK
<1>. QED  BY <1>1, <1>2, <1>3, <1>4 DEF Moves, Quiet, SameCommand, rows

LEMMA LookShape ==
  ASSUME TypeInv, NEW a \in Actor, CountOwners(a) \/ ReadDraft(a) \/ OwnCoordinator(a)
  PROVE  Idles(a) \/ Moves(a)
<1>1. pc[a] = "run" /\ Statement(a) \in {"count", "read", "own"} /\ UNCHANGED <<roles, started>>
  BY DEF CountOwners, ReadDraft, OwnCoordinator, Runs, InTransaction, rows
<1>2. CASE Rollback(a)
  BY <1>1, <1>2, RollbackIdles
<1>3. CASE Answer(a) /\ standing' = [standing EXCEPT ![a] = {}]
  BY <1>1, <1>3, AnswerIdles
<1>4. CASE Advance(a) /\ UNCHANGED <<locker, pc, cmd, caller, admin, late, standing>>
           /\ ~Rollback(a)
  <2>1. at'[a] = at[a] + 1
    BY <1>4 DEF Advance, TypeInv, TypeOK
  <2>2. Statement(a) = "read" => ~started
    BY <1>4 DEF CountOwners, ReadDraft, OwnCoordinator, Runs, Kickoff
  <2>3. Statement(a) = "count" => ~(Demotes(cmd[a]) /\ LastOwner(cmd[a].target))
    BY <1>4 DEF CountOwners, ReadDraft, OwnCoordinator, Runs
  <2>. QED  BY <1>1, <1>4, <2>1, <2>2, <2>3 DEF Moves, Quiet, SameCommand
<1>. QED  BY <1>2, <1>3, <1>4 DEF CountOwners, ReadDraft, OwnCoordinator, locks

LEMMA CheckShape ==
  ASSUME TypeInv, NEW a \in Actor, Check(a)
  PROVE  Idles(a) \/ Enters(a)
<1>1. UNCHANGED <<roles, started>> /\ pc[a] = "check"
  BY DEF Check, rows
<1>2. CASE Rollback(a)
  BY <1>1, <1>2, RollbackIdles
<1>3. CASE ROLE_LEVEL[role_for(a)] >= ROLE_LEVEL[Needs(cmd[a])]
  BY <1>1, <1>3 DEF Check, Enters, Quiet, SameCommand, TypeInv, TypeOK
<1>. QED  BY <1>2, <1>3 DEF Check

LEMMA SocketShape ==
  ASSUME TypeInv, NEW k \in Socket,
         \/ \E t \in TicketId : RedeemTicket(k, t)
         \/ \E s \in Subject : OpenWithToken(k, s)
         \/ UseTicket(k) \/ Poll(k) \/ Disconnect(k)
  PROVE  Idles(k) \/ Stays(k)
<1>1. k \in Actor
  BY DEF Actor
<1>2. CASE Poll(k)
  BY <1>2 DEF Poll, Stays, Quiet, SameCommand, rows, locks, locals, history
<1>3. CASE Disconnect(k)
  BY <1>1, <1>3 DEF Disconnect, Idles, Quiet, Serving, rows, history, TypeInv, TypeOK
<1>4. CASE UseTicket(k)
  BY <1>1, <1>4 DEF UseTicket, Opened, Idles, Quiet, Serving, TypeInv, TypeOK
<1>5. CASE \E s \in Subject : OpenWithToken(k, s)
  BY <1>1, <1>5 DEF OpenWithToken, Opened, Idles, Quiet, Serving, rows, history, TypeInv, TypeOK
<1>6. CASE \E t \in TicketId : RedeemTicket(k, t)
  BY <1>1, <1>6 DEF RedeemTicket, Idles, Quiet, Serving, rows, history, TypeInv, TypeOK
<1>. QED  BY <1>2, <1>3, <1>4, <1>5, <1>6

LEMMA ArriveShape ==
  ASSUME TypeInv, NEW r \in Request, NEW s \in Subject, NEW c \in Commands, Arrive(r, s, c)
  PROVE  Asks(r)
<1>1. r \in Actor
  BY DEF Actor
<1>. QED  BY <1>1 DEF Arrive, Ask, Asks, Quiet, rows, TypeInv, TypeOK

LEMMA SendShape ==
  ASSUME TypeInv, NEW k \in Socket, NEW c \in Commands, Send(k, c)
  PROVE  Idles(k) \/ Asks(k)
<1>1. k \in Actor /\ UNCHANGED <<roles, started, caller>>
  BY DEF Actor, Send, rows
<1>2. CASE Fail(k) /\ UNCHANGED standing
  BY <1>1, <1>2 DEF Fail, Idles, Quiet, Serving, TypeInv, TypeOK
<1>3. CASE Ask(k, c) /\ standing' = [standing EXCEPT ![k] = {roles[caller[k]]}]
  BY <1>1, <1>3 DEF Ask, Asks, Quiet, TypeInv, TypeOK
<1>. QED  BY <1>2, <1>3 DEF Send

LEMMA StepShape ==
  ASSUME TypeInv, NEW a \in Actor, ActorStep(a)
  PROVE  Idles(a) \/ Asks(a) \/ Enters(a) \/ Moves(a) \/ Stays(a) \/ Commit(a)
<1>1. CASE DrawSequence(a)
  BY <1>1 DEF DrawSequence, Stays, Quiet, SameCommand, locks, history
<1>2. CASE IssueTicket(a)
  BY <1>2, AnswerIdles DEF IssueTicket
<1>3. CASE BreakDeadlock(a) \/ Kill(a)
  BY <1>3, RollbackIdles DEF BreakDeadlock, Kill, rows
<1>4. CASE Check(a) \/ LockChallenge(a) \/ CountOwners(a) \/ OwnCoordinator(a) \/ ReadDraft(a)
           \/ UpdateCoordinator(a) \/ UpdateChallenge(a) \/ InsertMessage(a) \/ InsertEvent(a)
  BY <1>4, CheckShape, LockShape, LookShape
<1>5. CASE a \in Request /\ \E s \in Subject, c \in Commands : Arrive(a, s, c)
  BY <1>5, ArriveShape
<1>6. CASE a \in Socket /\ \E c \in Commands : Send(a, c)
  BY <1>6, SendShape
<1>7. CASE /\ a \in Socket
           /\ \/ \E t \in TicketId : RedeemTicket(a, t)
              \/ \E s \in Subject : OpenWithToken(a, s)
              \/ UseTicket(a) \/ Poll(a) \/ Disconnect(a)
  BY <1>7, SocketShape
<1>. QED  BY <1>1, <1>2, <1>3, <1>4, <1>5, <1>6, <1>7 DEF ActorStep, Works

(* Owners *)

\* A change of a member holds the project's row from its first statement on, and
\* once it has counted it takes away no last owner.
Secured(a) ==
  pc[a] = "run" /\ OfMember(cmd[a]) =>
    /\ at[a] > 1 => locker = a
    /\ at[a] > 2 /\ Demotes(cmd[a]) => Owners # {cmd[a].target}

OwnerInv == Owners # {} /\ \A a \in Actor : Secured(a)

LEMMA MemberStatements ==
  ASSUME TypeInv, NEW a \in Actor, pc[a] = "run", OfMember(cmd[a])
  PROVE  /\ at[a] \in 1..4
         /\ at[a] = 1 => Statement(a) = "lock"
         /\ at[a] = 2 => Statement(a) = "count"
         /\ Statement(a) = "commit" => at[a] = 4
<1>1. at[a] \in 1..Len(Statements(cmd[a])) /\ Statements(cmd[a]) = OnMember
  BY DEF TypeInv, Equipped, OfMember, Statements
<1>2. Len(OnMember) = 4
  BY DEF OnMember
<1>. QED  BY <1>1, <1>2 DEF Statement, OnMember

LEMMA SecuredOthers ==
  ASSUME TypeInv, OwnerInv, NEW a \in Actor, Others(a), roles' = roles, NEW b \in Actor \ {a}
  PROVE  Secured(b)'
<1>1. Owners' = Owners
  BY DEF Owners
<1>. QED  BY <1>1 DEF OwnerInv, Others, Secured

LEMMA MovesSecured ==
  ASSUME TypeInv, OwnerInv, NEW a \in Actor, Moves(a)
  PROVE  Secured(a)'
<1> SUFFICES ASSUME OfMember(cmd[a])
             PROVE  Secured(a)'
  BY DEF Moves, SameCommand, Secured
<1>1. /\ pc[a] = "run" /\ cmd'[a] = cmd[a] /\ at'[a] = at[a] + 1
      /\ Owners' = Owners
  BY DEF Moves, SameCommand, Quiet, Owners
<1>2. at[a] \in 1..4
  BY <1>1, MemberStatements
<1>3. locker' = a
  BY <1>1, <1>2, MemberStatements DEF Moves, OwnerInv, Secured
<1>4. at'[a] > 2 /\ Demotes(cmd[a]) => Owners # {cmd[a].target}
  <2>1. CASE at[a] = 1
    BY <1>1, <2>1
  <2>2. CASE at[a] = 2
    BY <1>1, <2>2, MemberStatements DEF Moves, LastOwner
  <2>3. CASE at[a] > 2
    BY <1>1, <2>3 DEF OwnerInv, Secured
  <2>. QED  BY <1>2, <2>1, <2>2, <2>3
<1>. QED  BY <1>1, <1>3, <1>4 DEF Secured

LEMMA CommitOwners ==
  ASSUME TypeInv, OwnerInv, NEW a \in Actor, Commit(a)
  PROVE  OwnerInv'
<1>1. pc[a] = "run" /\ Statement(a) = "commit" /\ Others(a) /\ cmd[a] \in Command
  BY CommitType DEF Commit, Runs, InTransaction, TypeInv, Equipped, Serving
<1>2. pc'[a] # "run" /\ Secured(a)'
  BY DEF Commit, Answer, TypeInv, TypeOK, Secured
<1>3. CASE ~OfMember(cmd[a])
  <2>1. roles' = roles /\ Owners' = Owners
    BY <1>3 DEF Commit, Owners
  <2>. QED  BY <1>1, <1>2, <2>1, SecuredOthers DEF OwnerInv
<1>4. CASE OfMember(cmd[a])
  <2> DEFINE c == cmd[a]
  <2>1. at[a] = 4 /\ locker = a /\ (Demotes(c) => Owners # {c.target})
    BY <1>1, <1>4, MemberStatements DEF OwnerInv, Secured
  <2>2. roles' = [roles EXCEPT ![c.target] = Outcome(c)]
    BY <1>4 DEF Commit
  <2>3. Owners' # {}
    <3>1. CASE Demotes(c)
      <4>1. PICK s \in Owners : s # c.target
        BY <2>1, <3>1 DEF OwnerInv
      <4>2. roles'[s] = "OWNER"
        BY <2>2, <4>1 DEF Owners, TypeInv, TypeOK
      <4>. QED  BY <4>1, <4>2 DEF Owners
    <3>2. CASE ~Demotes(c)
      <4>1. Outcome(c) = "OWNER"
        BY <1>4, <3>2 DEF Demotes, Outcome, OfMember
      <4>2. c.target \in Subject
        BY <1>1, OutcomeType
      <4>. QED  BY <2>2, <4>1, <4>2 DEF Owners, TypeInv, TypeOK
    <3>. QED  BY <3>1, <3>2
  <2>4. ASSUME NEW b \in Actor \ {a} PROVE Secured(b)'
    <3>1. pc[b] = "run" /\ OfMember(cmd[b]) => ~(at[b] > 1)
      BY <2>1 DEF OwnerInv, Secured
    <3>2. pc'[b] = pc[b] /\ cmd'[b] = cmd[b] /\ at'[b] = at[b] /\ at[b] \in 0..5
      BY <1>1 DEF Others, TypeInv, TypeOK
    <3>. QED  BY <3>1, <3>2 DEF Secured
  <2>. QED  BY <1>2, <2>3, <2>4 DEF OwnerInv
<1>. QED  BY <1>3, <1>4

LEMMA NextOwners ==
  ASSUME TypeInv, OwnerInv, [Next]_vars
  PROVE  OwnerInv'
<1>1. ASSUME NEW a \in Actor, ActorStep(a) PROVE OwnerInv'
  <2>1. Others(a)
    BY <1>1, ActorType
  <2>2. CASE Commit(a)
    BY <2>2, CommitOwners
  <2>3. CASE Idles(a) \/ Asks(a) \/ Enters(a) \/ Moves(a) \/ Stays(a)
    <3>1. roles' = roles /\ Owners' = Owners
      BY <2>3 DEF Idles, Asks, Enters, Moves, Stays, Quiet, Owners
    <3>2. Secured(a)'
      <4>1. CASE Moves(a)
        BY <4>1, MovesSecured
      <4>2. CASE Stays(a)
        BY <3>1, <4>2 DEF Stays, SameCommand, Secured, OwnerInv
      <4>3. CASE Idles(a) \/ Asks(a) \/ Enters(a)
        BY <4>3 DEF Idles, Asks, Enters, Secured, Serving
      <4>. QED  BY <2>3, <4>1, <4>2, <4>3
    <3>. QED  BY <2>1, <3>1, <3>2, SecuredOthers DEF OwnerInv
  <2>. QED  BY <1>1, <2>2, <2>3, StepShape
<1>2. CASE Still \/ UNCHANGED vars
  BY <1>2 DEF Still, vars, rows, locks, locals, OwnerInv, Owners, Secured
<1>. QED  BY <1>1, <1>2, ExpireType, NextCases

\* However many demotions and removals run at once, an owner remains.
THEOREM AnOwnerRemains == Spec => []OwnerRemains
<1>1. Init => TypeInv /\ OwnerInv
  <2>1. ASSUME Init PROVE OwnerInv
    BY <2>1 DEF Init, OwnerInv, Secured
  <2>. QED  BY <2>1, InitType
<1>2. TypeInv /\ OwnerInv /\ [Next]_vars => TypeInv' /\ OwnerInv'
  BY NextType, NextOwners
<1>3. OwnerInv => OwnerRemains
  BY DEF OwnerInv, OwnerRemains
<1>. QED  BY <1>1, <1>2, <1>3, PTL DEF Spec

(* Roles and the kickoff *)

\* A request is entitled to what it does by a role its caller has had since.
Entitled(a) ==
  /\ Serving(a) => roles[caller[a]] \in standing[a]
  /\ pc[a] = "run" =>
       admin[a] \/ \E r \in standing[a] : ROLE_LEVEL[r] >= ROLE_LEVEL[Needs(cmd[a])]

\* A draft that arrived after the start gets no further than its first statement.
Settled(a) ==
  /\ Serving(a) /\ late[a] => started
  /\ pc[a] = "run" /\ cmd[a].kind = "draft" /\ at[a] > 1 => ~late[a]

RequestInv == \A a \in Actor : Entitled(a) /\ Settled(a)

LEMMA RequestOthers ==
  ASSUME TypeInv, RequestInv, NEW a \in Actor, Others(a), Quiet(a), NEW b \in Actor \ {a}
  PROVE  Entitled(b)' /\ Settled(b)'
<1>1. /\ pc'[b] = pc[b] /\ cmd'[b] = cmd[b] /\ caller'[b] = caller[b] /\ admin'[b] = admin[b]
      /\ at'[b] = at[b] /\ late'[b] = late[b]
      /\ standing'[b] = standing[b] /\ roles' = roles /\ started' = started
  BY DEF Others, Quiet
<1>2. Entitled(b) /\ Settled(b)
  BY DEF RequestInv
<1>3. Entitled(b)'
  BY <1>1, <1>2 DEF Entitled, Serving
<1>4. Settled(b)'
  BY <1>1, <1>2 DEF Settled, Serving
<1>. QED  BY <1>3, <1>4

LEMMA EntersEntitled ==
  ASSUME TypeInv, RequestInv, NEW a \in Actor, Enters(a)
  PROVE  Entitled(a)' /\ Settled(a)'
<1>1. /\ Serving(a) /\ Entitled(a) /\ Settled(a) /\ roles' = roles /\ started' = started
      /\ pc'[a] = "run" /\ at'[a] = 1
      /\ cmd'[a] = cmd[a] /\ caller'[a] = caller[a] /\ admin'[a] = admin[a]
      /\ late'[a] = late[a] /\ standing'[a] = standing[a]
  BY DEF Enters, Quiet, SameCommand, RequestInv, Serving
<1>2. ROLE_LEVEL[role_for(a)] >= ROLE_LEVEL[Needs(cmd[a])]
  BY DEF Enters
<1>3. CASE admin[a]
  BY <1>1, <1>3 DEF Entitled, Settled, Serving
<1>4. CASE ~admin[a]
  <2>1. role_for(a) = roles[caller[a]]
    BY <1>4 DEF role_for
  <2>2. role_for(a) \in standing[a]
    BY <1>1, <2>1 DEF Entitled
  <2>3. Entitled(a)'
    BY <1>1, <1>2, <2>1, <2>2 DEF Entitled, Serving
  <2>. QED  BY <1>1, <2>3 DEF Settled, Serving
<1>. QED  BY <1>3, <1>4 DEF TypeInv, TypeOK

LEMMA MovesEntitled ==
  ASSUME TypeInv, RequestInv, NEW a \in Actor, Moves(a)
  PROVE  Entitled(a)' /\ Settled(a)'
<1>1. /\ Serving(a) /\ Entitled(a) /\ Settled(a) /\ roles' = roles /\ started' = started
      /\ pc[a] = "run" /\ pc'[a] = "run" /\ at'[a] = at[a] + 1
      /\ cmd'[a] = cmd[a] /\ caller'[a] = caller[a] /\ admin'[a] = admin[a]
      /\ late'[a] = late[a] /\ standing'[a] = standing[a]
  BY DEF Moves, Quiet, SameCommand, RequestInv, Serving
<1>2. Entitled(a)'
  BY <1>1 DEF Entitled, Serving
<1>3. cmd[a].kind = "draft" => ~late[a]
  <2> SUFFICES ASSUME cmd[a].kind = "draft" PROVE ~late[a]
    OBVIOUS
  <2>1. at[a] \in 1..Len(Statements(cmd[a]))
    BY <1>1 DEF TypeInv, Equipped
  <2>2. CASE at[a] = 1
    <3>1. Statement(a) = "read"
      BY <2>2 DEF Statement, Statements
    <3>. QED  BY <1>1, <3>1 DEF Moves, Settled
  <2>3. CASE at[a] > 1
    BY <1>1, <2>3 DEF Settled
  <2>. QED  BY <2>1, <2>2, <2>3
<1>. QED  BY <1>1, <1>2, <1>3 DEF Settled, Serving

LEMMA CommitEntitled ==
  ASSUME TypeInv, RequestInv, NEW a \in Actor, Commit(a)
  PROVE  RequestInv'
<1>1. ~Serving(a)' /\ Entitled(a)' /\ Settled(a)'
  BY DEF Commit, Answer, TypeInv, TypeOK, Serving, Entitled, Settled
<1>2. ASSUME NEW b \in Actor \ {a} PROVE Entitled(b)' /\ Settled(b)'
  <2>1. /\ pc'[b] = pc[b] /\ cmd'[b] = cmd[b] /\ caller'[b] = caller[b] /\ admin'[b] = admin[b]
        /\ at'[b] = at[b] /\ late'[b] = late[b] /\ (started => started')
    BY CommitType DEF Others, Commit
  <2>2. Serving(b) => standing'[b] = standing[b] \cup {roles'[caller[b]]}
    BY DEF Commit, Serving
  <2>3. Entitled(b) /\ Settled(b)
    BY DEF RequestInv
  <2>4. Entitled(b)'
    BY <2>1, <2>2, <2>3 DEF Entitled, Serving
  <2>. QED  BY <2>1, <2>3, <2>4 DEF Settled, Serving
<1>. QED  BY <1>1, <1>2 DEF RequestInv

LEMMA NextRequests ==
  ASSUME TypeInv, RequestInv, [Next]_vars
  PROVE  RequestInv'
<1>1. ASSUME NEW a \in Actor, ActorStep(a) PROVE RequestInv'
  <2>1. Others(a)
    BY <1>1, ActorType
  <2>2. CASE Commit(a)
    BY <2>2, CommitEntitled
  <2>3. CASE Idles(a) \/ Asks(a) \/ Enters(a) \/ Moves(a) \/ Stays(a)
    <3>1. Quiet(a)
      BY <2>3 DEF Idles, Asks, Enters, Moves, Stays
    <3>2. Entitled(a)' /\ Settled(a)'
      <4>1. CASE Enters(a) \/ Moves(a)
        BY <4>1, EntersEntitled, MovesEntitled
      <4>2. CASE Stays(a)
        <5>1. Entitled(a)'
          BY <4>2 DEF Stays, SameCommand, Quiet, RequestInv, Entitled, Serving
        <5>2. Settled(a)'
          BY <4>2 DEF Stays, SameCommand, Quiet, RequestInv, Settled, Serving
        <5>. QED  BY <5>1, <5>2
      <4>3. CASE Idles(a)
        BY <4>3 DEF Idles, Serving, Entitled, Settled
      <4>4. CASE Asks(a)
        BY <4>4 DEF Asks, Quiet, Serving, Entitled, Settled
      <4>. QED  BY <2>3, <4>1, <4>2, <4>3, <4>4
    <3>. QED  BY <2>1, <3>1, <3>2, RequestOthers DEF RequestInv
  <2>. QED  BY <1>1, <2>2, <2>3, StepShape
<1>2. CASE Still \/ UNCHANGED vars
  BY <1>2 DEF Still, vars, rows, locks, locals, history, RequestInv, Entitled, Settled, Serving
<1>. QED  BY <1>1, <1>2, ExpireType, NextCases

LEMMA RequestsSpec == Spec => []RequestInv
<1>1. Init => TypeInv /\ RequestInv
  <2>1. ASSUME Init PROVE RequestInv
    BY <2>1 DEF Init, RequestInv, Entitled, Settled, Serving
  <2>. QED  BY <2>1, InitType
<1>2. TypeInv /\ RequestInv /\ [Next]_vars => TypeInv' /\ RequestInv'
  BY NextType, NextRequests
<1>. QED  BY <1>1, <1>2, PTL DEF Spec

\* Whatever a transaction does, its caller had the role for since it arrived.
THEOREM ActionsByRole == Spec => []ActsByRole
<1>1. RequestInv => ActsByRole
  BY DEF RequestInv, Entitled, ActsByRole, InTransaction
<1>. QED  BY <1>1, RequestsSpec, PTL

\* No draft that arrives after the first start gets past the check.
THEOREM KickoffIsSettled == Spec => []KickoffSettled
<1>1. RequestInv => KickoffSettled
  BY DEF RequestInv, Settled, KickoffSettled, InTransaction
<1>. QED  BY <1>1, RequestsSpec, PTL

(* Tickets *)

\* A ticket that is being redeemed is redeemed by one socket, and is not used yet.
TicketInv ==
  /\ \A t \in TicketId : opened[t] <= 1 /\ (t \notin used => opened[t] = 0)
  /\ \A k \in Socket : pc[k] = "redeem" =>
       /\ using[k] \notin used
       /\ \A l \in Socket : pc[l] = "redeem" /\ using[l] = using[k] => l = k

LEMMA WorksTickets ==
  ASSUME TypeInv, NEW a \in Actor, Works(a)
  PROVE  UNCHANGED <<used, opened>> /\ pc'[a] # "redeem"
<1>1. CASE Rollback(a) /\ UNCHANGED <<used, opened>>
  BY <1>1 DEF Rollback, Fail, TypeInv, TypeOK
<1>2. CASE Answer(a) /\ UNCHANGED <<used, opened>>
  BY <1>2 DEF Answer, TypeInv, TypeOK
<1>3. CASE UNCHANGED <<used, opened, pc>> /\ pc[a] = "run"
  BY <1>3
<1>4. CASE Check(a)
  BY <1>1, <1>4 DEF Check, rows, TypeInv, TypeOK
<1>5. CASE LockChallenge(a) \/ UpdateCoordinator(a) \/ UpdateChallenge(a) \/ InsertMessage(a)
           \/ DrawSequence(a) \/ InsertEvent(a)
  BY <1>3, <1>5 DEF LockChallenge, UpdateCoordinator, UpdateChallenge, InsertMessage,
                    DrawSequence, InsertEvent, Runs, InTransaction, rows, history
<1>6. CASE CountOwners(a) \/ OwnCoordinator(a) \/ ReadDraft(a)
  BY <1>1, <1>2, <1>3, <1>6 DEF CountOwners, OwnCoordinator, ReadDraft, Runs, InTransaction, rows
<1>7. CASE Commit(a) \/ BreakDeadlock(a) \/ IssueTicket(a) \/ Kill(a)
  BY <1>1, <1>2, <1>7 DEF Commit, BreakDeadlock, IssueTicket, Kill, rows
<1>. QED  BY <1>4, <1>5, <1>6, <1>7 DEF Works

LEMMA PlainTickets ==
  ASSUME TypeInv, TicketInv, NEW a \in Actor, Others(a), UNCHANGED <<used, opened>>,
         pc'[a] # "redeem"
  PROVE  TicketInv'
<1>1. \A k \in Socket : pc'[k] = "redeem" => k # a /\ pc[k] = "redeem" /\ using'[k] = using[k]
  BY DEF Others, Actor
<1>. QED  BY <1>1 DEF TicketInv

LEMMA RedeemTickets ==
  ASSUME TypeInv, TicketInv, NEW k \in Socket, NEW t \in TicketId, RedeemTicket(k, t)
  PROVE  TicketInv'
<1>1. UNCHANGED <<used, opened>> /\ t \notin used /\ pc[k] = "shut"
  BY DEF RedeemTicket, rows, history
<1>2. using' = [using EXCEPT ![k] = t] /\ pc' = [pc EXCEPT ![k] = "redeem"] /\ k \in Actor
  BY DEF RedeemTicket, Actor
<1>3. \A l \in Socket : pc[l] = "redeem" => using[l] # t
  BY DEF RedeemTicket, TicketFree
<1>4. \A l \in Socket \ {k} : using'[l] = using[l] /\ pc'[l] = pc[l]
  BY <1>2 DEF TypeInv, TypeOK, Actor
<1>5. using'[k] = t
  BY <1>2 DEF TypeInv, TypeOK
<1>. QED  BY <1>1, <1>3, <1>4, <1>5 DEF TicketInv

LEMMA UseTickets ==
  ASSUME TypeInv, TicketInv, NEW k \in Socket, UseTicket(k)
  PROVE  TicketInv'
<1> DEFINE t == using[k]
<1>1. pc[k] = "redeem" /\ t \in TicketId /\ t \notin used /\ opened[t] = 0
  BY DEF UseTicket, TypeInv, Equipped, TicketInv, Actor
<1>2. used' = used \cup {t} /\ opened' = [opened EXCEPT ![t] = @ + 1]
  BY DEF UseTicket
<1>3. Others(k) /\ pc'[k] = "open"
  <2>1. Others(k) /\ Opened(k)
    BY UseType DEF UseTicket
  <2>. QED  BY <2>1, OpenedType DEF TypeInv, TypeOK
<1>4. \A u \in TicketId : opened'[u] <= 1 /\ (u \notin used' => opened'[u] = 0)
  BY <1>1, <1>2 DEF TicketInv, TypeInv, TypeOK
<1>5. \A l \in Socket : pc'[l] = "redeem" =>
        l # k /\ pc[l] = "redeem" /\ using'[l] = using[l] /\ using[l] # t
  BY <1>1, <1>3 DEF Others, Actor, TicketInv
<1>. QED  BY <1>2, <1>4, <1>5 DEF TicketInv

LEMMA NextTickets ==
  ASSUME TypeInv, TicketInv, [Next]_vars
  PROVE  TicketInv'
<1>1. ASSUME NEW a \in Actor, ActorStep(a) PROVE TicketInv'
  <2>1. Others(a)
    BY <1>1, ActorType
  <2>2. CASE Works(a)
    BY <2>1, <2>2, WorksTickets, PlainTickets
  <2>3. ASSUME NEW s \in Subject, NEW c \in Commands, a \in Request, Arrive(a, s, c)
        PROVE  TicketInv'
    BY <2>1, <2>3, PlainTickets DEF Arrive, Ask, rows, TypeInv, TypeOK
  <2>4. ASSUME NEW c \in Commands, a \in Socket, Send(a, c)
        PROVE  TicketInv'
    BY <2>1, <2>4, PlainTickets DEF Send, Ask, Fail, rows, TypeInv, TypeOK
  <2>5. ASSUME NEW t \in TicketId, a \in Socket, RedeemTicket(a, t)
        PROVE  TicketInv'
    BY <2>5, RedeemTickets
  <2>6. ASSUME NEW s \in Subject, a \in Socket, OpenWithToken(a, s)
        PROVE  TicketInv'
    BY <2>1, <2>6, PlainTickets, OpenedType DEF OpenWithToken, rows, history, TypeInv, TypeOK
  <2>7. CASE a \in Socket /\ UseTicket(a)
    BY <2>7, UseTickets
  <2>8. CASE a \in Socket /\ (Poll(a) \/ Disconnect(a))
    BY <2>1, <2>8, PlainTickets DEF Poll, Disconnect, rows, history, TypeInv, TypeOK
  <2>. QED  BY <1>1, <2>2, <2>3, <2>4, <2>5, <2>6, <2>7, <2>8 DEF ActorStep
<1>2. CASE Still \/ UNCHANGED vars
  BY <1>2 DEF Still, vars, rows, locals, history, TicketInv
<1>. QED  BY <1>1, <1>2, ExpireType, NextCases

\* A live ticket opens one socket at most, whichever replicas it is presented to.
THEOREM TicketsOpenOnce == Spec => []TicketOnce
<1>1. Init => TypeInv /\ TicketInv
  <2>1. ASSUME Init PROVE TicketInv
    <3>1. \A k \in Socket : pc[k] = "shut"
      BY <2>1 DEF Init, Actor
    <3>. QED  BY <2>1, <3>1 DEF Init, TicketInv
  <2>. QED  BY <2>1, InitType
<1>2. TypeInv /\ TicketInv /\ [Next]_vars => TypeInv' /\ TicketInv'
  BY NextType, NextTickets
<1>3. TicketInv => TicketOnce
  BY DEF TicketInv, TicketOnce
<1>. QED  BY <1>1, <1>2, <1>3, PTL DEF Spec

(* Locks *)

\* Who holds a lock is in a transaction, past the statement that took it.
Holds(a) ==
  /\ locker = a => pc[a] = "run" /\ OfMember(cmd[a]) /\ at[a] > 1
  /\ a \in sharers => pc[a] = "run" /\ Statement(a) \in {"event", "commit"}
  /\ updater = a => pc[a] = "run" /\ cmd[a].kind \in {"act", "draft"} /\ at[a] > 2
  /\ owner = a => /\ pc[a] = "run"
                  /\ \/ cmd[a].kind = "act" /\ at[a] > 1
                     \/ cmd[a].kind = "draft" /\ at[a] > 3

LockInv == \A a \in Actor : Holds(a)

\* The locks of the others.
LocksOfOthers(a) ==
  \A b \in Actor \ {a} :
    /\ locker' = b <=> locker = b
    /\ b \in sharers' <=> b \in sharers
    /\ updater' = b <=> updater = b
    /\ owner' = b <=> owner = b

LEMMA HoldsOthers ==
  ASSUME TypeInv, LockInv, NEW a \in Actor, Others(a), LocksOfOthers(a), NEW b \in Actor \ {a}
  PROVE  Holds(b)'
<1>1. /\ pc'[b] = pc[b] /\ cmd'[b] = cmd[b] /\ at'[b] = at[b] /\ Statement(b)' = Statement(b)
  BY DEF Others, Statement
<1>2. /\ locker' = b <=> locker = b
      /\ b \in sharers' <=> b \in sharers
      /\ updater' = b <=> updater = b
      /\ owner' = b <=> owner = b
  BY DEF LocksOfOthers
<1>. QED  BY <1>1, <1>2 DEF Holds, LockInv

LEMMA ReleaseHolds ==
  ASSUME TypeInv, NEW a \in Actor, Release(a)
  PROVE  Holds(a)' /\ LocksOfOthers(a)
<1>1. locker' # a /\ a \notin sharers' /\ updater' # a /\ owner' # a
  BY TeamAssumption DEF Release, TeamAssumption
<1>2. LocksOfOthers(a)
  BY TeamAssumption DEF Release, LocksOfOthers, TeamAssumption
<1>. QED  BY <1>1, <1>2 DEF Holds

\* An actor that is in no transaction holds nothing.
LEMMA OutsideHolds ==
  ASSUME TypeInv, LockInv, NEW a \in Actor, pc[a] # "run", UNCHANGED locks
  PROVE  Holds(a)' /\ LocksOfOthers(a)
  BY DEF LockInv, Holds, LocksOfOthers, locks

\* The statements of each kind, by their place.
LEMMA StatementPlaces ==
  ASSUME NEW c \in Command, NEW i \in 1..Len(Statements(c))
  PROVE  LET statement == Statements(c)[i] IN
         /\ statement = "lock" => OfMember(c)
         /\ statement = "own" => c.kind = "act" /\ i = 1
         /\ statement = "coordinator" => c.kind = "draft" /\ i = 3
         /\ statement = "challenge" => c.kind \in {"act", "draft"} /\ i = 2
         /\ statement = "inbox" => Statements(c)[i + 1] = "event"
         /\ statement = "event" => Statements(c)[i + 1] = "commit"
         /\ statement \in {"event", "commit"} /\ c.kind \in {"act", "draft"} => i > 2
         /\ statement \in {"event", "commit"} /\ c.kind = "draft" => i > 3
         /\ statement \in {"event", "commit"} /\ OfMember(c) => i > 2
<1>1. CASE c.kind \in {"set", "remove"}
  BY <1>1 DEF Statements, OnMember, OfMember
<1>2. CASE c.kind = "act"
  BY <1>2 DEF Statements, OfMember
<1>3. CASE c.kind = "draft"
  BY <1>3 DEF Statements, OfMember
<1>4. CASE c.kind = "steer"
  BY <1>4 DEF Statements, OfMember
<1>5. CASE c.kind = "ticket"
  BY <1>5 DEF Statements, OfMember
<1>. QED  BY <1>1, <1>2, <1>3, <1>4, <1>5 DEF Command, Kind

LEMMA Place ==
  ASSUME TypeInv, NEW a \in Actor, pc[a] = "run"
  PROVE  cmd[a] \in Command /\ at[a] \in 1..Len(Statements(cmd[a])) /\ at[a] \in Nat
  BY DEF TypeInv, Equipped, Serving

\* A statement that takes a lock, if it takes one.
LEMMA AdvanceHolds ==
  ASSUME TypeInv, LockInv, NEW a \in Actor, pc[a] = "run", Advance(a), UNCHANGED <<pc, cmd>>,
         locker' = locker \/ (Statement(a) = "lock" /\ locker = NoOne /\ locker' = a),
         sharers' = sharers \/ (Statement(a) \in {"inbox", "event"} /\ sharers' = sharers \cup {a}),
         updater' = updater \/ (Statement(a) = "challenge" /\ updater = NoOne /\ updater' = a),
         owner' = owner \/ (Statement(a) \in {"own", "coordinator"} /\ owner = NoOne /\ owner' = a),
         a \in sharers => Statement(a) = "event"
  PROVE  Holds(a)' /\ LocksOfOthers(a)
<1>1. cmd[a] \in Command /\ at[a] \in 1..Len(Statements(cmd[a])) /\ at[a] \in Nat
  BY Place
<1>2. at'[a] = at[a] + 1 /\ Statement(a)' = Statements(cmd[a])[at[a] + 1]
  BY DEF Advance, Statement, TypeInv, TypeOK
<1>3. Statement(a) = Statements(cmd[a])[at[a]] /\ Holds(a)
  BY DEF Statement, LockInv
<1>4. LocksOfOthers(a)
  BY TeamAssumption DEF LocksOfOthers, TeamAssumption
<1>5. locker' = a => OfMember(cmd[a]) /\ at'[a] > 1
  BY <1>1, <1>2, <1>3, StatementPlaces DEF Holds
<1>6. a \in sharers' => Statement(a)' \in {"event", "commit"}
  BY <1>1, <1>2, <1>3, StatementPlaces
<1>7. updater' = a => cmd[a].kind \in {"act", "draft"} /\ at'[a] > 2
  BY <1>1, <1>2, <1>3, StatementPlaces DEF Holds
<1>8. owner' = a => \/ cmd[a].kind = "act" /\ at'[a] > 1
                    \/ cmd[a].kind = "draft" /\ at'[a] > 3
  BY <1>1, <1>2, <1>3, StatementPlaces DEF Holds
<1>. QED  BY <1>4, <1>5, <1>6, <1>7, <1>8 DEF Holds

LEMMA WorksHolds ==
  ASSUME TypeInv, LockInv, NEW a \in Actor, Works(a)
  PROVE  Holds(a)' /\ LocksOfOthers(a)
<1>1. CASE Release(a)
  BY <1>1, ReleaseHolds
<1>2. CASE pc[a] # "run" /\ UNCHANGED locks
  BY <1>2, OutsideHolds
<1>3. ASSUME pc[a] = "run", Advance(a), UNCHANGED <<pc, cmd>>,
             locker' = locker \/ (Statement(a) = "lock" /\ locker = NoOne /\ locker' = a),
             sharers' = sharers \/ (Statement(a) \in {"inbox", "event"} /\ sharers' = sharers \cup {a}),
             updater' = updater \/ (Statement(a) = "challenge" /\ updater = NoOne /\ updater' = a),
             owner' = owner \/ (Statement(a) \in {"own", "coordinator"} /\ owner = NoOne /\ owner' = a),
             Statement(a) # "commit"
      PROVE  Holds(a)' /\ LocksOfOthers(a)
  <2>1. a \in sharers => Statement(a) = "event"
    BY <1>3 DEF LockInv, Holds
  <2>. QED  BY <1>3, <2>1, AdvanceHolds
<1>4. CASE LockChallenge(a) \/ UpdateCoordinator(a) \/ UpdateChallenge(a) \/ InsertMessage(a)
           \/ InsertEvent(a)
  BY <1>3, <1>4 DEF LockChallenge, LockFree, UpdateCoordinator, UpdateChallenge, InsertMessage,
                    InsertEvent, Runs, InTransaction
<1>5. CASE CountOwners(a) \/ OwnCoordinator(a) \/ ReadDraft(a)
  BY <1>1, <1>3, <1>5 DEF CountOwners, OwnCoordinator, ReadDraft, Runs, InTransaction, locks,
                          Rollback, Leave
<1>6. CASE DrawSequence(a)
  BY <1>6 DEF DrawSequence, LockInv, Holds, LocksOfOthers, Statement, locks
<1>7. CASE Commit(a) \/ BreakDeadlock(a) \/ IssueTicket(a) \/ Kill(a)
  BY <1>1, <1>7 DEF Commit, BreakDeadlock, IssueTicket, Kill, Rollback, Leave
<1>8. CASE Check(a)
  <2>1. CASE Release(a)
    BY <2>1, <1>1
  <2>2. CASE UNCHANGED locks
    BY <1>2, <1>8, <2>2 DEF Check
  <2>. QED  BY <1>8, <2>1, <2>2 DEF Check, Rollback, Leave
<1>. QED  BY <1>4, <1>5, <1>6, <1>7, <1>8 DEF Works

LEMMA ActorHolds ==
  ASSUME TypeInv, LockInv, NEW a \in Actor, ActorStep(a)
  PROVE  Holds(a)' /\ LocksOfOthers(a)
<1>1. CASE Works(a)
  BY <1>1, WorksHolds
<1>2. CASE a \in Request /\ \E s \in Subject, c \in Commands : Arrive(a, s, c)
  BY <1>2, OutsideHolds DEF Arrive
<1>3. CASE a \in Socket /\ \E c \in Commands : Send(a, c)
  BY <1>3, OutsideHolds DEF Send
<1>4. CASE a \in Socket /\ \E t \in TicketId : RedeemTicket(a, t)
  BY <1>4, OutsideHolds DEF RedeemTicket
<1>5. CASE a \in Socket /\ \E s \in Subject : OpenWithToken(a, s)
  BY <1>5, OutsideHolds DEF OpenWithToken
<1>6. CASE a \in Socket /\ (UseTicket(a) \/ Poll(a) \/ Disconnect(a))
  BY <1>6, OutsideHolds DEF UseTicket, Poll, Disconnect
<1>. QED  BY <1>1, <1>2, <1>3, <1>4, <1>5, <1>6 DEF ActorStep

LEMMA NextLocks ==
  ASSUME TypeInv, LockInv, [Next]_vars
  PROVE  LockInv'
<1>1. ASSUME NEW a \in Actor, ActorStep(a) PROVE LockInv'
  BY <1>1, ActorType, ActorHolds, HoldsOthers DEF LockInv
<1>2. CASE Still \/ UNCHANGED vars
  BY <1>2 DEF Still, vars, rows, locks, locals, LockInv, Holds, Statement
<1>. QED  BY <1>1, <1>2, ExpireType, NextCases

\* Whoever holds FOR UPDATE can go on, and whoever has referred to the project.
LEMMA HoldersGoOn ==
  ASSUME TypeInv, LockInv, NEW a \in Actor,
         locker = a \/ (locker = NoOne /\ a \in sharers)
  PROVE  InTransaction(a) /\ ~Waits(a)
<1>1. pc[a] = "run" /\ Holds(a) /\ MayRefer(a)
  BY DEF LockInv, Holds, MayRefer
<1>2. cmd[a] \in Command /\ at[a] \in 1..Len(Statements(cmd[a])) /\ at[a] \in Nat
  BY <1>1, Place
<1>3. CASE locker = a
  <2>1. OfMember(cmd[a]) /\ at[a] \in {2, 3, 4}
    BY <1>1, <1>3, MemberStatements DEF Holds
  <2>2. Statements(cmd[a]) = OnMember
    BY <2>1 DEF OfMember, Statements
  <2>3. Statement(a) \in {"count", "event", "commit"}
    BY <2>1, <2>2 DEF Statement, OnMember
  <2>. QED  BY <1>1, <2>3 DEF Waits, Runs, InTransaction
<1>4. CASE locker = NoOne /\ a \in sharers
  BY <1>1, <1>4 DEF Holds, Waits, Runs, InTransaction
<1>. QED  BY <1>3, <1>4

\* Whoever has updated the project's row goes on, or is a draft that waits for the
\* coordinator's; whoever has that row goes on, or is a command that waits for the
\* project's.
LEMMA UpdatersGoOn ==
  ASSUME TypeInv, LockInv, locker = NoOne, NEW a \in Actor, Waits(a)
  PROVE  /\ updater = a => cmd[a].kind = "draft" /\ owner # NoOne
         /\ owner = a => cmd[a].kind = "act" /\ updater # NoOne
<1>1. pc[a] = "run" /\ Holds(a) /\ MayRefer(a)
  BY DEF LockInv, MayRefer, Waits, Runs, InTransaction
<1>2. cmd[a] \in Command /\ at[a] \in 1..Len(Statements(cmd[a])) /\ at[a] \in Nat
  BY <1>1, Place
<1>3. \/ Statement(a) = "lock"
      \/ Statement(a) = "challenge" /\ updater # NoOne
      \/ Statement(a) \in {"own", "coordinator"} /\ owner # NoOne
  BY <1>1 DEF Waits, Runs
<1>4. /\ Statement(a) = "lock" => OfMember(cmd[a])
      /\ Statement(a) = "challenge" => at[a] = 2
      /\ Statement(a) = "own" => cmd[a].kind = "act" /\ at[a] = 1
      /\ Statement(a) = "coordinator" => cmd[a].kind = "draft" /\ at[a] = 3
  BY <1>2, StatementPlaces DEF Statement
<1>5. updater = a => cmd[a].kind = "draft" /\ owner # NoOne
  BY <1>1, <1>2, <1>3, <1>4 DEF Holds, OfMember
<1>6. owner = a => cmd[a].kind = "act" /\ updater # NoOne
  BY <1>1, <1>2, <1>3, <1>4 DEF Holds, OfMember
<1>. QED  BY <1>5, <1>6

\* A transaction that waits while nobody holds a lock: there is none.
LEMMA NobodyWaits ==
  ASSUME NEW a \in Actor, locker = NoOne, sharers = {}, updater = NoOne, owner = NoOne
  PROVE  ~Waits(a)
  BY DEF Waits, LockFree, MayRefer

LEMMA WaitersAreDrafts ==
  ASSUME TypeInv, LockInv
  PROVE  OnlyDraftsDeadlock
<1> DEFINE transactions == {a \in Actor : InTransaction(a)}
<1> SUFFICES ASSUME \A a \in transactions : Waits(a), NEW a \in transactions
             PROVE  {"draft", "act"} \subseteq {cmd[b].kind : b \in transactions}
  BY DEF OnlyDraftsDeadlock
<1>1. locker = NoOne
  BY HoldersGoOn DEF TypeInv, TypeOK
<1>2. sharers = {}
  BY <1>1, HoldersGoOn DEF TypeInv, TypeOK
<1>3. /\ updater # NoOne => updater \in transactions
      /\ owner # NoOne => owner \in transactions
  BY DEF LockInv, Holds, InTransaction, TypeInv, TypeOK
<1>4. updater # NoOne <=> owner # NoOne
  BY <1>1, <1>3, UpdatersGoOn
<1>5. updater # NoOne
  BY <1>1, <1>2, <1>4, NobodyWaits
<1>6. cmd[updater].kind = "draft" /\ cmd[owner].kind = "act"
  BY <1>1, <1>3, <1>4, <1>5, UpdatersGoOn
<1>. QED  BY <1>3, <1>4, <1>5, <1>6

\* Transactions that all wait are a draft and a lifecycle command.
THEOREM DraftsOnlyDeadlock == Spec => []OnlyDraftsDeadlock
<1>1. Init => TypeInv /\ LockInv
  <2>1. ASSUME Init PROVE LockInv
    BY <2>1, TeamAssumption DEF Init, LockInv, Holds, TeamAssumption
  <2>. QED  BY <2>1, InitType
<1>2. TypeInv /\ LockInv /\ [Next]_vars => TypeInv' /\ LockInv'
  BY NextType, NextLocks
<1>3. TypeInv /\ LockInv => OnlyDraftsDeadlock
  BY WaitersAreDrafts
<1>. QED  BY <1>1, <1>2, <1>3, PTL DEF Spec

(* The event log and the streams that follow it *)

\* What a request knows of its event: the number is new, it is drawn before the
\* commit, and one about a member is above all that is committed.
Numbered(a) ==
  /\ seq[a] < next
  /\ seq[a] # 0 => pc[a] = "run"
  /\ pc[a] = "run" /\ Statement(a) = "commit" => a \in sharers /\ seq[a] # 0
  /\ pc[a] = "run" /\ OfMember(cmd[a]) /\ seq[a] # 0 =>
       at[a] > 2 /\ \A e \in log : e.seq < seq[a]

\* Nobody has referred to the project while another holds FOR UPDATE.
Alone == \A a \in Actor : locker = a => sharers \subseteq {a}

NumberInv ==
  /\ \A e \in log : e.seq # 0 /\ e.seq < next
  /\ Alone
  /\ \A a \in Actor : Numbered(a)

LatestTells ==
  \A e \in MemberEvents :
    (\A f \in MemberEvents : f.target = e.target => f.seq <= e.seq) => roles[e.target] = e.role

\* A stream stands at the start or at an event, and has heard what it has passed.
Heard(k) ==
  /\ cursor[k] = 0 \/ \E e \in log : e.seq = cursor[k]
  /\ \A e \in MemberEvents : e.seq <= cursor[k] => e.seq \in heard[k]

TrailInv == NumberInv /\ LatestTells /\ \A k \in Socket : Heard(k)

\* What every step but a commit does.
Quietly(a) ==
  /\ UNCHANGED <<roles, log>> /\ next' >= next /\ next' \in Nat
  /\ \A b \in Actor \ {a} : seq'[b] = seq[b]

LEMMA NumberedOthers ==
  ASSUME TypeInv, NumberInv, NEW a \in Actor, Others(a), LocksOfOthers(a), Quietly(a),
         NEW b \in Actor \ {a}
  PROVE  Numbered(b)'
<1>1. /\ pc'[b] = pc[b] /\ cmd'[b] = cmd[b] /\ at'[b] = at[b] /\ seq'[b] = seq[b]
      /\ Statement(b)' = Statement(b) /\ (b \in sharers => b \in sharers') /\ log' = log
  BY DEF Others, LocksOfOthers, Quietly, Statement
<1>2. seq[b] \in Nat /\ next \in Nat /\ next' \in Nat /\ next' >= next
  BY DEF TypeInv, TypeOK, Quietly
<1>3. Numbered(b)
  BY DEF NumberInv
<1>. QED  BY <1>1, <1>2, <1>3 DEF Numbered

LEMMA CommitPlace ==
  ASSUME NEW c \in Command
  PROVE  /\ Statements(c)[1] # "commit"
         /\ \A i \in 1..Len(Statements(c)) :
              i + 1 \in 1..Len(Statements(c)) /\ Statements(c)[i + 1] = "commit" =>
                Statements(c)[i] = "event"
<1>1. CASE c.kind \in {"set", "remove"}
  BY <1>1 DEF Statements, OnMember
<1>2. CASE c.kind = "act"
  BY <1>2 DEF Statements
<1>3. CASE c.kind = "draft"
  BY <1>3 DEF Statements
<1>4. CASE c.kind = "steer"
  BY <1>4 DEF Statements
<1>5. CASE c.kind = "ticket"
  BY <1>5 DEF Statements
<1>. QED  BY <1>1, <1>2, <1>3, <1>4, <1>5 DEF Command, Kind

\* A transaction that has ended, or has not begun.
LEMMA NumberedEnds ==
  ASSUME TypeInv, NumberInv, NEW a \in Actor, seq'[a] = 0, next' >= next, next' \in Nat,
         pc'[a] # "run"
  PROVE  Numbered(a)'
<1>1. next \in Nat \ {0}
  BY DEF TypeInv, TypeOK
<1>. QED  BY <1>1 DEF Numbered

LEMMA NumberedRests ==
  ASSUME TypeInv, NumberInv, NEW a \in Actor, pc[a] # "run", seq' = seq, next' = next,
         pc'[a] # "run" \/ (cmd[a] \in Command /\ cmd'[a] = cmd[a] /\ at'[a] = 1)
  PROVE  Numbered(a)'
<1>1. seq'[a] = 0 /\ next' \in Nat \ {0}
  BY DEF NumberInv, Numbered, TypeInv, TypeOK
<1>2. CASE pc'[a] # "run"
  BY <1>1, <1>2 DEF Numbered
<1>3. CASE cmd[a] \in Command /\ cmd'[a] = cmd[a] /\ at'[a] = 1
  <2>1. Statement(a)' # "commit"
    BY <1>3, CommitPlace DEF Statement
  <2>. QED  BY <1>1, <2>1 DEF Numbered
<1>. QED  BY <1>2, <1>3

LEMMA NumberedAdvances ==
  ASSUME TypeInv, NumberInv, NEW a \in Actor, pc[a] = "run",
         Statement(a) \notin {"commit", "issue"}, Advance(a),
         UNCHANGED <<pc, cmd, seq, next, log>>,
         Statement(a) = "event" => a \in sharers' /\ seq[a] # 0
  PROVE  Numbered(a)'
<1>1. cmd[a] \in Command /\ at[a] \in 1..Len(Statements(cmd[a])) /\ at[a] \in Nat
  BY Place
<1>2. at'[a] = at[a] + 1 /\ Statement(a)' = Statements(cmd[a])[at[a] + 1]
  BY DEF Advance, Statement, TypeInv, TypeOK
<1>3. at[a] + 1 \in 1..Len(Statements(cmd[a]))
  BY <1>1, StatementsType DEF Statement
<1>4. Statement(a)' = "commit" => Statement(a) = "event"
  BY <1>1, <1>2, <1>3, CommitPlace DEF Statement
<1>. QED  BY <1>1, <1>2, <1>4 DEF NumberInv, Numbered

LEMMA DrawNumbered ==
  ASSUME TypeInv, NumberInv, NEW a \in Actor, DrawSequence(a)
  PROVE  Numbered(a)' /\ Quietly(a)
<1>1. /\ pc[a] = "run" /\ Statement(a) = "event" /\ seq'[a] = next /\ next' = next + 1
      /\ UNCHANGED <<roles, log, pc, cmd, at>>
  BY DEF DrawSequence, Runs, InTransaction, TypeInv, TypeOK
<1>2. next \in Nat \ {0}
  BY DEF TypeInv, TypeOK
<1>3. Quietly(a)
  BY <1>1, <1>2 DEF DrawSequence, Quietly, TypeInv, TypeOK
<1>4. Statement(a)' = Statement(a)
  BY <1>1 DEF Statement
<1>5. OfMember(cmd[a]) => at[a] > 2
  BY <1>1, Place, StatementPlaces DEF Statement
<1>6. \A e \in log : e.seq < next
  BY DEF NumberInv
<1>. QED  BY <1>1, <1>2, <1>3, <1>4, <1>5, <1>6 DEF Numbered

LEMMA LooserAlone ==
  ASSUME NumberInv, locker' = locker \/ locker' = NoOne, sharers' \subseteq sharers
  PROVE  Alone'
  BY TeamAssumption DEF NumberInv, Alone, TeamAssumption

LEMMA WorksAlone ==
  ASSUME TypeInv, NumberInv, NEW a \in Actor, Works(a)
  PROVE  Alone'
<1>1. CASE Release(a)
  BY <1>1, LooserAlone DEF Release
<1>2. CASE UNCHANGED <<locker, sharers>>
  BY <1>2, LooserAlone
<1>3. CASE LockChallenge(a)
  BY <1>3, TeamAssumption DEF LockChallenge, LockFree, Alone, TeamAssumption
<1>4. CASE InsertMessage(a) \/ InsertEvent(a)
  BY <1>4, TeamAssumption DEF InsertMessage, InsertEvent, MayRefer, NumberInv, Alone,
                              TeamAssumption
<1>5. CASE UpdateCoordinator(a) \/ UpdateChallenge(a) \/ DrawSequence(a)
  BY <1>2, <1>5 DEF UpdateCoordinator, UpdateChallenge, DrawSequence, locks
<1>6. CASE Check(a) \/ CountOwners(a) \/ OwnCoordinator(a) \/ ReadDraft(a)
  BY <1>1, <1>2, <1>6 DEF Check, CountOwners, OwnCoordinator, ReadDraft, Rollback, Leave, locks
<1>7. CASE Commit(a) \/ BreakDeadlock(a) \/ IssueTicket(a) \/ Kill(a)
  BY <1>1, <1>7 DEF Commit, BreakDeadlock, IssueTicket, Kill, Rollback, Leave
<1>. QED  BY <1>3, <1>4, <1>5, <1>6, <1>7 DEF Works

LEMMA EndsQuietly ==
  ASSUME TypeInv, NumberInv, NEW a \in Actor, Leave(a), Answer(a) \/ Fail(a),
         UNCHANGED <<roles, log, next>>
  PROVE  Numbered(a)' /\ Quietly(a)
<1>1. seq' = [seq EXCEPT ![a] = 0] /\ next' \in Nat /\ next' >= next
  BY DEF Leave, TypeInv, TypeOK
<1>2. pc'[a] # "run" /\ seq'[a] = 0
  BY <1>1 DEF Answer, Fail, TypeInv, TypeOK
<1>3. Quietly(a)
  BY <1>1 DEF Quietly, TypeInv, TypeOK
<1>. QED  BY <1>1, <1>2, <1>3, NumberedEnds

LEMMA SameQuietly ==
  ASSUME TypeInv, NEW a \in Actor, UNCHANGED <<roles, log, next, seq>>
  PROVE  Quietly(a)
  BY DEF Quietly, TypeInv, TypeOK

LEMMA WorksQuietly ==
  ASSUME TypeInv, NumberInv, NEW a \in Actor, Works(a), ~Commit(a)
  PROVE  Numbered(a)' /\ Quietly(a)
<1>1. CASE Leave(a) /\ (Answer(a) \/ Fail(a)) /\ UNCHANGED <<roles, log, next>>
  BY <1>1, EndsQuietly
<1>2. CASE LockChallenge(a) \/ UpdateCoordinator(a) \/ UpdateChallenge(a) \/ InsertMessage(a)
           \/ InsertEvent(a)
  <2>1. /\ pc[a] = "run" /\ Statement(a) \notin {"commit", "issue"} /\ Advance(a)
        /\ UNCHANGED <<pc, cmd, seq, next, log, roles>>
    BY <1>2 DEF LockChallenge, UpdateCoordinator, UpdateChallenge, InsertMessage, InsertEvent,
                Runs, InTransaction, rows
  <2>2. Statement(a) = "event" => a \in sharers' /\ seq[a] # 0
    BY <1>2 DEF LockChallenge, UpdateCoordinator, UpdateChallenge, InsertMessage, InsertEvent, Runs
  <2>. QED  BY <2>1, <2>2, NumberedAdvances, SameQuietly
<1>3. CASE CountOwners(a) \/ OwnCoordinator(a) \/ ReadDraft(a)
  <2>1. pc[a] = "run" /\ Statement(a) \notin {"commit", "issue", "event"} /\ UNCHANGED rows
    BY <1>3 DEF CountOwners, OwnCoordinator, ReadDraft, Runs, InTransaction
  <2>2. CASE Leave(a) /\ (Answer(a) \/ Fail(a))
    BY <1>1, <2>1, <2>2 DEF rows
  <2>3. CASE Advance(a) /\ UNCHANGED <<pc, cmd, seq>>
    BY <2>1, <2>3, NumberedAdvances, SameQuietly DEF rows
  <2>. QED  BY <1>3, <2>2, <2>3 DEF CountOwners, OwnCoordinator, ReadDraft, Rollback
<1>4. CASE DrawSequence(a)
  BY <1>4, DrawNumbered
<1>5. CASE BreakDeadlock(a) \/ IssueTicket(a) \/ Kill(a)
  BY <1>1, <1>5 DEF BreakDeadlock, IssueTicket, Kill, Rollback, rows
<1>6. CASE Check(a)
  <2>1. CASE Rollback(a)
    BY <1>1, <1>6, <2>1 DEF Check, Rollback, rows
  <2>2. CASE pc' = [pc EXCEPT ![a] = "run"] /\ at' = [at EXCEPT ![a] = 1] /\ UNCHANGED <<cmd, seq>>
    <3>1. pc[a] = "check" /\ cmd[a] \in Command /\ at'[a] = 1 /\ UNCHANGED rows
      BY <1>6, <2>2 DEF Check, TypeInv, TypeOK, Equipped, Serving
    <3>. QED  BY <2>2, <3>1, NumberedRests, SameQuietly DEF rows
  <2>. QED  BY <1>6, <2>1, <2>2 DEF Check
<1>. QED  BY <1>2, <1>3, <1>4, <1>5, <1>6 DEF Works

LEMMA SocketQuietly ==
  ASSUME TypeInv, NumberInv, NEW a \in Actor, ActorStep(a), ~Works(a)
  PROVE  Numbered(a)' /\ Quietly(a) /\ Alone'
<1>1. ASSUME pc[a] # "run", pc'[a] # "run", UNCHANGED <<roles, log, next, seq, locks>>
      PROVE  Numbered(a)' /\ Quietly(a) /\ Alone'
  BY <1>1, NumberedRests, SameQuietly, LooserAlone DEF locks
<1>2. CASE a \in Request /\ \E s \in Subject, c \in Commands : Arrive(a, s, c)
  BY <1>1, <1>2 DEF Arrive, Ask, rows, TypeInv, TypeOK
<1>3. CASE a \in Socket /\ \E c \in Commands : Send(a, c)
  BY <1>1, <1>3 DEF Send, Ask, Fail, rows, TypeInv, TypeOK
<1>4. CASE a \in Socket /\ \E t \in TicketId : RedeemTicket(a, t)
  BY <1>1, <1>4 DEF RedeemTicket, rows, TypeInv, TypeOK
<1>5. CASE a \in Socket /\ \E s \in Subject : OpenWithToken(a, s)
  BY <1>1, <1>5, OpenedType DEF OpenWithToken, rows, TypeInv, TypeOK
<1>6. CASE a \in Socket /\ UseTicket(a)
  BY <1>1, <1>6, OpenedType DEF UseTicket, TypeInv, TypeOK
<1>7. CASE a \in Socket /\ (Poll(a) \/ Disconnect(a))
  BY <1>1, <1>7 DEF Poll, Disconnect, rows, locals, TypeInv, TypeOK
<1>. QED  BY <1>2, <1>3, <1>4, <1>5, <1>6, <1>7 DEF ActorStep

LEMMA QuietNumbers ==
  ASSUME TypeInv, NumberInv, LockInv, NEW a \in Actor, ActorStep(a), ~Commit(a)
  PROVE  NumberInv' /\ UNCHANGED <<roles, log>>
<1>1. Numbered(a)' /\ Quietly(a) /\ Alone'
  BY WorksQuietly, WorksAlone, SocketQuietly
<1>2. Others(a) /\ LocksOfOthers(a)
  BY ActorType, ActorHolds
<1>3. \A b \in Actor : Numbered(b)'
  BY <1>1, <1>2, NumberedOthers
<1>4. \A e \in log' : e.seq # 0 /\ e.seq < next'
  <2>1. \A e \in log : e.seq \in Nat /\ e.seq < next /\ e.seq # 0
    BY DEF NumberInv, TypeInv, TypeOK, Entry
  <2>. QED  BY <1>1, <2>1 DEF Quietly, TypeInv, TypeOK
<1>. QED  BY <1>1, <1>3, <1>4 DEF NumberInv, Quietly

\* The streams of a step that commits nothing.
LEMMA QuietStreams ==
  ASSUME TypeInv, TrailInv, NEW a \in Actor, ActorStep(a), log' = log, NEW k \in Socket
  PROVE  Heard(k)'
<1>1. Heard(k) /\ MemberEvents' = MemberEvents
  BY DEF TrailInv, MemberEvents
<1>2. CASE cursor'[k] = cursor[k] /\ heard'[k] = heard[k]
  BY <1>1, <1>2 DEF Heard
<1>3. CASE cursor'[k] = 0
  <2>1. \A e \in MemberEvents : e.seq \in Nat \ {0}
    BY DEF TrailInv, NumberInv, MemberEvents, TypeInv, TypeOK, Entry
  <2>. QED  BY <1>1, <1>3, <2>1 DEF Heard
<1>4. CASE a \in Socket /\ Poll(a)
  <2>1. PICK last \in Page(cursor[a]) :
          /\ \A n \in Page(cursor[a]) : n <= last
          /\ heard' = [heard EXCEPT ![a] = @ \cup Page(cursor[a])]
          /\ cursor' = [cursor EXCEPT ![a] = last]
    BY <1>4 DEF Poll
  <2>2. CASE k # a
    BY <1>2, <2>1, <2>2 DEF TypeInv, TypeOK
  <2>3. CASE k = a
    <3>1. cursor'[k] = last /\ heard'[k] = heard[k] \cup Page(cursor[k])
      BY <1>4, <2>1, <2>3 DEF TypeInv, TypeOK
    <3>2. \E e \in log : e.seq = last
      BY DEF Page
    <3>3. ASSUME NEW e \in MemberEvents PROVE e.seq \in heard'[k]
                                              \/ ~(e.seq <= cursor'[k])
      <4>1. e \in log /\ e.seq \in Nat /\ cursor[k] \in Nat
        BY DEF MemberEvents, TypeInv, TypeOK, Entry
      <4>2. CASE e.seq <= cursor[k]
        BY <1>1, <3>1, <4>2 DEF Heard
      <4>3. CASE e.seq > cursor[k]
        BY <3>1, <4>1, <4>3 DEF Page
      <4>. QED  BY <4>1, <4>2, <4>3
    <3>. QED  BY <1>1, <3>1, <3>2, <3>3 DEF Heard
  <2>. QED  BY <2>2, <2>3
<1>5. CASE a \in Socket /\ Opened(a)
  BY <1>2, <1>3, <1>5 DEF Opened, streams, TypeInv, TypeOK
<1>6. CASE UNCHANGED streams
  BY <1>2, <1>6 DEF streams
<1>. QED  BY <1>4, <1>5, <1>6 DEF ActorStep, Works, Check, LockChallenge, CountOwners,
     OwnCoordinator, ReadDraft, UpdateCoordinator, UpdateChallenge, InsertMessage, DrawSequence,
     InsertEvent, Commit, BreakDeadlock, IssueTicket, Kill, Arrive, Send, RedeemTicket,
     OpenWithToken, UseTicket, Disconnect

\* A commit: nobody else has counted owners, and one about a member is above the
\* log and every cursor.
LEMMA CommitTrail ==
  ASSUME TypeInv, OwnerInv, LockInv, TrailInv, NEW a \in Actor, Commit(a)
  PROVE  TrailInv'
<1> DEFINE c == cmd[a]
           new == [seq |-> seq[a], kind |-> c.kind, target |-> c.target, role |-> Outcome(c)]
<1>1. /\ pc[a] = "run" /\ Statement(a) = "commit" /\ a \in sharers
      /\ seq[a] # 0 /\ seq[a] < next /\ c \in Command
  BY DEF Commit, Runs, InTransaction, TrailInv, NumberInv, Numbered, TypeInv, Equipped, Serving
<1>2. /\ log' = log \cup {new} /\ next' = next /\ cursor' = cursor /\ heard' = heard
      /\ roles' = IF OfMember(c) THEN [roles EXCEPT ![c.target] = Outcome(c)] ELSE roles
  BY DEF Commit, streams
<1>3. Others(a) /\ LocksOfOthers(a) /\ Leave(a) /\ Answer(a)
  <2>1. Works(a)
    BY DEF Works
  <2>. QED  BY <2>1, CommitType, WorksHolds DEF Commit
<1>4. ASSUME NEW b \in Actor \ {a}
      PROVE  ~(pc[b] = "run" /\ OfMember(cmd[b]) /\ seq[b] # 0)
  BY <1>1 DEF TrailInv, NumberInv, Numbered, Alone, OwnerInv, Secured, TypeInv, TypeOK
<1>5. ASSUME NEW b \in Actor \ {a} PROVE Numbered(b)'
  <2>1. /\ pc'[b] = pc[b] /\ cmd'[b] = cmd[b] /\ at'[b] = at[b] /\ seq'[b] = seq[b]
        /\ Statement(b)' = Statement(b) /\ (b \in sharers => b \in sharers')
    BY <1>3 DEF Others, LocksOfOthers, Statement, Leave, TypeInv, TypeOK
  <2>2. Numbered(b)
    BY DEF TrailInv, NumberInv
  <2>. QED  BY <1>2, <1>4, <2>1, <2>2 DEF Numbered
<1>6. Numbered(a)'
  <2>1. seq'[a] = 0 /\ pc'[a] # "run" /\ next' \in Nat /\ next' >= next
    BY <1>2, <1>3 DEF Leave, Answer, TypeInv, TypeOK
  <2>. QED  BY <2>1, NumberedEnds DEF TrailInv
<1>7. NumberInv'
  <2>1. Alone'
    BY WorksAlone DEF Works, TrailInv
  <2>2. new.seq = seq[a]
    OBVIOUS
  <2>3. \A e \in log' : e.seq # 0 /\ e.seq < next'
    BY <1>1, <1>2, <2>2 DEF TrailInv, NumberInv
  <2>. QED  BY <1>5, <1>6, <2>1, <2>3 DEF NumberInv
<1>8. CASE ~OfMember(c)
  <2>1. MemberEvents' = MemberEvents /\ roles' = roles
    BY <1>2, <1>8 DEF MemberEvents, OfMember
  <2>2. LatestTells'
    BY <2>1 DEF TrailInv, LatestTells
  <2>3. \A k \in Socket : Heard(k)'
    BY <1>2, <2>1 DEF TrailInv, Heard
  <2>. QED  BY <1>7, <2>2, <2>3 DEF TrailInv
<1>9. CASE OfMember(c)
  <2>1. \A e \in log : e.seq < seq[a] /\ e.seq \in Nat
    BY <1>1, <1>9 DEF TrailInv, NumberInv, Numbered, TypeInv, TypeOK, Entry
  <2>2. MemberEvents' = MemberEvents \cup {new} /\ MemberEvents \subseteq log
    BY <1>2, <1>9 DEF MemberEvents, OfMember
  <2>3. new.seq = seq[a] /\ new.target = c.target /\ new.role = Outcome(c)
        /\ c.target \in Subject /\ seq[a] \in Nat
    BY <1>1, OutcomeType DEF TypeInv, TypeOK
  <2>4. /\ roles'[c.target] = Outcome(c)
        /\ \A s \in Subject : s # c.target => roles'[s] = roles[s]
    BY <1>2, <1>9, <2>3 DEF TypeInv, TypeOK
  <2>5. \A e \in MemberEvents : e.target \in Subject
    BY <2>2 DEF TypeInv, TypeOK, Entry
  <2> HIDE DEF new
  <2>6. LatestTells'
    <3> SUFFICES ASSUME NEW e \in MemberEvents',
                        \A f \in MemberEvents' : f.target = e.target => f.seq <= e.seq
                 PROVE  roles'[e.target] = e.role
      BY DEF LatestTells
    <3>1. CASE e = new
      BY <2>3, <2>4, <3>1
    <3>2. CASE e \in MemberEvents
      <4>1. e.target # c.target
        BY <2>1, <2>2, <2>3, <3>2
      <4>2. roles[e.target] = e.role
        BY <2>2, <3>2 DEF TrailInv, LatestTells
      <4>. QED  BY <2>4, <2>5, <3>2, <4>1, <4>2
    <3>. QED  BY <2>2, <3>1, <3>2
  <2>7. ASSUME NEW k \in Socket PROVE Heard(k)'
    <3>1. Heard(k) /\ cursor[k] \in Nat
      BY DEF TrailInv, TypeInv, TypeOK
    <3>2. cursor[k] < seq[a]
      BY <1>1, <2>1, <2>3, <3>1 DEF Heard
    <3>3. ~(new.seq <= cursor[k])
      BY <2>3, <3>1, <3>2
    <3>. QED  BY <1>2, <2>2, <3>1, <3>3 DEF Heard
  <2>. QED  BY <1>7, <2>6, <2>7 DEF TrailInv
<1>. QED  BY <1>8, <1>9

LEMMA NextTrail ==
  ASSUME TypeInv, OwnerInv, LockInv, TrailInv, [Next]_vars
  PROVE  TrailInv'
<1>1. ASSUME NEW a \in Actor, ActorStep(a), ~Commit(a) PROVE TrailInv'
  <2>1. NumberInv' /\ UNCHANGED <<roles, log>>
    BY <1>1, QuietNumbers DEF TrailInv
  <2>2. LatestTells'
    BY <2>1 DEF TrailInv, LatestTells, MemberEvents
  <2>3. \A k \in Socket : Heard(k)'
    BY <1>1, <2>1, QuietStreams
  <2>. QED  BY <2>1, <2>2, <2>3 DEF TrailInv
<1>2. ASSUME NEW a \in Actor, Commit(a) PROVE TrailInv'
  BY <1>2, CommitTrail
<1>3. CASE UNCHANGED <<roles, log, next, locks, pc, cmd, at, seq, streams>>
  BY <1>3 DEF locks, streams, TrailInv, NumberInv, Alone, Numbered, Statement, LatestTells,
              MemberEvents, Heard
<1>4. CASE (\E t \in TicketId : TicketExpires(t)) \/ UNCHANGED vars
  BY <1>3, <1>4 DEF TicketExpires, vars, rows, locals
<1>. QED  BY <1>1, <1>2, <1>4, NextCases

\* The latest event about a member tells its role, and no stream skips one.
THEOREM TrailIsTrue == Spec => []TeamTrail
<1> DEFINE Inv == TypeInv /\ OwnerInv /\ LockInv /\ TrailInv
<1>1. Init => Inv
  <2> SUFFICES ASSUME Init PROVE Inv
    OBVIOUS
  <2>1. OwnerInv
    BY DEF Init, OwnerInv, Secured
  <2>2. LockInv /\ Alone
    BY TeamAssumption DEF Init, LockInv, Holds, Alone, TeamAssumption
  <2>3. \A a \in Actor : Numbered(a)
    BY DEF Init, Numbered
  <2>4. LatestTells /\ \A k \in Socket : Heard(k)
    BY DEF Init, LatestTells, MemberEvents, Heard
  <2>. QED  BY <2>1, <2>2, <2>3, <2>4, InitType DEF TrailInv, NumberInv, Init
<1>2. Inv /\ [Next]_vars => Inv'
  BY NextType, NextOwners, NextLocks, NextTrail
<1>3. Inv => TeamTrail
  BY DEF TrailInv, LatestTells, Heard, TeamTrail
<1>. QED  BY <1>1, <1>2, <1>3, PTL DEF Spec

(* The refinement: the history of the team *)

\* A removal that has counted the owners removes a member.
Removes(a) ==
  pc[a] = "run" /\ cmd[a].kind = "remove" /\ at[a] > 2 => roles[cmd[a].target] # NoOne

RemovalInv == \A a \in Actor : Removes(a)

LEMMA MovesRemoval ==
  ASSUME TypeInv, RemovalInv, NEW a \in Actor, ActorStep(a), Moves(a)
  PROVE  Removes(a)'
<1> SUFFICES ASSUME cmd[a].kind = "remove", at'[a] > 2
             PROVE  roles[cmd[a].target] # NoOne
  BY DEF Moves, SameCommand, Quiet, Removes
<1>1. /\ pc[a] = "run" /\ cmd'[a] = cmd[a] /\ at'[a] = at[a] + 1 /\ roles' = roles
      /\ at[a] \in 1..4 /\ (at[a] = 2 => Statement(a) = "count")
  BY MemberStatements DEF Moves, SameCommand, Quiet, OfMember
<1>2. CASE at[a] > 2
  BY <1>1, <1>2 DEF RemovalInv, Removes
<1>3. CASE at[a] = 2
  <2>1. Statement(a) = "count" /\ pc'[a] = "run"
    BY <1>1, <1>3 DEF Moves
  <2>2. ~Rollback(a)
    BY <1>1, <2>1 DEF Rollback, Fail, TypeInv, TypeOK
  <2>3. Works(a)
    BY <1>1 DEF ActorStep, Arrive, Send, RedeemTicket, OpenWithToken, UseTicket, Poll, Disconnect
  <2>4. ~(BreakDeadlock(a) \/ Kill(a) \/ Check(a))
    BY <1>1, <2>2 DEF BreakDeadlock, Kill, Check
  <2>5. CountOwners(a)
    BY <2>1, <2>3, <2>4 DEF Works, LockChallenge, OwnCoordinator, ReadDraft, UpdateCoordinator,
       UpdateChallenge, InsertMessage, DrawSequence, InsertEvent, Commit, IssueTicket, Runs
  <2>. QED  BY <2>2, <2>5 DEF CountOwners
<1>. QED  BY <1>1, <1>2, <1>3

LEMMA NextRemovals ==
  ASSUME TypeInv, OwnerInv, RemovalInv, [Next]_vars
  PROVE  RemovalInv'
<1>1. ASSUME NEW a \in Actor, ActorStep(a) PROVE RemovalInv'
  <2>1. Others(a)
    BY <1>1, ActorType
  <2>2. CASE roles' = roles
    <3>1. ASSUME NEW b \in Actor \ {a} PROVE Removes(b)'
      BY <2>1, <2>2 DEF Others, RemovalInv, Removes
    <3>2. Removes(a)'
      <4>1. CASE Moves(a)
        BY <1>1, <4>1, MovesRemoval
      <4>2. CASE Stays(a)
        BY <2>2, <4>2 DEF Stays, SameCommand, RemovalInv, Removes
      <4>3. CASE Idles(a) \/ Asks(a) \/ Enters(a)
        BY <4>3 DEF Idles, Asks, Enters, Removes, Serving
      <4>4. CASE Commit(a)
        BY <4>4 DEF Commit, Answer, Removes, TypeInv, TypeOK
      <4>. QED  BY <1>1, <4>1, <4>2, <4>3, <4>4, StepShape
    <3>. QED  BY <3>1, <3>2 DEF RemovalInv
  <2>3. CASE roles' # roles
    <3>1. Commit(a) /\ OfMember(cmd[a])
      BY <1>1, <2>3, StepShape DEF Idles, Asks, Enters, Moves, Stays, Quiet, Commit
    <3>2. pc[a] = "run" /\ Statement(a) = "commit" /\ pc'[a] # "run"
      BY <3>1 DEF Commit, Runs, InTransaction, Answer, TypeInv, TypeOK
    <3>3. locker = a
      BY <3>1, <3>2, MemberStatements DEF OwnerInv, Secured
    <3>4. ASSUME NEW b \in Actor \ {a} PROVE Removes(b)'
      <4>1. pc[b] = "run" /\ OfMember(cmd[b]) => ~(at[b] > 1)
        BY <3>3 DEF OwnerInv, Secured
      <4>2. pc'[b] = pc[b] /\ cmd'[b] = cmd[b] /\ at'[b] = at[b] /\ at[b] \in 0..5
        BY <2>1 DEF Others, TypeInv, TypeOK
      <4>. QED  BY <4>1, <4>2 DEF Removes, OfMember
    <3>. QED  BY <3>2, <3>4 DEF RemovalInv, Removes
  <2>. QED  BY <2>2, <2>3
<1>2. CASE Still \/ UNCHANGED vars
  BY <1>2 DEF Still, vars, rows, locals, RemovalInv, Removes
<1>. QED  BY <1>1, <1>2, ExpireType, NextCases

\* No stream has heard of an event beyond its cursor.
Behind(k) == \A n \in heard[k] : n <= cursor[k]

StreamInv == \A k \in Socket : Behind(k)

\* How a step moves a stream.
Sent(k) ==
  \/ cursor'[k] = cursor[k] /\ heard'[k] = heard[k]
  \/ cursor'[k] = 0 /\ heard'[k] = {}
  \/ \E last \in Page(cursor[k]) :
       /\ \A n \in Page(cursor[k]) : n <= last
       /\ cursor'[k] = last /\ heard'[k] = heard[k] \cup Page(cursor[k])

LEMMA StreamsMove ==
  ASSUME TypeInv, NEW a \in Actor, ActorStep(a)
  PROVE  \/ UNCHANGED streams
         \/ /\ a \in Socket /\ Sent(a) /\ UNCHANGED <<roles, log>>
            /\ heard' = [heard EXCEPT ![a] = heard'[a]]
            /\ \A k \in Socket \ {a} : cursor'[k] = cursor[k] /\ heard'[k] = heard[k]
<1>1. CASE a \in Socket /\ Poll(a)
  <2>1. PICK last \in Page(cursor[a]) :
          /\ \A n \in Page(cursor[a]) : n <= last
          /\ heard' = [heard EXCEPT ![a] = @ \cup Page(cursor[a])]
          /\ cursor' = [cursor EXCEPT ![a] = last]
    BY <1>1 DEF Poll
  <2>2. cursor'[a] = last /\ heard'[a] = heard[a] \cup Page(cursor[a])
    BY <1>1, <2>1 DEF TypeInv, TypeOK
  <2>3. Sent(a)
    BY <2>1, <2>2 DEF Sent
  <2>4. /\ heard' = [heard EXCEPT ![a] = heard'[a]]
        /\ \A k \in Socket \ {a} : cursor'[k] = cursor[k] /\ heard'[k] = heard[k]
    BY <2>1, <2>2 DEF TypeInv, TypeOK
  <2>. QED  BY <1>1, <2>3, <2>4 DEF Poll, rows
<1>2. CASE a \in Socket /\ Opened(a) /\ UNCHANGED <<roles, log>>
  <2>1. CASE UNCHANGED streams
    BY <2>1
  <2>2. CASE cursor' = [cursor EXCEPT ![a] = 0] /\ heard' = [heard EXCEPT ![a] = {}]
    <3>1. cursor'[a] = 0 /\ heard'[a] = {}
      BY <1>2, <2>2 DEF TypeInv, TypeOK
    <3>2. /\ heard' = [heard EXCEPT ![a] = heard'[a]]
          /\ \A k \in Socket \ {a} : cursor'[k] = cursor[k] /\ heard'[k] = heard[k]
      BY <2>2, <3>1 DEF TypeInv, TypeOK
    <3>. QED  BY <1>2, <3>1, <3>2 DEF Sent
  <2>. QED  BY <1>2, <2>1, <2>2 DEF Opened
<1>3. CASE UNCHANGED streams
  BY <1>3
<1>. QED  BY <1>1, <1>2, <1>3 DEF ActorStep, Works, Check, LockChallenge, CountOwners,
     OwnCoordinator, ReadDraft, UpdateCoordinator, UpdateChallenge, InsertMessage, DrawSequence,
     InsertEvent, Commit, BreakDeadlock, IssueTicket, Kill, Arrive, Send, RedeemTicket,
     OpenWithToken, UseTicket, Disconnect, rows

LEMMA SentBehind ==
  ASSUME TypeInv, NEW k \in Socket, Behind(k), Sent(k)
  PROVE  Behind(k)'
<1>1. CASE cursor'[k] = cursor[k] /\ heard'[k] = heard[k]
  BY <1>1 DEF Behind
<1>2. CASE cursor'[k] = 0 /\ heard'[k] = {}
  BY <1>2 DEF Behind
<1>3. ASSUME NEW last \in Page(cursor[k]), \A n \in Page(cursor[k]) : n <= last,
             cursor'[k] = last, heard'[k] = heard[k] \cup Page(cursor[k])
      PROVE  Behind(k)'
  <2>1. \A n \in Page(cursor[k]) : n \in Nat /\ n > cursor[k]
    BY DEF Page, TypeInv, TypeOK, Entry
  <2>2. cursor[k] \in Nat /\ heard[k] \subseteq Nat
    BY DEF TypeInv, TypeOK
  <2>. QED  BY <1>3, <2>1, <2>2 DEF Behind
<1>. QED  BY <1>1, <1>2, <1>3 DEF Sent

LEMMA NextStreams ==
  ASSUME TypeInv, StreamInv, [Next]_vars
  PROVE  StreamInv'
<1>1. CASE UNCHANGED streams
  BY <1>1 DEF streams, StreamInv, Behind
<1>2. ASSUME NEW a \in Socket, Sent(a),
             \A k \in Socket \ {a} : cursor'[k] = cursor[k] /\ heard'[k] = heard[k]
      PROVE  StreamInv'
  <2>1. Behind(a)'
    BY <1>2, SentBehind DEF StreamInv
  <2>. QED  BY <1>2, <2>1 DEF StreamInv, Behind
<1>3. (\E t \in TicketId : TicketExpires(t)) \/ UNCHANGED vars => UNCHANGED streams
  BY DEF TicketExpires, vars
<1>. QED  BY <1>1, <1>2, <1>3, StreamsMove, NextCases

\* All of it: what was shown above, and the two invariants of this section.
HistoryInv == TypeInv /\ OwnerInv /\ LockInv /\ TrailInv /\ RemovalInv /\ StreamInv

Streams == [k \in Socket |-> Seen(k)]
RosterStep == [Roster!RosterNext]_<<roles, Trail, Streams>>

LEMMA TrailSays ==
  ASSUME TypeInv, TrailInv, NEW e \in Trail
  PROVE  /\ e.seq \in Nat \ {0}
         /\ \E f \in MemberEvents : e = Told(f) /\ e.seq = f.seq /\ f \in log
<1>1. PICK f \in MemberEvents : e = Told(f)
  BY DEF Trail
<1>2. f \in log /\ e.seq = f.seq
  BY <1>1 DEF Told, MemberEvents
<1>. QED  BY <1>1, <1>2 DEF TrailInv, NumberInv, TypeInv, TypeOK, Entry

LEMMA Steady ==
  ASSUME UNCHANGED <<roles, log, heard>>
  PROVE  RosterStep
<1>1. Trail' = Trail
  BY DEF Trail, MemberEvents, Told
<1>2. Streams' = Streams
  BY <1>1 DEF Streams, Seen
<1>. QED  BY <1>1, <1>2 DEF RosterStep

\* A stream moves on, or starts over.
LEMMA FollowStep ==
  ASSUME HistoryInv, HistoryInv', NEW a \in Socket, Sent(a), UNCHANGED <<roles, log>>,
         heard' = [heard EXCEPT ![a] = heard'[a]]
  PROVE  RosterStep
<1>1. Trail' = Trail
  BY DEF Trail, MemberEvents, Told
<1>2. Streams' = [Streams EXCEPT ![a] = Seen(a)'] /\ Streams[a] = Seen(a)
  <2>1. \A k \in Socket \ {a} : heard'[k] = heard[k]
    BY DEF HistoryInv, TypeInv, TypeOK
  <2>2. \A k \in Socket \ {a} : Seen(k)' = Seen(k)
    BY <1>1, <2>1 DEF Seen
  <2>. QED  BY <2>2, Zenon DEF Streams
<1>3. Seen(a)' \in SUBSET Trail
  BY <1>1 DEF Seen
<1>4. Roster!InOrder(Seen(a)')
  <2> SUFFICES ASSUME NEW e \in Trail, NEW f \in Seen(a)', e.seq < f.seq, f \in Trail
               PROVE  e \in Seen(a)'
    BY DEF Roster!InOrder
  <2>1. f.seq \in heard'[a] /\ f.seq <= cursor'[a] /\ cursor'[a] \in Nat
    BY DEF Seen, HistoryInv, StreamInv, Behind, TypeInv, TypeOK
  <2>2. PICK g \in MemberEvents : e.seq = g.seq
    BY TrailSays DEF HistoryInv
  <2>3. e.seq \in Nat /\ f.seq \in Nat
    BY TrailSays DEF HistoryInv
  <2>4. e.seq <= cursor'[a]
    BY <2>1, <2>3
  <2>5. g \in MemberEvents'
    BY DEF MemberEvents
  <2>6. e.seq \in heard'[a]
    BY <2>2, <2>4, <2>5 DEF HistoryInv, TrailInv, Heard
  <2>. QED  BY <1>1, <2>6 DEF Seen
<1>5. Seen(a) \subseteq Seen(a)' \/ Seen(a)' = {}
  BY <1>1 DEF Seen, Sent
<1>6. Roster!Follow(a)
  BY <1>1, <1>2, <1>3, <1>4, <1>5 DEF Roster!Follow, Streams
<1>. QED  BY <1>6 DEF RosterStep, Roster!RosterNext

\* A change of a member is committed.
LEMMA ChangeStep ==
  ASSUME HistoryInv, HistoryInv', NEW a \in Actor, Commit(a), OfMember(cmd[a])
  PROVE  RosterStep
<1> DEFINE c == cmd[a]
           new == [seq |-> seq[a], kind |-> c.kind, target |-> c.target, role |-> Outcome(c)]
           e == Told(new)
<1>1. /\ pc[a] = "run" /\ Statement(a) = "commit" /\ seq[a] # 0 /\ seq[a] \in Nat
      /\ c \in Command /\ c.target \in Subject
  BY OutcomeType DEF Commit, Runs, InTransaction, HistoryInv, TrailInv, NumberInv, Numbered,
                     TypeInv, TypeOK, Equipped, Serving
<1>2. /\ log' = log \cup {new} /\ UNCHANGED <<cursor, heard>>
      /\ roles' = [roles EXCEPT ![c.target] = Outcome(c)]
  BY DEF Commit, streams
<1>3. e.seq = seq[a] /\ e.target = c.target /\ e.role = Outcome(c)
  BY DEF Told
<1>4. new.kind \in {"set", "remove"} /\ new.seq = seq[a]
  BY DEF OfMember
<1>5. \A f \in log : f.seq < seq[a] /\ f.seq \in Nat
  BY <1>1 DEF HistoryInv, TrailInv, NumberInv, Numbered, TypeInv, TypeOK, Entry
<1> HIDE DEF new
<1>6. MemberEvents' = MemberEvents \cup {new}
  BY <1>2, <1>4 DEF MemberEvents
<1>7. Trail' = Trail \cup {e}
  BY <1>6 DEF Trail, Told
<1> HIDE DEF e
<1>8. \A f \in Trail : f.seq < e.seq
  BY <1>3, <1>5, TrailSays DEF HistoryInv
<1>9. e \in Trail' \ Trail
  BY <1>1, <1>3, <1>7, <1>8
<1>10. Streams' = Streams
  <2> SUFFICES ASSUME NEW k \in Socket PROVE Seen(k)' = Seen(k)
    BY DEF Streams
  <2>1. e.seq \notin heard[k]
    <3>1. cursor[k] = 0 \/ \E f \in log : f.seq = cursor[k]
      BY DEF HistoryInv, TrailInv, Heard
    <3>2. cursor[k] < seq[a]
      BY <1>1, <1>5, <3>1
    <3>3. cursor[k] \in Nat /\ \A n \in heard[k] : n <= cursor[k] /\ n \in Nat
      BY DEF HistoryInv, StreamInv, Behind, TypeInv, TypeOK
    <3>. QED  BY <1>1, <1>3, <3>2, <3>3
  <2>. QED  BY <1>2, <1>7, <2>1 DEF Seen
<1>11. e.role = NoOne => roles[e.target] # NoOne
  <2>1. at[a] = 4
    BY <1>1, MemberStatements DEF HistoryInv
  <2>2. c.kind = "remove" => roles[c.target] # NoOne
    BY <1>1, <2>1 DEF HistoryInv, RemovalInv, Removes
  <2>3. c.kind = "set" => Outcome(c) # NoOne
    BY <1>1, TeamAssumption DEF Outcome, Command, TeamAssumption
  <2>. QED  BY <1>3, <2>2, <2>3 DEF OfMember
<1>12. \E s \in Subject : roles'[s] = "OWNER"
  BY DEF HistoryInv, OwnerInv, Owners
<1>13. Roster!ChangeRole(e)
  BY <1>2, <1>3, <1>7, <1>8, <1>10, <1>11, <1>12 DEF Roster!ChangeRole, Roster!Owned, Streams
<1>. QED  BY <1>9, <1>13 DEF RosterStep, Roster!RosterNext

LEMMA StepsRoster ==
  ASSUME HistoryInv, HistoryInv', [Next]_vars
  PROVE  RosterStep
<1>1. ASSUME NEW a \in Actor, Commit(a), ~OfMember(cmd[a]) PROVE RosterStep
  <2> DEFINE c == cmd[a]
             new == [seq |-> seq[a], kind |-> c.kind, target |-> c.target, role |-> Outcome(c)]
  <2>1. roles' = roles /\ heard' = heard /\ log' = log \cup {new}
    BY <1>1 DEF Commit, streams
  <2>2. MemberEvents' = MemberEvents
    BY <1>1, <2>1 DEF MemberEvents, OfMember
  <2>3. Trail' = Trail /\ Streams' = Streams
    BY <2>1, <2>2 DEF Trail, Told, Streams, Seen
  <2>. QED  BY <2>1, <2>3 DEF RosterStep
<1>2. ASSUME NEW a \in Actor, ActorStep(a), ~Commit(a) PROVE RosterStep
  <2>1. UNCHANGED <<roles, log>>
    BY <1>2, QuietNumbers DEF HistoryInv, TrailInv
  <2>. QED  BY <1>2, <2>1, StreamsMove, FollowStep, Steady DEF HistoryInv, streams
<1>3. CASE (\E t \in TicketId : TicketExpires(t)) \/ UNCHANGED vars
  BY <1>3, Steady DEF TicketExpires, vars, rows, streams
<1>. QED  BY <1>1, <1>2, <1>3, ChangeStep, NextCases

LEMMA InitHistory == Init => HistoryInv
<1> SUFFICES ASSUME Init PROVE HistoryInv
  OBVIOUS
<1>1. OwnerInv
  BY DEF Init, OwnerInv, Secured
<1>2. LockInv /\ Alone
  BY TeamAssumption DEF Init, LockInv, Holds, Alone, TeamAssumption
<1>3. \A a \in Actor : Numbered(a)
  BY DEF Init, Numbered
<1>4. LatestTells /\ \A k \in Socket : Heard(k)
  BY DEF Init, LatestTells, MemberEvents, Heard
<1>5. RemovalInv /\ StreamInv
  BY DEF Init, RemovalInv, Removes, StreamInv, Behind
<1>. QED  BY <1>1, <1>2, <1>3, <1>4, <1>5, InitType DEF HistoryInv, TrailInv, NumberInv, Init

\* Transactions that run at once are one history of the team to its clients.
THEOREM ImplementsRoster == Spec => RosterContract
<1>1. Init => Roster!RosterInit
  <2> SUFFICES ASSUME Init PROVE Roster!RosterInit
    OBVIOUS
  <2>1. Trail = {}
    BY DEF Init, Trail, MemberEvents
  <2>2. Roster!Owned(roles)
    BY DEF Init, Owners, Roster!Owned
  <2>. QED  BY <2>1, <2>2 DEF Init, Roster!RosterInit, Seen
<1>2. HistoryInv /\ [Next]_vars => HistoryInv'
  BY NextType, NextOwners, NextLocks, NextTrail, NextRemovals, NextStreams DEF HistoryInv
<1>3. HistoryInv /\ HistoryInv' /\ [Next]_vars => [Roster!RosterNext]_(Roster!rosterVars)
  BY StepsRoster DEF RosterStep, Roster!rosterVars, Streams
<1>. QED  BY <1>1, <1>2, <1>3, InitHistory, PTL DEF Spec, RosterContract, Roster!RosterSpec

=============================================================================
