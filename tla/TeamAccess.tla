----------------------------- MODULE TeamAccess -----------------------------
(* One project shared by a team: members and their roles, the requests that may
   change the project, live tickets, and the live sockets that follow its event
   log (collaboration.py, operations.py, api.py), on PostgreSQL with several API
   replicas.

   A request asks for the caller's role in a transaction of its own and then runs
   its operation in another: a fixed sequence of statements that take row locks
   and keep them until the commit. An event draws its sequence number when it is
   inserted, not when it is committed. SQLAlchemy flushes rows by class name:
   Challenge, CoordinatorState, Event. *)
EXTENDS Naturals, Sequences, FiniteSets

CONSTANTS
  Subject,      \* people
  ProjectAdmin, \* those whose bearer token makes them project administrators
  InstanceAdmin,\* administrators of the instance
  Request,      \* HTTP requests served at once
  Socket,       \* live WebSocket handlers
  NoOne,        \* no row, no lock
  Commands,     \* what requests ask for
  MaxRequests,  \* bound: requests and live messages
  MaxTickets,   \* bound: live tickets
  MaxKills      \* bound: handlers that die inside a transaction

Role    == {"VIEWER", "EDITOR", "OWNER"}
Kind    == {"set", "remove", "act", "draft", "steer", "ticket"}
Command == [kind : Kind, target : Subject, role : Role]
Actor   == Request \cup Socket
Admin   == ProjectAdmin \cup InstanceAdmin

ASSUME TeamAssumption ==
  /\ ProjectAdmin \cup InstanceAdmin \subseteq Subject /\ Commands \subseteq Command
  /\ NoOne \notin Subject \cup Actor \cup Role
  /\ Request \cap Socket = {}
  /\ {MaxRequests, MaxTickets, MaxKills} \subseteq Nat

ROLE_LEVEL == [r \in Role \cup {NoOne} |->
  CASE r = "VIEWER" -> 1 [] r = "EDITOR" -> 2 [] r = "OWNER" -> 3 [] OTHER -> 0]

\* An event; target and role say what it tells of a member.
Entry  == [seq : Nat, kind : Kind, target : Subject, role : Role \cup {NoOne}]
Ticket == [subject : Subject, role : Role]

VARIABLES
  roles,     \* project_members: subject -> role
  started,   \* the coordinator has left CREATED
  log,       \* committed events
  next,      \* the sequence of events
  tickets,   \* live_tickets; NoOne where none is issued yet
  used, expired, \* live_tickets: used_at is set, expires_at has passed
  locker, sharers, updater, \* of the challenge row: FOR UPDATE, FOR KEY SHARE, FOR NO KEY UPDATE
  owner,     \* of the coordinator row: who holds FOR UPDATE or has updated it
  pc, cmd, caller, \* of an actor: state, command, subject
  admin,     \* of an actor: its principal is an administrator
  granted,   \* of a request: the role that was looked up; of a socket: the one it opened with
  at,        \* of an actor: its place in Statements
  seq,       \* of an actor: the sequence number its event has drawn
  using,     \* of a socket: the ticket it redeems
  cursor, heard, \* of a socket: the last sequence read, the events sent
  standing,  \* history: roles the caller has had since the request arrived
  late,      \* history: the project had started when the request arrived
  opened,    \* history: how often a ticket has opened a socket
  requests, kills

rows    == <<roles, started, log, next, tickets, used, expired>>
locks   == <<locker, sharers, updater, owner>>
locals  == <<cmd, caller, admin, granted, at, seq, using>>
streams == <<cursor, heard>>
history == <<standing, late, opened>>
vars == <<rows, locks, pc, locals, streams, history, requests, kills>>

TicketId == 1..MaxTickets
Owners   == {s \in Subject : roles[s] = "OWNER"}

Init ==
  /\ roles \in [Subject -> Role \cup {NoOne}] /\ Owners # {}
  /\ started = FALSE /\ log = {} /\ next = 1
  /\ tickets = [t \in TicketId |-> NoOne]
  /\ used = {} /\ expired = {}
  /\ locker = NoOne /\ sharers = {} /\ updater = NoOne /\ owner = NoOne
  /\ pc = [a \in Actor |-> IF a \in Socket THEN "shut" ELSE "idle"]
  /\ cmd = [a \in Actor |-> NoOne]
  /\ caller = [a \in Actor |-> NoOne]
  /\ admin = [a \in Actor |-> FALSE]
  /\ granted = [a \in Actor |-> NoOne]
  /\ at = [a \in Actor |-> 0] /\ seq = [a \in Actor |-> 0]
  /\ using = [k \in Socket |-> 0]
  /\ cursor = [k \in Socket |-> 0] /\ heard = [k \in Socket |-> {}]
  /\ standing = [a \in Actor |-> {}] /\ late = [a \in Actor |-> FALSE]
  /\ opened = [t \in TicketId |-> 0]
  /\ requests = 0 /\ kills = 0

(* Operations: the role they ask for and the statements of their transaction *)

Needs(c) == CASE c.kind \in {"set", "remove", "draft"} -> "OWNER"
              [] c.kind \in {"act", "steer"} -> "EDITOR"
              [] OTHER -> "VIEWER"

\* (defect: the event is inserted before the project's row is locked)
EventFirst == <<"event", "lock", "count", "commit">>

OnMember == <<"lock", "count", "event", "commit">>

Statements(c) ==
  CASE c.kind \in {"set", "remove"} -> OnMember
    [] c.kind = "act"    -> <<"own", "challenge", "event", "commit">>
    [] c.kind = "draft"  -> <<"read", "challenge", "coordinator", "event", "commit">>
    [] c.kind = "steer"  -> <<"inbox", "event", "commit">>
    [] OTHER             -> <<"issue">>

InTransaction(a) == pc[a] = "run"
Statement(a) == Statements(cmd[a])[at[a]]
Runs(a, statement) == InTransaction(a) /\ Statement(a) = statement

Advance(a) == at' = [at EXCEPT ![a] = @ + 1]

\* A request answers; a socket whose command is refused or dies is closed.
Answer(a) == pc' = [pc EXCEPT ![a] = IF a \in Socket THEN "open" ELSE "idle"]
Fail(a)   == pc' = [pc EXCEPT ![a] = IF a \in Socket THEN "shut" ELSE "idle"]

Release(a) ==
  /\ locker' = IF locker = a THEN NoOne ELSE locker
  /\ sharers' = sharers \ {a}
  /\ updater' = IF updater = a THEN NoOne ELSE updater
  /\ owner' = IF owner = a THEN NoOne ELSE owner

\* Nothing stays of a transaction that has ended.
Leave(a) ==
  /\ Release(a)
  /\ at' = [at EXCEPT ![a] = 0] /\ seq' = [seq EXCEPT ![a] = 0]
  /\ cmd' = [cmd EXCEPT ![a] = NoOne]
  /\ caller' = IF a \in Request THEN [caller EXCEPT ![a] = NoOne] ELSE caller
  /\ admin' = IF a \in Request THEN [admin EXCEPT ![a] = FALSE] ELSE admin
  /\ granted' = IF a \in Request THEN [granted EXCEPT ![a] = NoOne] ELSE granted
  /\ late' = [late EXCEPT ![a] = FALSE]

Rollback(a) ==
  /\ Leave(a) /\ Fail(a)
  /\ standing' = [standing EXCEPT ![a] = {}]

(* Requests and live messages *)

Ask(a, c) ==
  /\ requests < MaxRequests /\ requests' = requests + 1
  /\ cmd' = [cmd EXCEPT ![a] = c]
  /\ late' = [late EXCEPT ![a] = started]
  /\ pc' = [pc EXCEPT ![a] = "check"]

Arrive(r, s, c) ==
  /\ pc[r] = "idle" /\ Ask(r, c)
  /\ caller' = [caller EXCEPT ![r] = s]
  /\ admin' = [admin EXCEPT ![r] = s \in Admin]
  /\ standing' = [standing EXCEPT ![r] = {roles[s]}]
  /\ UNCHANGED <<rows, locks, granted, at, seq, using, streams, opened, kills>>

\* What limina attach and other live clients send: guidance, an interrupt or a
\* lifecycle action.
Live(c) == c.kind \in {"steer", "act"}

\* A message on an open socket, whose role only tells viewers apart.
Send(k, c) ==
  /\ pc[k] = "open" /\ Live(c)
  /\ IF granted[k] = "VIEWER"
     THEN Fail(k) /\ UNCHANGED <<cmd, late, standing, requests>>
     ELSE Ask(k, c) /\ standing' = [standing EXCEPT ![k] = {roles[caller[k]]}]
  /\ UNCHANGED <<rows, locks, caller, admin, granted, at, seq, using, streams, opened, kills>>

\* (defect: a socket goes by the role it opened with)
role_at_open(a) ==
  CASE a \in Socket -> granted[a] [] admin[a] -> "OWNER" [] OTHER -> roles[caller[a]]

role_for(a) == IF admin[a] THEN "OWNER" ELSE roles[caller[a]]

\* require_role: a transaction of its own
Check(a) ==
  /\ pc[a] = "check"
  /\ IF ROLE_LEVEL[role_for(a)] >= ROLE_LEVEL[Needs(cmd[a])]
     THEN /\ pc' = [pc EXCEPT ![a] = "run"]
          /\ at' = [at EXCEPT ![a] = 1]
          /\ granted' = IF a \in Request THEN [granted EXCEPT ![a] = role_for(a)] ELSE granted
          /\ UNCHANGED <<locks, cmd, caller, admin, seq, standing, late>>
     ELSE Rollback(a)
  /\ UNCHANGED <<rows, using, streams, opened, requests, kills>>

(* set_member and remove_member *)

\* (defect: the project's row is read without FOR UPDATE)
Unlocked(a) == TRUE

\* FOR UPDATE waits for every other lock on the row.
LockFree(a) == locker = NoOne /\ sharers \subseteq {a} /\ updater = NoOne

LockChallenge(a) ==
  /\ Runs(a, "lock") /\ LockFree(a)
  /\ locker' = a /\ Advance(a)
  /\ UNCHANGED <<rows, sharers, updater, owner, pc, cmd, caller, admin, granted, seq, using,
                 streams, history, requests, kills>>

Demotes(c) == c.kind = "remove" \/ c.role # "OWNER"
LastOwner(s) == Owners = {s}

CountOwners(a) ==
  /\ Runs(a, "count")
  /\ LET c == cmd[a] IN
       IF \/ c.kind = "remove" /\ roles[c.target] = NoOne
          \/ Demotes(c) /\ LastOwner(c.target)
       THEN Rollback(a)
       ELSE /\ Advance(a)
            /\ UNCHANGED <<locks, pc, cmd, caller, admin, granted, seq, standing, late>>
  /\ UNCHANGED <<rows, using, streams, opened, requests, kills>>

(* apply_lifecycle: change_project_state, whose transitions are in
   ProjectLifecycle; one that changes anything leaves CREATED *)

OwnCoordinator(a) ==
  /\ Runs(a, "own") /\ owner = NoOne
  /\ \/ /\ owner' = a /\ Advance(a)
        /\ UNCHANGED <<locker, sharers, updater, pc, cmd, caller, admin, granted, seq, standing,
                       late>>
     \/ Rollback(a)                 \* not from this state
     \/ Leave(a) /\ Answer(a)       \* already there
        /\ standing' = [standing EXCEPT ![a] = {}]
  /\ UNCHANGED <<rows, using, streams, opened, requests, kills>>

(* update_draft *)

\* (defect: a draft is taken whatever the coordinator's status)
AnyStatus == TRUE

Kickoff == ~started

\* The status is read without a lock.
ReadDraft(a) ==
  /\ Runs(a, "read")
  /\ IF Kickoff
     THEN Advance(a) /\ UNCHANGED <<locks, pc, cmd, caller, admin, granted, seq, standing, late>>
     ELSE Rollback(a)
  /\ UNCHANGED <<rows, using, streams, opened, requests, kills>>

UpdateCoordinator(a) ==
  /\ Runs(a, "coordinator") /\ owner = NoOne
  /\ owner' = a /\ Advance(a)
  /\ UNCHANGED <<rows, locker, sharers, updater, pc, cmd, caller, admin, granted, seq, using,
                 streams, history, requests, kills>>

UpdateChallenge(a) ==
  /\ Runs(a, "challenge") /\ locker = NoOne /\ updater = NoOne
  /\ updater' = a /\ Advance(a)
  /\ UNCHANGED <<rows, locker, sharers, owner, pc, cmd, caller, admin, granted, seq, using,
                 streams, history, requests, kills>>

(* steer: send_message *)

\* A row that refers to the project waits for whoever holds FOR UPDATE.
MayRefer(a) == locker \in {NoOne, a}

InsertMessage(a) ==
  /\ Runs(a, "inbox") /\ MayRefer(a)
  /\ sharers' = sharers \cup {a} /\ Advance(a)
  /\ UNCHANGED <<rows, locker, updater, owner, pc, cmd, caller, admin, granted, seq, using,
                 streams, history, requests, kills>>

(* Every operation: the event and the commit *)

\* The number is drawn, then the reference to the project is checked.
DrawSequence(a) ==
  /\ Runs(a, "event") /\ seq[a] = 0
  /\ seq' = [seq EXCEPT ![a] = next] /\ next' = next + 1
  /\ UNCHANGED <<roles, started, log, tickets, used, expired, locks, pc, cmd, caller, admin,
                 granted, at, using, streams, history, requests, kills>>

InsertEvent(a) ==
  /\ Runs(a, "event") /\ seq[a] # 0 /\ MayRefer(a)
  /\ sharers' = sharers \cup {a} /\ Advance(a)
  /\ UNCHANGED <<rows, locker, updater, owner, pc, cmd, caller, admin, granted, seq, using,
                 streams, history, requests, kills>>

Outcome(c) == IF c.kind = "set" THEN c.role ELSE NoOne
OfMember(c) == c.kind \in {"set", "remove"}

Commit(a) ==
  /\ Runs(a, "commit")
  /\ LET c == cmd[a] IN
       /\ roles' = IF OfMember(c) THEN [roles EXCEPT ![c.target] = Outcome(c)] ELSE roles
       /\ started' = (started \/ c.kind = "act")
       /\ log' = log \cup
            {[seq |-> seq[a], kind |-> c.kind, target |-> c.target, role |-> Outcome(c)]}
  /\ Leave(a) /\ Answer(a)
  /\ standing' = [b \in Actor |->
       IF b # a /\ pc[b] \in {"check", "run"} THEN standing[b] \cup {roles'[caller[b]]} ELSE {}]
  /\ UNCHANGED <<next, tickets, used, expired, using, streams, opened, requests, kills>>

\* A transition holds the coordinator and waits for the challenge row, a draft
\* the other way round: the database aborts one of them.
WaitsFor(a, b) ==
  \/ Runs(a, "challenge") /\ updater = b
  \/ Runs(a, "coordinator") /\ owner = b

BreakDeadlock(a) ==
  /\ \E b \in Actor : WaitsFor(a, b) /\ WaitsFor(b, a)
  /\ Rollback(a)
  /\ UNCHANGED <<rows, using, streams, opened, requests, kills>>

(* Live tickets *)

\* The ticket carries the role that was looked up, in an earlier transaction.
IssueTicket(a) ==
  /\ Runs(a, "issue") /\ MayRefer(a)
  /\ \E t \in TicketId :
       /\ \A u \in TicketId : u < t <=> tickets[u] # NoOne
       /\ tickets' = [tickets EXCEPT ![t] = [subject |-> caller[a], role |-> granted[a]]]
  /\ Leave(a) /\ Answer(a)
  /\ standing' = [standing EXCEPT ![a] = {}]
  /\ UNCHANGED <<roles, started, log, next, used, expired, using, streams, opened, requests, kills>>

TicketExpires(t) ==
  /\ tickets[t] # NoOne /\ t \notin used \cup expired
  /\ expired' = expired \cup {t}
  /\ UNCHANGED <<roles, started, log, next, tickets, used, locks, pc, locals, streams, history,
                 requests, kills>>

\* (defect: the ticket's row is read without FOR UPDATE)
TicketReadable(t) == TRUE

TicketFree(t) == \A k \in Socket : pc[k] = "redeem" => using[k] # t

RedeemTicket(k, t) ==
  /\ pc[k] = "shut" /\ TicketFree(t)
  /\ tickets[t] # NoOne /\ t \notin used \cup expired
  /\ pc' = [pc EXCEPT ![k] = "redeem"]
  /\ using' = [using EXCEPT ![k] = t]
  /\ UNCHANGED <<rows, locks, cmd, caller, admin, granted, at, seq, streams, history,
                 requests, kills>>

\* A client asks for what follows the last event it has, or for everything.
Opened(k) ==
  /\ pc' = [pc EXCEPT ![k] = "open"]
  /\ \/ UNCHANGED streams
     \/ cursor' = [cursor EXCEPT ![k] = 0] /\ heard' = [heard EXCEPT ![k] = {}]

\* The principal of a ticket is an administrator of the instance if the one it was
\* issued to is, and no project administrator any more.
UseTicket(k) ==
  /\ pc[k] = "redeem"
  /\ used' = used \cup {using[k]}
  /\ opened' = [opened EXCEPT ![using[k]] = @ + 1]
  /\ caller' = [caller EXCEPT ![k] = tickets[using[k]].subject]
  /\ granted' = [granted EXCEPT ![k] = tickets[using[k]].role]
  /\ admin' = [admin EXCEPT ![k] = caller'[k] \in InstanceAdmin]
  /\ using' = [using EXCEPT ![k] = 0]
  /\ Opened(k)
  /\ UNCHANGED <<roles, started, log, next, tickets, expired, locks, cmd, at, seq, standing, late,
                 requests, kills>>

OpenWithToken(k, s) ==
  /\ pc[k] = "shut"
  /\ s \in Admin \/ roles[s] # NoOne
  /\ caller' = [caller EXCEPT ![k] = s]
  /\ admin' = [admin EXCEPT ![k] = s \in Admin]
  /\ granted' = [granted EXCEPT ![k] = IF s \in Admin THEN "OWNER" ELSE roles[s]]
  /\ Opened(k)
  /\ UNCHANGED <<rows, locks, cmd, at, seq, using, history, requests, kills>>

(* The live stream; limina watch and the event pages read in the same way. A
   page of 200 events is larger than any log here. *)

\* (defect: the last events instead of the next ones)
LastPage(after) == {e.seq : e \in {f \in log : f.seq > after /\ \A g \in log : g.seq <= f.seq}}

Page(after) == {e.seq : e \in {f \in log : f.seq > after}}

Poll(k) ==
  /\ pc[k] = "open"
  /\ LET page == Page(cursor[k]) IN \E last \in page :
       /\ \A n \in page : n <= last
       /\ heard' = [heard EXCEPT ![k] = @ \cup page]
       /\ cursor' = [cursor EXCEPT ![k] = last]
  /\ UNCHANGED <<rows, locks, pc, locals, history, requests, kills>>

Disconnect(k) ==
  /\ pc[k] = "open"
  /\ pc' = [pc EXCEPT ![k] = "shut"]
  /\ UNCHANGED <<rows, locks, locals, streams, history, requests, kills>>

Kill(a) ==
  /\ pc[a] \in {"run", "redeem"} /\ kills < MaxKills
  /\ kills' = kills + 1
  /\ Rollback(a)
  /\ using' = IF a \in Socket THEN [using EXCEPT ![a] = 0] ELSE using
  /\ UNCHANGED <<rows, streams, opened, requests>>

Works(a) ==
  \/ Check(a) \/ LockChallenge(a) \/ CountOwners(a) \/ OwnCoordinator(a) \/ ReadDraft(a)
  \/ UpdateCoordinator(a) \/ UpdateChallenge(a) \/ InsertMessage(a) \/ DrawSequence(a)
  \/ InsertEvent(a) \/ Commit(a) \/ BreakDeadlock(a) \/ IssueTicket(a) \/ Kill(a)

Next ==
  \/ \E r \in Request, s \in Subject, c \in Commands : Arrive(r, s, c)
  \/ \E k \in Socket, c \in Commands : Send(k, c)
  \/ \E a \in Actor : Works(a)
  \/ \E t \in TicketId : TicketExpires(t)
  \/ \E k \in Socket, t \in TicketId : RedeemTicket(k, t)
  \/ \E k \in Socket, s \in Subject : OpenWithToken(k, s)
  \/ \E k \in Socket : UseTicket(k) \/ Poll(k) \/ Disconnect(k)

Spec == Init /\ [][Next]_vars

-----------------------------------------------------------------------------

\* The values the variables may take.
TypeOK ==
  /\ roles \in [Subject -> Role \cup {NoOne}] /\ started \in BOOLEAN
  /\ log \subseteq Entry /\ next \in Nat \ {0}
  /\ tickets \in [TicketId -> Ticket \cup {NoOne}]
  /\ used \subseteq TicketId /\ expired \subseteq TicketId
  /\ locker \in Actor \cup {NoOne} /\ sharers \subseteq Actor
  /\ updater \in Actor \cup {NoOne} /\ owner \in Actor \cup {NoOne}
  /\ pc \in [Actor -> {"idle", "check", "run", "shut", "redeem", "open"}]
  /\ cmd \in [Actor -> Command \cup {NoOne}] /\ caller \in [Actor -> Subject \cup {NoOne}]
  /\ admin \in [Actor -> BOOLEAN] /\ granted \in [Actor -> Role \cup {NoOne}]
  /\ at \in [Actor -> 0..5] /\ seq \in [Actor -> Nat] /\ using \in [Socket -> TicketId \cup {0}]
  /\ cursor \in [Socket -> Nat] /\ heard \in [Socket -> SUBSET Nat]
  /\ standing \in [Actor -> SUBSET (Role \cup {NoOne})] /\ late \in [Actor -> BOOLEAN]
  /\ opened \in [TicketId -> Nat]
  /\ requests \in Nat /\ kills \in Nat

\* A project keeps an owner, however many demotions and removals run at once
\* (set_member, remove_member: the count under the row lock).
OwnerRemains == Owners # {}

MemberEvents == {e \in log : e.kind \in {"set", "remove"}}

\* The event log can be trusted for the team: the latest event about a member,
\* by sequence, tells the role the member has, and no live stream whose cursor
\* has passed a membership event has skipped it. (Other events can be skipped:
\* a number is drawn before it is committed. These are drawn under FOR UPDATE,
\* and whoever draws a later one waits for the reference to the project.)
TeamTrail ==
  /\ \A e \in MemberEvents :
       (\A f \in MemberEvents : f.target = e.target => f.seq <= e.seq) => roles[e.target] = e.role
  /\ \A k \in Socket : \A e \in MemberEvents : e.seq <= cursor[k] => e.seq \in heard[k]

\* A ticket opens one socket at most, whichever replicas it is presented to
\* (consume_live_ticket).
TicketOnce == \A t \in TicketId : opened[t] <= 1

\* What a transaction does, its caller had the role for at some moment since the
\* request arrived: a role that was lost before, also while a socket stayed
\* open, allows nothing (require_role before every operation).
ActsByRole ==
  \A a \in Actor : InTransaction(a) =>
    \/ admin[a]
    \/ \E r \in standing[a] : ROLE_LEVEL[r] >= ROLE_LEVEL[Needs(cmd[a])]

\* "Project kickoff fields can only change before the first start": no draft that
\* arrives after it gets past update_draft's check. (One that has read the status
\* before can still be committed after the start.)
KickoffSettled ==
  \A a \in Actor : InTransaction(a) /\ cmd[a].kind = "draft" /\ at[a] > 1 => ~late[a]

\* A transaction that has to wait for a lock.
Waits(a) ==
  \/ Runs(a, "lock") /\ ~LockFree(a)
  \/ Runs(a, "challenge") /\ {locker, updater} # {NoOne}
  \/ (Runs(a, "own") \/ Runs(a, "coordinator")) /\ owner # NoOne
  \/ (Runs(a, "inbox") \/ Runs(a, "event") \/ Runs(a, "issue")) /\ ~MayRefer(a)

\* Transactions wait for one that can go on. Only a draft and a lifecycle command,
\* which take the same two rows in opposite order, wait for each other until the
\* database aborts one (set_member, remove_member, update_draft,
\* change_project_state, send_message: each takes the project's row as strongly as
\* it will need it before it refers to it).
OnlyDraftsDeadlock ==
  LET transactions == {a \in Actor : InTransaction(a)}
  IN  (\A a \in transactions : Waits(a)) =>
        transactions = {} \/ {"draft", "act"} \subseteq {cmd[a].kind : a \in transactions}

\* The refinement: the events about members are the trail.
Told(e) == [seq |-> e.seq, target |-> e.target, role |-> e.role]
Trail == {Told(e) : e \in MemberEvents}
Seen(k) == {e \in Trail : e.seq \in heard[k]}

Roster == INSTANCE TeamRoster WITH
  Member <- Subject, NoRole <- NoOne, Owner <- "OWNER", Follower <- Socket,
  trail <- Trail, seen <- [k \in Socket |-> Seen(k)]

\* A team can follow who belongs to it: changes of members that run at once come
\* to one change after the other, no removal is told of somebody who was no
\* member, and every live stream has a beginning of that history (set_member,
\* remove_member, the event log and its readers).
RosterContract == Roster!RosterSpec

=============================================================================
