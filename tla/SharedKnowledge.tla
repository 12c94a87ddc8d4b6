-------------------------- MODULE SharedKnowledge --------------------------
(* What a team adds to a project's knowledge: tags, relations, saved views and
   sources, which have a name that is unique in the project, and comments and
   commands, which have the id their client gave them so that it can repeat them
   (knowledge_collaboration.py, service.py _execute, the upload route).

   None of these operations locks what it reads. A request reads a row, writes it
   in a later statement, and commits; a write waits for whoever has an
   uncommitted write to the same row, and the unique constraint decides between
   two inserts. SQLAlchemy updates the columns that differ from what was loaded,
   and no others. Roles are TeamAccess's, contents are left out.

   A command carries out an operation of its own before it inserts its receipt.
   Some operations are conditional: they compare a version, need a lease, remove a
   row or make one that has to be unique, and fail when that is not as they need
   it, which a first use of the same id may have brought about. What they depend on is not modelled: a conditional
   command may fail whenever it has found its id unused. *)
EXTENDS Integers, FiniteSets

CONSTANTS
  Request,      \* requests served at once
  Names,        \* names and ids, within a table
  Asks,         \* what clients ask for
  MaxRequests,  \* bound: requests, which also number the rows they create
  MaxKills      \* bound: requests that die

Named == {"tag", "relation", "view", "source"}
Keyed == {"comment", "command"}
Table == Named \cup Keyed
Key   == [table : Table, name : Names]

\* The columns of a source; elsewhere, what a view asks for or what the id of a
\* comment or a command is used for. The URI of an upload is the number of the
\* request that brought it.
Column == {"type", "uri"}
Value  == [Column -> Nat]
Row    == [id : Nat, value : Value, status : {"ACTIVE", "REMOVED"}]
NoRow  == [id |-> 0, value |-> [c \in Column |-> 0], status |-> "REMOVED"]
Ask    == [op : {"put", "drop"}, key : Key, value : Value, upload : BOOLEAN,
           conditional : BOOLEAN]

ASSUME SharedKnowledgeAssumption ==
  /\ Asks \subseteq Ask
  /\ \A a \in Asks : /\ a.op = "drop" => a.key.table \in Named
                     /\ a.upload => a.op = "put" /\ a.key.table = "source"
                     /\ a.conditional => a.op = "put" /\ a.key.table = "command"
                     /\ ~a.upload => a.value["uri"] \notin 1..MaxRequests
  /\ {MaxRequests, MaxKills} \subseteq Nat

VARIABLES
  table,     \* key -> committed row
  holder,    \* key -> the request that has an uncommitted write to it, if any
  files,     \* uploads that are complete in the workspace
  pc, ask, mine, \* of a request: state, what it asks, its number
  target,    \* of a request: the id of the row it is to remove
  loaded,    \* of a request: the row it has read
  image,     \* of a request: the row as it will commit it
  latest,    \* history: key -> the request last answered about it
  overlapped,\* history: keys two requests have been about at the same time
  told,      \* history: what repeated requests were answered
  requests, kills

locals  == <<ask, mine, target, loaded, image>>
history == <<latest, overlapped, told>>
vars == <<table, holder, files, pc, locals, history, requests, kills>>

NoAsk == [op |-> "none"]

Init ==
  /\ table = [k \in Key |-> NoRow]
  /\ holder = [k \in Key |-> {}]
  /\ files = {}
  /\ pc = [r \in Request |-> "idle"] /\ ask = [r \in Request |-> NoAsk]
  /\ mine = [r \in Request |-> 0] /\ target = [r \in Request |-> 0]
  /\ loaded = [r \in Request |-> NoRow] /\ image = [r \in Request |-> NoRow]
  /\ latest = [k \in Key |-> NoAsk] /\ overlapped = {} /\ told = {}
  /\ requests = 0 /\ kills = 0

KeyOf(r) == ask[r].key
TableOf(r) == ask[r].key.table
Present(row) == row # NoRow
Goto(r, step) == pc' = [pc EXCEPT ![r] = step]
Busy(k) == {r \in Request : pc[r] # "idle" /\ KeyOf(r) = k}

\* The transaction ends, with or without a commit.
End(r) ==
  /\ Goto(r, "idle")
  /\ ask' = [ask EXCEPT ![r] = NoAsk] /\ mine' = [mine EXCEPT ![r] = 0]
  /\ target' = [target EXCEPT ![r] = 0]
  /\ loaded' = [loaded EXCEPT ![r] = NoRow] /\ image' = [image EXCEPT ![r] = NoRow]
  /\ holder' = [k \in Key |-> holder[k] \ {r}]

\* (defect: an uploaded source is configured and its file never completed)
Straight(a) == "read"

FirstStep(a) == IF a.upload THEN "upload" ELSE "read"

\* A removal names the id its client has seen; tags go by their name.
Arrive(r, a) ==
  /\ pc[r] = "idle" /\ requests < MaxRequests /\ requests' = requests + 1
  /\ ask' = [ask EXCEPT ![r] = IF a.upload THEN [a EXCEPT !.value["uri"] = requests'] ELSE a]
  /\ mine' = [mine EXCEPT ![r] = requests']
  /\ target' = [target EXCEPT ![r] = table[a.key].id]
  /\ Goto(r, FirstStep(a))
  /\ IF Busy(a.key) # {}
     THEN overlapped' = overlapped \cup {a.key} /\ UNCHANGED latest
     ELSE overlapped' = overlapped \ {a.key} /\ latest' = [latest EXCEPT ![a.key] = NoAsk]
  /\ UNCHANGED <<table, holder, files, loaded, image, told, kills>>

\* upload_source: the file has a directory of its own and is complete before
\* set_source is called; one that is too large or breaks off is deleted.
Upload(r) ==
  /\ pc[r] = "upload"
  /\ \/ files' = files \cup {mine[r]} /\ Goto(r, "read") /\ UNCHANGED <<holder, locals>>
     \/ End(r) /\ UNCHANGED files
  /\ UNCHANGED <<table, history, requests, kills>>

\* The answer to a command whose operation has failed.
Failed == -1

\* add_comment and _execute: the row of an id answers the same request again,
\* and refuses another one.
Replay(r, row) == IF row.value = ask[r].value THEN row.id ELSE 0
Tell(r, id) ==
  told' = told \cup {[key |-> KeyOf(r), value |-> ask[r].value, answer |-> id]}

Answered(r) == latest' = [latest EXCEPT ![KeyOf(r)] = ask[r]]

RepeatedCommand(r, row) ==
  /\ TableOf(r) \in Keyed /\ Present(row)
  /\ Tell(r, Replay(r, row)) /\ End(r) /\ UNCHANGED latest

\* add_tag: nothing is left to do.
AlreadyTagged(r, row) ==
  /\ TableOf(r) = "tag" /\ Present(row)
  /\ Answered(r) /\ End(r) /\ UNCHANGED told

\* save_view and set_source: the row is there and becomes an object to change.
LoadRow(r, row) ==
  /\ TableOf(r) \in {"view", "source"} /\ Present(row)
  /\ loaded' = [loaded EXCEPT ![r] = row]
  /\ Goto(r, "update") /\ UNCHANGED <<holder, ask, mine, target, image, latest, told>>

\* create_relation does not look, the others find no row.
NoRowFound(r, row) ==
  /\ TableOf(r) = "relation" \/ ~Present(row)
  /\ Goto(r, "insert") /\ UNCHANGED <<holder, locals, latest, told>>

\* The row to be removed is there, and active: a tag by its name, others by the id.
IsTarget(r, row) ==
  /\ Present(row) /\ row.status = "ACTIVE"
  /\ TableOf(r) = "tag" \/ row.id = target[r]

FindTarget(r, row) ==
  /\ IF IsTarget(r, row)
     THEN /\ loaded' = [loaded EXCEPT ![r] = row]
          /\ Goto(r, IF TableOf(r) = "source" THEN "retire" ELSE "delete")
          /\ UNCHANGED <<holder, ask, mine, target, image>>
     ELSE End(r)
  /\ UNCHANGED <<latest, told>>

Read(r) ==
  /\ pc[r] = "read"
  /\ LET row == table[KeyOf(r)] IN
       \/ /\ ask[r].op = "put"
          /\ \/ RepeatedCommand(r, row) \/ AlreadyTagged(r, row)
             \/ LoadRow(r, row) \/ NoRowFound(r, row)
       \/ ask[r].op = "drop" /\ FindTarget(r, row)
  /\ UNCHANGED <<table, files, overlapped, requests, kills>>

\* A write takes the row, or waits for who has it.
Takes(r) == holder[KeyOf(r)] = {}
Writes(r, row) ==
  /\ holder' = [holder EXCEPT ![KeyOf(r)] = {r}]
  /\ image' = [image EXCEPT ![r] = row]
  /\ Goto(r, "commit")
  /\ UNCHANGED <<ask, mine, target, loaded>>

NewRow(r) == [id |-> mine[r], value |-> ask[r].value, status |-> "ACTIVE"]

\* (defect: a unique constraint that was broken is always a conflict)
Conflict(r) == "refuse"

\* _execute: the operation of a command fails its own condition. Its error goes to
\* the client, whether or not the command's first use has a receipt by now.
FailCondition(r) ==
  /\ pc[r] = "insert" /\ ask[r].conditional
  /\ Tell(r, Failed) /\ End(r)
  /\ UNCHANGED <<table, files, latest, overlapped, requests, kills>>

\* The unique constraint is broken (an IntegrityError, and no other error): a
\* repeated comment or command looks for the row of its id in a new session.
AfterDuplicate(r) == IF TableOf(r) \in Keyed THEN "again" ELSE "refuse"

\* The row, or the receipt of a command whose operation has succeeded.
Insert(r) ==
  /\ pc[r] = "insert" /\ Takes(r)
  /\ IF Present(table[KeyOf(r)])
     THEN Goto(r, AfterDuplicate(r)) /\ UNCHANGED <<holder, locals>>
     ELSE Writes(r, NewRow(r))
  /\ UNCHANGED <<table, files, history, requests, kills>>

\* The second look of a repeated request; the error of any other.
LookAgain(r) ==
  /\ pc[r] = "again"
  /\ Tell(r, Replay(r, table[KeyOf(r)])) /\ End(r)
  /\ UNCHANGED <<table, files, latest, overlapped, requests, kills>>

Refuse(r) ==
  /\ pc[r] = "refuse"
  /\ IF TableOf(r) \in Keyed THEN Tell(r, 0) ELSE UNCHANGED told
  /\ End(r)
  /\ UNCHANGED <<table, files, latest, overlapped, requests, kills>>

\* The columns that differ from what was loaded.
Merged(r, row) ==
  [c \in Column |-> IF ask[r].value[c] # loaded[r].value[c] THEN ask[r].value[c] ELSE row.value[c]]

\* (defect: a source that was removed stays removed when it is configured again)
MergedOnly(r, row) == [row EXCEPT !.value = Merged(r, row)]

Updated(r, row) ==
  [row EXCEPT !.value = Merged(r, row),
              !.status = IF loaded[r].status = "ACTIVE" THEN row.status ELSE "ACTIVE"]

\* save_view and set_source of a row that is there; an UPDATE that finds it gone
\* is an error.
Update(r) ==
  /\ pc[r] = "update" /\ Takes(r)
  /\ IF table[KeyOf(r)].id = loaded[r].id
     THEN Writes(r, Updated(r, table[KeyOf(r)]))
     ELSE Goto(r, "refuse") /\ UNCHANGED <<holder, locals>>
  /\ UNCHANGED <<table, files, history, requests, kills>>

\* remove_source keeps the row.
Retire(r) ==
  /\ pc[r] = "retire" /\ Takes(r)
  /\ Writes(r, [table[KeyOf(r)] EXCEPT !.status = "REMOVED"])
  /\ UNCHANGED <<table, files, history, requests, kills>>

\* remove_tag, delete_relation, delete_view; a DELETE that finds nothing is none.
Delete(r) ==
  /\ pc[r] = "delete" /\ Takes(r)
  /\ LET row == table[KeyOf(r)] IN
       Writes(r, IF TableOf(r) = "tag" \/ row.id = loaded[r].id THEN NoRow ELSE row)
  /\ UNCHANGED <<table, files, history, requests, kills>>

Commit(r) ==
  /\ pc[r] = "commit"
  /\ table' = [table EXCEPT ![KeyOf(r)] = image[r]]
  /\ Answered(r)
  /\ IF TableOf(r) \in Keyed THEN Tell(r, mine[r]) ELSE UNCHANGED told
  /\ End(r)
  /\ UNCHANGED <<files, overlapped, requests, kills>>

\* The process dies, or the client's request is lost: nothing is written but
\* the file that was.
Kill(r) ==
  /\ pc[r] # "idle" /\ kills < MaxKills
  /\ kills' = kills + 1
  /\ End(r)
  /\ UNCHANGED <<table, files, history, requests>>

Next == \E r \in Request :
  \/ \E a \in Asks : Arrive(r, a)
  \/ Upload(r) \/ Read(r) \/ FailCondition(r) \/ Insert(r) \/ LookAgain(r) \/ Refuse(r)
  \/ Update(r) \/ Retire(r) \/ Delete(r) \/ Commit(r) \/ Kill(r)

Spec == Init /\ [][Next]_vars

-----------------------------------------------------------------------------

Steps == {"idle", "upload", "read", "insert", "again", "refuse", "update", "retire", "delete",
          "commit"}

\* The values the variables may take.
TypeOK ==
  /\ table \in [Key -> Row] /\ holder \in [Key -> SUBSET Request]
  /\ files \subseteq Nat
  /\ pc \in [Request -> Steps] /\ ask \in [Request -> Ask \cup {NoAsk}]
  /\ mine \in [Request -> Nat] /\ target \in [Request -> Nat]
  /\ loaded \in [Request -> Row] /\ image \in [Request -> Row]
  /\ latest \in [Key -> Ask \cup {NoAsk}] /\ overlapped \subseteq Key
  /\ told \subseteq [key : Key, value : Value, answer : Nat \cup {Failed}]
  /\ requests \in Nat /\ kills \in Nat

\* A comment or a command is carried out once per id: whoever repeats it, at
\* once or later, is answered with the row of the first, another use of the id is
\* refused, and none but a conditional command is told that it failed
\* (add_comment, _execute).
CommandOnce ==
  \A t \in told :
    IF t.answer = Failed
    THEN \E a \in Asks : a.conditional /\ a.key = t.key /\ a.value = t.value
    ELSE /\ Present(table[t.key])
         /\ t.answer = IF t.value = table[t.key].value THEN table[t.key].id ELSE 0

\* What the last request about a name was answered is so, whatever came before,
\* unless requests about that name overlapped (add_tag, save_view, set_source,
\* create_relation and their removals: a source that was removed and is
\* configured again is active, with what was asked for).
AnswerStands ==
  \A k \in Key : latest[k] # NoAsk /\ k \notin overlapped =>
    LET row == table[k] IN
      IF latest[k].op = "drop" THEN row.status = "REMOVED"
      ELSE /\ row.status = "ACTIVE"
           /\ k.table \in {"view", "source", "relation"} => row.value = latest[k].value

\* The file of an uploaded source is complete when the source refers to it,
\* wherever the upload was cut short (upload_source, set_source).
UploadBacked ==
  \A k \in Key : k.table = "source" /\ table[k].value["uri"] \in 1..MaxRequests =>
    table[k].value["uri"] \in files

\* The refinement: the rows of comments and commands are the ledger, and who has
\* found no row and is not through is trying.
CommandKeys == {k \in Key : k.table \in Keyed}
EntryOf(row) == [id |-> row.id, value |-> row.value]
UseOf(r) ==
  IF pc[r] \in {"insert", "again", "commit"} /\ TableOf(r) \in Keyed
  THEN [key |-> KeyOf(r), value |-> ask[r].value, conditional |-> ask[r].conditional]
  ELSE NoAsk

Ledger == INSTANCE CommandLedger WITH
  CommandId <- CommandKeys, Client <- Request, NoEntry <- EntryOf(NoRow), NoUse <- NoAsk,
  Refusal <- 0, Failure <- Failed,
  entry <- [k \in CommandKeys |-> EntryOf(table[k])], trying <- [r \in Request |-> UseOf(r)],
  answers <- told

\* Clients can repeat themselves: whichever requests overlap or die, the first
\* use of an id is recorded once and never changed, and whoever looks after that
\* is answered from the record; one that looked before is, too, unless it is a
\* conditional command, which may be told that it failed (add_comment, _execute).
LedgerContract == Ledger!LedgerSpec

=============================================================================
