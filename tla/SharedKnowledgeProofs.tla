------------------------ MODULE SharedKnowledgeProofs ------------------------
(* What holds of a team's shared knowledge for any number of requests, names and
   rows: types, that repeated comments and commands are carried out once, that the
   last answer about a name stands, and that uploaded sources have their files. *)
EXTENDS SharedKnowledge, TLAPS

(* Types *)

Working(r) == pc[r] # "idle" => ask[r] \in Ask
TypeInv == TypeOK /\ \A r \in Request : Working(r)

LEMMA NoRowType == NoRow \in Row
  BY DEF NoRow, Row, Value

\* The request as it is carried out: an upload gets a URI of its own.
Received(a, n) == IF a.upload THEN [a EXCEPT !.value["uri"] = n] ELSE a

LEMMA ReceivedType ==
  ASSUME NEW a \in Ask, NEW n \in Nat
  PROVE  /\ Received(a, n) \in Ask
         /\ Received(a, n).op = a.op /\ Received(a, n).key = a.key
         /\ Received(a, n).upload = a.upload /\ Received(a, n).conditional = a.conditional
         /\ Received(a, n).value["uri"] = IF a.upload THEN n ELSE a.value["uri"]
<1>1. a.value \in [Column -> Nat] /\ "uri" \in Column
  BY DEF Ask, Value, Column
<1>2. [a.value EXCEPT !["uri"] = n] \in Value
  BY <1>1 DEF Value
<1>3. CASE a.upload
  BY <1>1, <1>2, <1>3 DEF Received, Ask
<1>4. CASE ~a.upload
  BY <1>4 DEF Received
<1>. QED  BY <1>3, <1>4

\* A request that has ended.
LEMMA EndType ==
  ASSUME TypeInv, NEW r \in Request, End(r)
  PROVE  /\ holder' \in [Key -> SUBSET Request]
         /\ pc' \in [Request -> Steps] /\ ask' \in [Request -> Ask \cup {NoAsk}]
         /\ mine' \in [Request -> Nat] /\ target' \in [Request -> Nat]
         /\ loaded' \in [Request -> Row] /\ image' \in [Request -> Row]
         /\ \A s \in Request : Working(s)'
<1> USE DEF TypeInv, TypeOK, End, Goto
<1>1. holder' \in [Key -> SUBSET Request]
  OBVIOUS
<1>2. pc' \in [Request -> Steps] /\ ask' \in [Request -> Ask \cup {NoAsk}]
  BY DEF Steps
<1>3. mine' \in [Request -> Nat] /\ target' \in [Request -> Nat]
  OBVIOUS
<1>4. loaded' \in [Request -> Row] /\ image' \in [Request -> Row]
  BY NoRowType
<1>5. \A s \in Request : Working(s)'
  BY DEF Working
<1>. QED  BY <1>1, <1>2, <1>3, <1>4, <1>5

\* A step of a request that does not end it.
LEMMA GotoType ==
  ASSUME TypeInv, NEW r \in Request, NEW step \in Steps \ {"idle"}, Goto(r, step),
         ask' = ask, pc[r] # "idle"
  PROVE  pc' \in [Request -> Steps] /\ \A s \in Request : Working(s)'
  BY DEF TypeInv, TypeOK, Goto, Working

LEMMA KeyType ==
  ASSUME TypeInv, NEW r \in Request, pc[r] # "idle"
  PROVE  /\ ask[r] \in Ask /\ KeyOf(r) \in Key /\ TableOf(r) \in Table
         /\ KeyOf(r).table = TableOf(r) /\ ask[r].value \in Value
         /\ table[KeyOf(r)] \in Row
  BY DEF TypeInv, TypeOK, Working, Ask, Key, KeyOf, TableOf

LEMMA ToldType ==
  ASSUME TypeInv, NEW r \in Request, pc[r] # "idle", NEW n \in Nat \cup {Failed}, Tell(r, n)
  PROVE  told' \subseteq [key : Key, value : Value, answer : Nat \cup {Failed}]
<1>1. [key |-> KeyOf(r), value |-> ask[r].value, answer |-> n]
        \in [key : Key, value : Value, answer : Nat \cup {Failed}]
  BY KeyType
<1>. QED  BY <1>1 DEF Tell, TypeInv, TypeOK

LEMMA ReplayType ==
  ASSUME NEW r, NEW row \in Row
  PROVE  Replay(r, row) \in Nat
  BY DEF Replay, Row

LEMMA AnsweredType ==
  ASSUME TypeInv, NEW r \in Request, pc[r] # "idle", Answered(r)
  PROVE  latest' \in [Key -> Ask \cup {NoAsk}]
  BY KeyType DEF Answered, TypeInv, TypeOK

LEMMA WritesType ==
  ASSUME TypeInv, NEW r \in Request, pc[r] # "idle", NEW row \in Row, Writes(r, row)
  PROVE  /\ holder' \in [Key -> SUBSET Request] /\ image' \in [Request -> Row]
         /\ pc' \in [Request -> Steps] /\ \A s \in Request : Working(s)'
<1>1. holder' \in [Key -> SUBSET Request]
  BY DEF Writes, TypeInv, TypeOK
<1>2. image' \in [Request -> Row]
  BY DEF Writes, TypeInv, TypeOK
<1>3. "commit" \in Steps \ {"idle"}
  BY DEF Steps
<1>. QED  BY <1>1, <1>2, <1>3, GotoType DEF Writes

LEMMA ArriveType ==
  ASSUME SharedKnowledgeAssumption, TypeInv, NEW r \in Request, NEW a \in Asks, Arrive(r, a)
  PROVE  TypeInv'
<1> USE DEF TypeInv, TypeOK, Arrive
<1>1. a \in Ask /\ requests' \in Nat
  BY DEF SharedKnowledgeAssumption
<1>2. Received(a, requests') \in Ask
  BY <1>1, ReceivedType
<1>3. ask' = [ask EXCEPT ![r] = Received(a, requests')]
  BY DEF Received
<1>4. a.key \in Key
  BY <1>1 DEF Ask
<1>5. ask' \in [Request -> Ask \cup {NoAsk}] /\ ask'[r] \in Ask
  BY <1>2, <1>3
<1>6. mine' \in [Request -> Nat] /\ target' \in [Request -> Nat]
  BY <1>1, <1>4 DEF Row
<1>7. pc' \in [Request -> Steps]
  BY DEF Goto, FirstStep, Steps
<1>8. latest' \in [Key -> Ask \cup {NoAsk}] /\ overlapped' \subseteq Key
  BY <1>4
<1>9. \A s \in Request : Working(s)'
  BY <1>3, <1>5 DEF Working, Goto
<1>. QED  BY <1>1, <1>5, <1>6, <1>7, <1>8, <1>9

LEMMA UploadType ==
  ASSUME TypeInv, NEW r \in Request, Upload(r)
  PROVE  TypeInv'
<1>1. pc[r] # "idle" /\ "read" \in Steps \ {"idle"}
  BY DEF Upload, Steps
<1>2. CASE files' = files \cup {mine[r]} /\ Goto(r, "read") /\ UNCHANGED <<holder, locals>>
  <2>1. pc' \in [Request -> Steps] /\ \A s \in Request : Working(s)'
    BY <1>1, <1>2, GotoType DEF locals
  <2>2. files' \subseteq Nat
    BY <1>2 DEF TypeInv, TypeOK
  <2>. QED  BY <1>2, <2>1, <2>2 DEF TypeInv, TypeOK, Upload, locals, history
<1>3. CASE End(r) /\ UNCHANGED files
  BY <1>3, EndType DEF TypeInv, TypeOK, Upload, history
<1>. QED  BY <1>2, <1>3 DEF Upload

\* What a first look may do.
LEMMA ReadType ==
  ASSUME TypeInv, NEW r \in Request, Read(r)
  PROVE  TypeInv'
<1> DEFINE row == table[KeyOf(r)]
<1>1. /\ pc[r] # "idle" /\ row \in Row
      /\ table' = table /\ files' = files /\ overlapped' = overlapped
      /\ requests' = requests /\ kills' = kills
  BY KeyType DEF Read
<1> HIDE DEF row
<1> DEFINE Rest ==
      /\ holder' \in [Key -> SUBSET Request]
      /\ pc' \in [Request -> Steps] /\ ask' \in [Request -> Ask \cup {NoAsk}]
      /\ mine' \in [Request -> Nat] /\ target' \in [Request -> Nat]
      /\ loaded' \in [Request -> Row] /\ image' \in [Request -> Row]
      /\ latest' \in [Key -> Ask \cup {NoAsk}]
      /\ told' \subseteq [key : Key, value : Value, answer : Nat \cup {Failed}]
      /\ \A s \in Request : Working(s)'
<1>2. ASSUME RepeatedCommand(r, row) PROVE Rest
  <2>1. End(r) /\ latest' = latest /\ Tell(r, Replay(r, row))
    BY <1>2 DEF RepeatedCommand
  <2>2. Replay(r, row) \in Nat
    BY <1>1, ReplayType
  <2>3. told' \subseteq [key : Key, value : Value, answer : Nat \cup {Failed}]
    BY <1>1, <2>1, <2>2, ToldType
  <2>. QED  BY <2>1, <2>3, EndType DEF TypeInv, TypeOK
<1>3. ASSUME AlreadyTagged(r, row) PROVE Rest
  <2>1. End(r) /\ Answered(r) /\ told' = told
    BY <1>3 DEF AlreadyTagged
  <2>2. latest' \in [Key -> Ask \cup {NoAsk}]
    BY <1>1, <2>1, AnsweredType
  <2>. QED  BY <2>1, <2>2, EndType DEF TypeInv, TypeOK
<1>4. ASSUME LoadRow(r, row) PROVE Rest
  <2>1. loaded' \in [Request -> Row]
    BY <1>1, <1>4 DEF LoadRow, TypeInv, TypeOK
  <2>2. Goto(r, "update") /\ "update" \in Steps \ {"idle"} /\ ask' = ask
    BY <1>4 DEF LoadRow, Steps
  <2>3. pc' \in [Request -> Steps] /\ \A s \in Request : Working(s)'
    BY <1>1, <2>2, GotoType
  <2>. QED  BY <1>4, <2>1, <2>3 DEF LoadRow, TypeInv, TypeOK
<1>5. ASSUME NoRowFound(r, row) PROVE Rest
  <2>1. Goto(r, "insert") /\ "insert" \in Steps \ {"idle"} /\ ask' = ask
    BY <1>5 DEF NoRowFound, Steps, locals
  <2>2. pc' \in [Request -> Steps] /\ \A s \in Request : Working(s)'
    BY <1>1, <2>1, GotoType
  <2>. QED  BY <1>5, <2>2 DEF NoRowFound, TypeInv, TypeOK, locals
<1>6. ASSUME FindTarget(r, row) PROVE Rest
  <2>1. CASE IsTarget(r, row)
    <3>1. loaded' \in [Request -> Row]
      BY <1>1, <1>6, <2>1 DEF FindTarget, TypeInv, TypeOK
    <3>2. PICK step \in Steps \ {"idle"} : Goto(r, step)
      BY <1>6, <2>1 DEF FindTarget, Steps
    <3>3. ask' = ask
      BY <1>6, <2>1 DEF FindTarget
    <3>4. pc' \in [Request -> Steps] /\ \A s \in Request : Working(s)'
      BY <1>1, <3>2, <3>3, GotoType
    <3>. QED  BY <1>6, <2>1, <3>1, <3>4 DEF FindTarget, TypeInv, TypeOK
  <2>2. CASE ~IsTarget(r, row)
    <3>1. End(r)
      BY <1>6, <2>2 DEF FindTarget
    <3>. QED  BY <1>6, <3>1, EndType DEF FindTarget, TypeInv, TypeOK
  <2>. QED  BY <2>1, <2>2
<1>7. Rest
  BY <1>2, <1>3, <1>4, <1>5, <1>6 DEF Read, row
<1>. QED  BY <1>1, <1>7 DEF TypeInv, TypeOK

LEMMA InsertType ==
  ASSUME TypeInv, NEW r \in Request, Insert(r)
  PROVE  TypeInv'
<1>1. pc[r] # "idle"
  BY DEF Insert
<1>2. CASE Present(table[KeyOf(r)])
  <2>1. PICK step \in Steps \ {"idle"} : Goto(r, step)
    BY <1>2 DEF Insert, AfterDuplicate, Steps
  <2>2. ask' = ask
    BY <1>2 DEF Insert, locals
  <2>3. pc' \in [Request -> Steps] /\ \A s \in Request : Working(s)'
    BY <1>1, <2>1, <2>2, GotoType
  <2>. QED  BY <1>2, <2>3 DEF Insert, TypeInv, TypeOK, locals, history
<1>3. CASE ~Present(table[KeyOf(r)])
  <2>1. NewRow(r) \in Row
    BY <1>1, KeyType DEF NewRow, Row, TypeInv, TypeOK
  <2>2. Writes(r, NewRow(r))
    BY <1>3 DEF Insert
  <2>3. /\ holder' \in [Key -> SUBSET Request] /\ image' \in [Request -> Row]
        /\ pc' \in [Request -> Steps] /\ \A s \in Request : Working(s)'
    BY <1>1, <2>1, <2>2, WritesType
  <2>. QED  BY <2>2, <2>3 DEF Insert, Writes, TypeInv, TypeOK, history
<1>. QED  BY <1>2, <1>3

LEMMA LookAgainType ==
  ASSUME TypeInv, NEW r \in Request, LookAgain(r) \/ Refuse(r) \/ FailCondition(r)
  PROVE  TypeInv'
<1>1. pc[r] # "idle" /\ End(r)
  BY DEF LookAgain, Refuse, FailCondition
<1>2. told' \subseteq [key : Key, value : Value, answer : Nat \cup {Failed}]
  <2>1. Replay(r, table[KeyOf(r)]) \in Nat /\ 0 \in Nat
    BY <1>1, KeyType, ReplayType
  <2>2. \E n \in Nat \cup {Failed} : Tell(r, n) \/ told' = told
    BY <2>1 DEF LookAgain, Refuse, FailCondition
  <2>. QED  BY <1>1, <2>2, ToldType DEF TypeInv, TypeOK
<1>. QED  BY <1>1, <1>2, EndType DEF LookAgain, Refuse, FailCondition, TypeInv, TypeOK

LEMMA MergedType ==
  ASSUME TypeInv, NEW r \in Request, pc[r] # "idle", NEW row \in Row
  PROVE  Merged(r, row) \in Value /\ Updated(r, row) \in Row
<1>1. ask[r].value \in [Column -> Nat] /\ row.value \in [Column -> Nat]
  BY KeyType DEF Row, Value
<1>2. Merged(r, row) \in Value
  BY <1>1 DEF Merged, Value
<1>. QED  BY <1>2 DEF Updated, Row

LEMMA UpdateType ==
  ASSUME TypeInv, NEW r \in Request, Update(r)
  PROVE  TypeInv'
<1>1. pc[r] # "idle" /\ table[KeyOf(r)] \in Row
  BY KeyType DEF Update
<1>2. CASE table[KeyOf(r)].id = loaded[r].id
  <2>1. Updated(r, table[KeyOf(r)]) \in Row
    BY <1>1, MergedType
  <2>2. Writes(r, Updated(r, table[KeyOf(r)]))
    BY <1>2 DEF Update
  <2>3. /\ holder' \in [Key -> SUBSET Request] /\ image' \in [Request -> Row]
        /\ pc' \in [Request -> Steps] /\ \A s \in Request : Working(s)'
    BY <1>1, <2>1, <2>2, WritesType
  <2>. QED  BY <2>2, <2>3 DEF Update, Writes, TypeInv, TypeOK, history
<1>3. CASE table[KeyOf(r)].id # loaded[r].id
  <2>1. Goto(r, "refuse") /\ "refuse" \in Steps \ {"idle"} /\ ask' = ask
    BY <1>3 DEF Update, Steps, locals
  <2>2. pc' \in [Request -> Steps] /\ \A s \in Request : Working(s)'
    BY <1>1, <2>1, GotoType
  <2>. QED  BY <1>3, <2>2 DEF Update, TypeInv, TypeOK, locals, history
<1>. QED  BY <1>2, <1>3

\* What retire and delete write.
LEMMA RemoveType ==
  ASSUME TypeInv, NEW r \in Request, Retire(r) \/ Delete(r)
  PROVE  TypeInv'
<1>1. pc[r] # "idle" /\ table[KeyOf(r)] \in Row
  BY KeyType DEF Retire, Delete
<1>2. [table[KeyOf(r)] EXCEPT !.status = "REMOVED"] \in Row
  BY <1>1 DEF Row
<1>3. PICK row \in Row : Writes(r, row)
  BY <1>1, <1>2, NoRowType DEF Retire, Delete
<1>4. /\ holder' \in [Key -> SUBSET Request] /\ image' \in [Request -> Row]
      /\ pc' \in [Request -> Steps] /\ \A s \in Request : Working(s)'
  BY <1>1, <1>3, WritesType
<1>. QED  BY <1>3, <1>4 DEF Retire, Delete, Writes, TypeInv, TypeOK, history

LEMMA CommitType ==
  ASSUME TypeInv, NEW r \in Request, Commit(r)
  PROVE  TypeInv'
<1>1. pc[r] # "idle" /\ End(r) /\ Answered(r)
  BY DEF Commit
<1>2. table' \in [Key -> Row]
  BY DEF Commit, TypeInv, TypeOK
<1>3. latest' \in [Key -> Ask \cup {NoAsk}]
  BY <1>1, AnsweredType
<1>4. told' \subseteq [key : Key, value : Value, answer : Nat \cup {Failed}]
  <2>1. mine[r] \in Nat
    BY DEF TypeInv, TypeOK
  <2>. QED  BY <1>1, <2>1, ToldType DEF Commit, TypeInv, TypeOK
<1>. QED  BY <1>1, <1>2, <1>3, <1>4, EndType DEF Commit, TypeInv, TypeOK

LEMMA KillType ==
  ASSUME TypeInv, NEW r \in Request, Kill(r)
  PROVE  TypeInv'
  BY EndType DEF Kill, TypeInv, TypeOK, history

LEMMA InitType == ASSUME SharedKnowledgeAssumption, Init PROVE TypeInv
<1>1. table \in [Key -> Row] /\ holder \in [Key -> SUBSET Request] /\ files \subseteq Nat
  BY NoRowType DEF Init
<1>2. pc \in [Request -> Steps] /\ ask \in [Request -> Ask \cup {NoAsk}]
  BY DEF Init, Steps
<1>3. /\ mine \in [Request -> Nat] /\ target \in [Request -> Nat]
      /\ loaded \in [Request -> Row] /\ image \in [Request -> Row]
  BY NoRowType DEF Init
<1>4. /\ latest \in [Key -> Ask \cup {NoAsk}] /\ overlapped \subseteq Key
      /\ told \subseteq [key : Key, value : Value, answer : Nat \cup {Failed}]
      /\ requests \in Nat /\ kills \in Nat
  BY DEF Init
<1>5. \A r \in Request : Working(r)
  BY DEF Init, Working
<1>. QED  BY <1>1, <1>2, <1>3, <1>4, <1>5 DEF TypeInv, TypeOK

LEMMA NextType == ASSUME SharedKnowledgeAssumption, TypeInv, [Next]_vars PROVE TypeInv'
<1>1. ASSUME NEW r \in Request, NEW a \in Asks, Arrive(r, a) PROVE TypeInv'
  BY <1>1, ArriveType
<1>2. ASSUME NEW r \in Request, Upload(r) PROVE TypeInv'
  BY <1>2, UploadType
<1>3. ASSUME NEW r \in Request, Read(r) PROVE TypeInv'
  BY <1>3, ReadType
<1>4. ASSUME NEW r \in Request, Insert(r) PROVE TypeInv'
  BY <1>4, InsertType
<1>5. ASSUME NEW r \in Request, LookAgain(r) \/ Refuse(r) \/ FailCondition(r) PROVE TypeInv'
  BY <1>5, LookAgainType
<1>6. ASSUME NEW r \in Request, Update(r) PROVE TypeInv'
  BY <1>6, UpdateType
<1>7. ASSUME NEW r \in Request, Retire(r) \/ Delete(r) PROVE TypeInv'
  BY <1>7, RemoveType
<1>8. ASSUME NEW r \in Request, Commit(r) PROVE TypeInv'
  BY <1>8, CommitType
<1>9. ASSUME NEW r \in Request, Kill(r) PROVE TypeInv'
  BY <1>9, KillType
<1>10. CASE UNCHANGED vars
  BY <1>10 DEF vars, locals, history, TypeInv, TypeOK, Working
<1>. QED  BY <1>1, <1>2, <1>3, <1>4, <1>5, <1>6, <1>7, <1>8, <1>9, <1>10 DEF Next

\* Every variable has its type, and a request that is served has asked something.
THEOREM TypeCorrect == Spec => []TypeOK
<1>1. Init => TypeInv
  BY SharedKnowledgeAssumption, InitType
<1>2. TypeInv /\ [Next]_vars => TypeInv'
  BY SharedKnowledgeAssumption, NextType
<1>3. TypeInv => TypeOK
  BY DEF TypeInv
<1>. QED  BY <1>1, <1>2, <1>3, PTL DEF Spec

(* What a step of one request leaves alone *)

Others(r) ==
  /\ files \subseteq files'
  /\ \A s \in Request \ {r} :
       /\ pc'[s] = pc[s] /\ ask'[s] = ask[s] /\ mine'[s] = mine[s] /\ image'[s] = image[s]
       /\ \A k \in Key : s \in holder'[k] <=> s \in holder[k]

LEMMA EndOthers ==
  ASSUME TypeInv, NEW r \in Request, End(r), files' = files
  PROVE  Others(r)
  BY DEF TypeInv, TypeOK, End, Goto, Others

LEMMA GotoOthers ==
  ASSUME TypeInv, NEW r \in Request, NEW step, Goto(r, step), files \subseteq files',
         UNCHANGED <<ask, mine, image, holder>>
  PROVE  Others(r)
  BY DEF TypeInv, TypeOK, Goto, Others

LEMMA WritesOthers ==
  ASSUME TypeInv, NEW r \in Request, pc[r] # "idle", NEW row, Takes(r), Writes(r, row), files' = files
  PROVE  Others(r)
  BY KeyType DEF TypeInv, TypeOK, Takes, Writes, Goto, Others

LEMMA ArriveOthers ==
  ASSUME TypeInv, NEW r \in Request, NEW a \in Asks, Arrive(r, a)
  PROVE  Others(r)
  BY DEF TypeInv, TypeOK, Arrive, Goto, Others

(* Uploads *)

\* An uploaded file is complete.
Backed(uri) == uri \in 1..MaxRequests => uri \in files

\* What a request has asked for, or is about to commit, is in the workspace.
Delivered(r) ==
  /\ pc[r] = "upload" => ask[r].value["uri"] = mine[r]
  /\ pc[r] \notin {"idle", "upload"} => Backed(ask[r].value["uri"])
  /\ pc[r] = "commit" => Backed(image[r].value["uri"])

FilesInv ==
  /\ \A k \in Key : Backed(table[k].value["uri"])
  /\ \A r \in Request : Delivered(r)

LEMMA DeliveredOthers ==
  ASSUME FilesInv, NEW r \in Request, Others(r), NEW s \in Request, s # r
  PROVE  Delivered(s)'
  BY DEF FilesInv, Others, Delivered, Backed

LEMMA TableBacked ==
  ASSUME FilesInv, table' = table, files \subseteq files'
  PROVE  (\A k \in Key : Backed(table[k].value["uri"]))'
  BY DEF FilesInv, Backed

LEMMA FilesKept ==
  ASSUME FilesInv, NEW r \in Request, Others(r), table' = table, Delivered(r)'
  PROVE  FilesInv'
<1>1. files \subseteq files'
  BY DEF Others
<1>. QED  BY <1>1, DeliveredOthers, TableBacked DEF FilesInv

LEMMA EndDelivered ==
  ASSUME TypeInv, NEW r \in Request, End(r)
  PROVE  Delivered(r)'
  BY DEF TypeInv, TypeOK, End, Goto, Delivered

\* A request that goes on, its upload behind it.
LEMMA GotoDelivered ==
  ASSUME TypeInv, FilesInv, NEW r \in Request, pc[r] \notin {"idle", "upload"},
         NEW step \in Steps \ {"idle", "upload", "commit"}, Goto(r, step),
         files' = files, ask' = ask
  PROVE  Delivered(r)'
  BY DEF TypeInv, TypeOK, FilesInv, Goto, Delivered, Backed

LEMMA WritesDelivered ==
  ASSUME TypeInv, FilesInv, NEW r \in Request, pc[r] \notin {"idle", "upload"},
         NEW row, Writes(r, row), files' = files, Backed(row.value["uri"])
  PROVE  Delivered(r)'
  BY DEF TypeInv, TypeOK, FilesInv, Writes, Goto, Delivered, Backed

LEMMA ArriveFiles ==
  ASSUME SharedKnowledgeAssumption, TypeInv, FilesInv, NEW r \in Request, NEW a \in Asks,
         Arrive(r, a)
  PROVE  FilesInv'
<1>1. a \in Ask /\ requests' \in Nat
  BY DEF SharedKnowledgeAssumption, Arrive, TypeInv, TypeOK
<1>2. ask'[r] = Received(a, requests') /\ mine'[r] = requests'
  BY DEF Arrive, Received, TypeInv, TypeOK
<1>3. pc'[r] = IF a.upload THEN "upload" ELSE "read"
  BY DEF Arrive, Goto, FirstStep, TypeInv, TypeOK
<1> DEFINE uri == Received(a, requests').value["uri"]
<1>4. uri = IF a.upload THEN requests' ELSE a.value["uri"]
  BY <1>1, ReceivedType
<1>5. CASE a.upload
  <2>1. ask'[r].value["uri"] = mine'[r]
    BY <1>2, <1>5, <1>4
  <2>2. Delivered(r)'
    BY <1>3, <1>5, <2>1 DEF Delivered
  <2>. QED  BY <2>2, ArriveOthers, FilesKept DEF Arrive
<1>6. CASE ~a.upload
  <2>1. ask'[r].value["uri"] \notin 1..MaxRequests
    BY <1>2, <1>6, <1>4 DEF SharedKnowledgeAssumption
  <2>2. Delivered(r)'
    BY <1>3, <1>6, <2>1 DEF Delivered, Backed
  <2>. QED  BY <2>2, ArriveOthers, FilesKept DEF Arrive
<1>. QED  BY <1>5, <1>6

LEMMA UploadFiles ==
  ASSUME TypeInv, FilesInv, NEW r \in Request, Upload(r)
  PROVE  FilesInv'
<1>1. CASE files' = files \cup {mine[r]} /\ Goto(r, "read") /\ UNCHANGED <<holder, locals>>
  <2>1. Others(r)
    BY <1>1, GotoOthers DEF locals
  <2>2. Delivered(r)'
    BY <1>1 DEF Upload, Goto, TypeInv, TypeOK, FilesInv, Delivered, Backed, locals
  <2>. QED  BY <2>1, <2>2, FilesKept DEF Upload
<1>2. CASE End(r) /\ UNCHANGED files
  BY <1>2, EndOthers, EndDelivered, FilesKept DEF Upload
<1>. QED  BY <1>1, <1>2 DEF Upload

\* A first look ends the request, or it goes on to one of four steps.
LEMMA ReadGoes ==
  ASSUME NEW r \in Request, Read(r)
  PROVE  \/ End(r)
         \/ /\ \E step \in Steps \ {"idle", "upload", "commit", "read"} : Goto(r, step)
            /\ UNCHANGED <<ask, mine, image, holder>>
  BY DEF Read, RepeatedCommand, AlreadyTagged, LoadRow, NoRowFound, FindTarget, Steps, locals

LEMMA ReadFiles ==
  ASSUME TypeInv, FilesInv, NEW r \in Request, Read(r)
  PROVE  FilesInv'
<1>1. pc[r] = "read" /\ files' = files /\ table' = table
  BY DEF Read
<1>2. CASE End(r)
  BY <1>1, <1>2, EndOthers, EndDelivered, FilesKept
<1>3. ASSUME NEW step \in Steps \ {"idle", "upload", "commit", "read"}, Goto(r, step),
             UNCHANGED <<ask, mine, image, holder>>
      PROVE  FilesInv'
  BY <1>1, <1>3, GotoOthers, GotoDelivered, FilesKept
<1>. QED  BY <1>2, <1>3, ReadGoes

LEMMA InsertFiles ==
  ASSUME TypeInv, FilesInv, NEW r \in Request, Insert(r)
  PROVE  FilesInv'
<1>1. pc[r] = "insert" /\ Takes(r) /\ files' = files /\ table' = table
  BY DEF Insert
<1>2. CASE Present(table[KeyOf(r)])
  <2>1. PICK step \in Steps \ {"idle", "upload", "commit"} : Goto(r, step)
    BY <1>2 DEF Insert, AfterDuplicate, Steps
  <2>2. UNCHANGED <<ask, mine, image, holder>>
    BY <1>2 DEF Insert, locals
  <2>. QED  BY <1>1, <2>1, <2>2, GotoOthers, GotoDelivered, FilesKept
<1>3. CASE ~Present(table[KeyOf(r)])
  <2>1. Writes(r, NewRow(r))
    BY <1>3 DEF Insert
  <2>2. Backed(NewRow(r).value["uri"])
    BY <1>1 DEF NewRow, FilesInv, Delivered
  <2>. QED  BY <1>1, <2>1, <2>2, WritesOthers, WritesDelivered, FilesKept
<1>. QED  BY <1>2, <1>3

LEMMA UpdateFiles ==
  ASSUME TypeInv, FilesInv, NEW r \in Request, Update(r)
  PROVE  FilesInv'
<1>1. pc[r] = "update" /\ Takes(r) /\ files' = files /\ table' = table
  BY DEF Update
<1>2. CASE table[KeyOf(r)].id = loaded[r].id
  <2> DEFINE row == Updated(r, table[KeyOf(r)])
  <2>1. Writes(r, row)
    BY <1>2 DEF Update
  <2>2. KeyOf(r) \in Key /\ table[KeyOf(r)] \in Row
    BY <1>1, KeyType
  <2>3. row.value = Merged(r, table[KeyOf(r)])
    BY <2>2 DEF Updated, Row
  <2>4. row.value["uri"] \in {ask[r].value["uri"], table[KeyOf(r)].value["uri"]}
    BY <2>3 DEF Merged, Column
  <2>5. Backed(row.value["uri"])
    BY <1>1, <2>2, <2>4 DEF FilesInv, Delivered
  <2>. QED  BY <1>1, <2>1, <2>5, WritesOthers, WritesDelivered, FilesKept
<1>3. CASE table[KeyOf(r)].id # loaded[r].id
  <2>1. Goto(r, "refuse") /\ "refuse" \in Steps \ {"idle", "upload", "commit"}
    BY <1>3 DEF Update, Steps
  <2>2. UNCHANGED <<ask, mine, image, holder>>
    BY <1>3 DEF Update, locals
  <2>. QED  BY <1>1, <2>1, <2>2, GotoOthers, GotoDelivered, FilesKept
<1>. QED  BY <1>2, <1>3

LEMMA RemoveFiles ==
  ASSUME TypeInv, FilesInv, NEW r \in Request, Retire(r) \/ Delete(r)
  PROVE  FilesInv'
<1>1. pc[r] \notin {"idle", "upload"} /\ Takes(r) /\ files' = files /\ table' = table
  BY DEF Retire, Delete
<1>2. KeyOf(r) \in Key /\ table[KeyOf(r)] \in Row
  BY <1>1, KeyType
<1>3. PICK row : Writes(r, row) /\ row.value["uri"] \in {0, table[KeyOf(r)].value["uri"]}
  <2>1. [table[KeyOf(r)] EXCEPT !.status = "REMOVED"].value = table[KeyOf(r)].value
    BY <1>2 DEF Row
  <2>2. NoRow.value["uri"] = 0
    BY DEF NoRow, Column
  <2>. QED  BY <2>1, <2>2 DEF Retire, Delete
<1>4. Backed(row.value["uri"])
  <2>1. Backed(0)
    BY DEF Backed
  <2>. QED  BY <1>2, <1>3, <2>1 DEF FilesInv
<1>. QED  BY <1>1, <1>3, <1>4, WritesOthers, WritesDelivered, FilesKept

LEMMA CommitFiles ==
  ASSUME TypeInv, FilesInv, NEW r \in Request, Commit(r)
  PROVE  FilesInv'
<1>1. pc[r] = "commit" /\ End(r) /\ files' = files
  BY DEF Commit
<1>2. table' = [table EXCEPT ![KeyOf(r)] = image[r]]
  BY DEF Commit
<1>3. Backed(image[r].value["uri"])
  BY <1>1 DEF FilesInv, Delivered
<1>4. (\A k \in Key : Backed(table[k].value["uri"]))'
  BY <1>1, <1>2, <1>3 DEF FilesInv, Backed, TypeInv, TypeOK
<1>5. \A s \in Request : Delivered(s)'
  BY <1>1, EndOthers, EndDelivered, DeliveredOthers
<1>. QED  BY <1>4, <1>5 DEF FilesInv

LEMMA EndFiles ==
  ASSUME TypeInv, FilesInv, NEW r \in Request,
         FailCondition(r) \/ LookAgain(r) \/ Refuse(r) \/ Kill(r)
  PROVE  FilesInv'
  BY EndOthers, EndDelivered, FilesKept DEF FailCondition, LookAgain, Refuse, Kill

LEMMA NextFiles ==
  ASSUME SharedKnowledgeAssumption, TypeInv, FilesInv, [Next]_vars
  PROVE  FilesInv'
<1>1. ASSUME NEW r \in Request, NEW a \in Asks, Arrive(r, a) PROVE FilesInv'
  BY <1>1, ArriveFiles
<1>2. ASSUME NEW r \in Request, Upload(r) PROVE FilesInv'
  BY <1>2, UploadFiles
<1>3. ASSUME NEW r \in Request, Read(r) PROVE FilesInv'
  BY <1>3, ReadFiles
<1>4. ASSUME NEW r \in Request, Insert(r) PROVE FilesInv'
  BY <1>4, InsertFiles
<1>5. ASSUME NEW r \in Request, Update(r) PROVE FilesInv'
  BY <1>5, UpdateFiles
<1>6. ASSUME NEW r \in Request, Retire(r) \/ Delete(r) PROVE FilesInv'
  BY <1>6, RemoveFiles
<1>7. ASSUME NEW r \in Request, Commit(r) PROVE FilesInv'
  BY <1>7, CommitFiles
<1>8. ASSUME NEW r \in Request, FailCondition(r) \/ LookAgain(r) \/ Refuse(r) \/ Kill(r)
      PROVE FilesInv'
  BY <1>8, EndFiles
<1>9. CASE UNCHANGED vars
  BY <1>9 DEF vars, locals, history, FilesInv, Delivered, Backed
<1>. QED  BY <1>1, <1>2, <1>3, <1>4, <1>5, <1>6, <1>7, <1>8, <1>9 DEF Next

\* The file of an uploaded source is complete when a source refers to it.
THEOREM UploadsAreBacked == Spec => []UploadBacked
<1>1. Init => TypeInv /\ FilesInv
  <2>1. ASSUME Init PROVE FilesInv
    BY <2>1 DEF Init, FilesInv, Delivered, Backed, NoRow, Column
  <2>. QED  BY <2>1, SharedKnowledgeAssumption, InitType
<1>2. TypeInv /\ FilesInv /\ [Next]_vars => TypeInv' /\ FilesInv'
  BY SharedKnowledgeAssumption, NextType, NextFiles
<1>3. FilesInv => UploadBacked
  BY DEF FilesInv, UploadBacked, Backed
<1>. QED  BY <1>1, <1>2, <1>3, PTL DEF Spec

(* Repeated comments and commands *)

\* A row has an uncommitted write of one request at most, which is to commit it.
Held ==
  \A k \in Key : \A r \in holder[k] :
    pc[r] = "commit" /\ KeyOf(r) = k /\ \A s \in holder[k] : s = r

\* A conditional request is a command that a client has asked for.
Conditional(r) ==
  pc[r] # "idle" /\ ask[r].conditional =>
    /\ TableOf(r) \in Keyed
    /\ \E a \in Asks : a.conditional /\ a.key = KeyOf(r) /\ a.value = ask[r].value

\* What a request has established: its write is held, its comment or command is
\* new until then or known to be there, and it changes or drops named rows only.
Sound(r) ==
  /\ pc[r] = "commit" => r \in holder[KeyOf(r)]
  /\ pc[r] = "commit" /\ TableOf(r) \in Keyed =>
       ~Present(table[KeyOf(r)]) /\ image[r] = NewRow(r)
  /\ pc[r] = "again" => TableOf(r) \in Keyed /\ Present(table[KeyOf(r)])
  /\ pc[r] \in {"refuse", "update", "retire", "delete"} => TableOf(r) \in Named
  /\ pc[r] # "idle" /\ ask[r].op = "drop" => TableOf(r) \in Named
  /\ Conditional(r)

\* Answers are about comments and commands, and they are the right ones.
AnswersInv == CommandOnce /\ \A t \in told : t.key \in Key /\ t.key.table \in Keyed

OnceInv == Held /\ AnswersInv /\ \A r \in Request : Sound(r)

LEMMA FailedType == Failed \notin Nat
  BY DEF Failed

LEMMA NamedOrKeyed ==
  ASSUME NEW t \in Table
  PROVE  t \in Named <=> t \notin Keyed
  BY DEF Table, Named, Keyed

LEMMA EndHeld ==
  ASSUME TypeInv, Held, NEW r \in Request, End(r)
  PROVE  Held'
<1> SUFFICES ASSUME NEW k \in Key, NEW q \in holder'[k]
             PROVE  pc'[q] = "commit" /\ KeyOf(q)' = k /\ \A s \in holder'[k] : s = q
  BY DEF Held
<1>1. holder'[k] = holder[k] \ {r} /\ holder[k] \subseteq Request
  BY DEF End, TypeInv, TypeOK
<1>2. q \in Request /\ q # r /\ q \in holder[k]
  BY <1>1
<1>3. pc'[q] = pc[q] /\ ask'[q] = ask[q]
  BY <1>2 DEF End, Goto, TypeInv, TypeOK
<1>. QED  BY <1>1, <1>2, <1>3 DEF Held, KeyOf

LEMMA WritesHeld ==
  ASSUME TypeInv, Held, NEW r \in Request, pc[r] \notin {"idle", "commit"}, NEW row,
         Takes(r), Writes(r, row)
  PROVE  Held'
<1> SUFFICES ASSUME NEW k \in Key, NEW q \in holder'[k]
             PROVE  pc'[q] = "commit" /\ KeyOf(q)' = k /\ \A s \in holder'[k] : s = q
  BY DEF Held
<1>1. KeyOf(r) \in Key /\ KeyOf(r)' = KeyOf(r)
  BY KeyType DEF Writes, KeyOf
<1>2. holder' = [holder EXCEPT ![KeyOf(r)] = {r}]
  BY DEF Writes
<1>3. pc'[r] = "commit" /\ ask' = ask /\ \A s \in Request \ {r} : pc'[s] = pc[s]
  BY DEF Writes, Goto, TypeInv, TypeOK
<1>4. CASE k = KeyOf(r)
  <2>1. holder'[k] = {r}
    BY <1>2, <1>4 DEF TypeInv, TypeOK
  <2>. QED  BY <1>1, <1>3, <1>4, <2>1
<1>5. CASE k # KeyOf(r)
  <2>1. holder'[k] = holder[k] /\ holder[k] \subseteq Request
    BY <1>2, <1>5 DEF TypeInv, TypeOK
  <2>2. q \in Request \ {r}
    BY <2>1 DEF Held
  <2>. QED  BY <1>3, <2>1, <2>2 DEF Held, KeyOf
<1>. QED  BY <1>4, <1>5

LEMMA SameHeld ==
  ASSUME TypeInv, Held, NEW r \in Request, pc[r] # "commit", Others(r), holder' = holder
  PROVE  Held'
<1> SUFFICES ASSUME NEW k \in Key, NEW q \in holder[k]
             PROVE  pc'[q] = "commit" /\ KeyOf(q)' = k /\ \A s \in holder[k] : s = q
  BY DEF Held
<1>1. q \in Request /\ q # r
  BY DEF Held, TypeInv, TypeOK
<1>. QED  BY <1>1 DEF Held, Others, KeyOf

\* A step that commits nothing changes nothing for the others.
LEMMA SoundOthers ==
  ASSUME TypeInv, NEW r \in Request, Others(r), table' = table,
         NEW s \in Request, s # r, Sound(s)
  PROVE  Sound(s)'
<1>1. /\ pc'[s] = pc[s] /\ ask'[s] = ask[s] /\ mine'[s] = mine[s] /\ image'[s] = image[s]
      /\ \A k \in Key : s \in holder'[k] <=> s \in holder[k]
  BY DEF Others
<1>2. KeyOf(s)' = KeyOf(s) /\ TableOf(s)' = TableOf(s) /\ NewRow(s)' = NewRow(s)
  BY <1>1 DEF KeyOf, TableOf, NewRow
<1>3. pc[s] # "idle" => KeyOf(s) \in Key
  BY KeyType
<1>4. pc[s] = "commit" => s \in holder'[KeyOf(s)]
  BY <1>1, <1>3 DEF Sound
<1>5. Conditional(s)'
  BY <1>1, <1>2 DEF Sound, Conditional
<1>. QED  BY <1>1, <1>2, <1>4, <1>5 DEF Sound, Present

LEMMA EndSound ==
  ASSUME TypeInv, NEW r \in Request, End(r)
  PROVE  Sound(r)'
<1>1. pc'[r] = "idle"
  BY DEF End, Goto, TypeInv, TypeOK
<1>. QED  BY <1>1 DEF Sound, Conditional

\* Steps that tell nobody anything and commit nothing.
LEMMA Quiet ==
  ASSUME TypeInv, OnceInv, NEW r \in Request, Others(r), table' = table, told' = told,
         Sound(r)', Held'
  PROVE  OnceInv'
<1>1. AnswersInv'
  BY DEF OnceInv, AnswersInv, CommandOnce, Present
<1>2. \A s \in Request : Sound(s)'
  BY SoundOthers DEF OnceInv
<1>. QED  BY <1>1, <1>2 DEF OnceInv

\* A repeated request is answered about a row that is there.
LEMMA Repeats ==
  ASSUME TypeInv, OnceInv, NEW r \in Request, pc[r] # "idle", TableOf(r) \in Keyed,
         Present(table[KeyOf(r)]), Tell(r, Replay(r, table[KeyOf(r)])), table' = table
  PROVE  AnswersInv'
<1>1. KeyOf(r) \in Key /\ KeyOf(r).table = TableOf(r)
  BY KeyType
<1> DEFINE new == [key |-> KeyOf(r), value |-> ask[r].value,
                   answer |-> Replay(r, table[KeyOf(r)])]
<1>2. told' = told \cup {new}
  BY DEF Tell
<1>3. new.answer = IF new.value = table[new.key].value THEN table[new.key].id ELSE 0
  BY DEF Replay
<1>4. new.answer # Failed
  BY ReplayType, KeyType, FailedType
<1>. QED  BY <1>1, <1>2, <1>3, <1>4 DEF OnceInv, AnswersInv, CommandOnce, Present

LEMMA RepeatsEnd ==
  ASSUME TypeInv, OnceInv, NEW r \in Request, pc[r] # "idle", TableOf(r) \in Keyed,
         Present(table[KeyOf(r)]), Tell(r, Replay(r, table[KeyOf(r)])), End(r),
         table' = table, files' = files
  PROVE  OnceInv'
<1>1. Held' /\ Others(r) /\ Sound(r)'
  BY EndHeld, EndOthers, EndSound DEF OnceInv
<1>2. \A s \in Request : Sound(s)'
  BY <1>1, SoundOthers DEF OnceInv
<1>. QED  BY <1>1, <1>2, Repeats DEF OnceInv

LEMMA QuietEnd ==
  ASSUME TypeInv, OnceInv, NEW r \in Request, End(r), UNCHANGED <<table, told, files>>
  PROVE  OnceInv'
  BY EndHeld, EndOthers, EndSound, Quiet DEF OnceInv

\* Steps on the way, which hold nothing.
LEMMA QuietGoto ==
  ASSUME TypeInv, OnceInv, NEW r \in Request, pc[r] \notin {"idle", "commit"},
         NEW step \in Steps \ {"idle", "commit"}, Goto(r, step),
         step = "again" => TableOf(r) \in Keyed /\ Present(table[KeyOf(r)]),
         step \in {"refuse", "update", "retire", "delete"} => TableOf(r) \in Named,
         files \subseteq files', UNCHANGED <<table, told, ask, mine, image, holder>>
  PROVE  OnceInv'
<1>1. Others(r)
  BY GotoOthers
<1>2. Held'
  BY <1>1, SameHeld DEF OnceInv
<1>3. pc'[r] = step /\ TableOf(r)' = TableOf(r) /\ KeyOf(r)' = KeyOf(r)
  BY DEF Goto, TypeInv, TypeOK, TableOf, KeyOf
<1>4. Conditional(r)'
  BY <1>3 DEF Sound, OnceInv, Conditional
<1>5. Sound(r)'
  BY <1>3, <1>4 DEF Sound, OnceInv, Present
<1>. QED  BY <1>1, <1>2, <1>5, Quiet

LEMMA QuietWrites ==
  ASSUME TypeInv, OnceInv, NEW r \in Request, pc[r] \notin {"idle", "commit"},
         NEW row, Takes(r), Writes(r, row),
         TableOf(r) \in Keyed => ~Present(table[KeyOf(r)]) /\ row = NewRow(r),
         UNCHANGED <<table, told, files>>
  PROVE  OnceInv'
<1>1. Others(r) /\ Held'
  BY WritesOthers, WritesHeld DEF OnceInv
<1>2. /\ pc'[r] = "commit" /\ image'[r] = row
      /\ TableOf(r)' = TableOf(r) /\ KeyOf(r)' = KeyOf(r) /\ NewRow(r)' = NewRow(r)
  BY DEF Writes, Goto, TypeInv, TypeOK, TableOf, KeyOf, NewRow
<1>3. r \in holder'[KeyOf(r)]
  BY KeyType DEF Writes, TypeInv, TypeOK
<1>4. ask' = ask /\ Sound(r)
  BY DEF Writes, OnceInv
<1>5. Conditional(r)'
  BY <1>2, <1>4 DEF Sound, Conditional
<1>6. Sound(r)'
  BY <1>2, <1>3, <1>4, <1>5 DEF Sound, Present
<1>. QED  BY <1>1, <1>6, Quiet

LEMMA ArriveOnce ==
  ASSUME SharedKnowledgeAssumption, TypeInv, OnceInv, NEW r \in Request, NEW a \in Asks,
         Arrive(r, a)
  PROVE  OnceInv'
<1>1. Others(r)
  BY ArriveOthers
<1>2. Held'
  BY <1>1, SameHeld DEF OnceInv, Arrive
<1>3. a \in Ask /\ requests' \in Nat
  BY DEF SharedKnowledgeAssumption, Arrive, TypeInv, TypeOK
<1>4. ask'[r] = Received(a, requests')
  BY DEF Arrive, Received, TypeInv, TypeOK
<1>5. ask'[r].op = a.op /\ ask'[r].key = a.key /\ ask'[r].conditional = a.conditional
  BY <1>3, <1>4, ReceivedType
<1>6. pc'[r] \in {"upload", "read"}
  BY DEF Arrive, Goto, FirstStep, TypeInv, TypeOK
<1>7. a.op = "drop" => TableOf(r)' \in Named
  BY <1>5 DEF SharedKnowledgeAssumption, TableOf
<1>8. Conditional(r)'
  <2> SUFFICES ASSUME a.conditional
               PROVE  /\ TableOf(r)' \in Keyed
                      /\ \E b \in Asks : b.conditional /\ b.key = KeyOf(r)' /\ b.value = ask'[r].value
    BY <1>5 DEF Conditional
  <2>1. a.key.table = "command" /\ ~a.upload
    BY DEF SharedKnowledgeAssumption
  <2>2. ask'[r] = a
    BY <1>4, <2>1 DEF Received
  <2>. QED  BY <2>1, <2>2 DEF TableOf, KeyOf, Keyed
<1>9. Sound(r)'
  BY <1>5, <1>6, <1>7, <1>8 DEF Sound
<1>10. table' = table /\ told' = told
  BY DEF Arrive
<1>. QED  BY <1>1, <1>2, <1>9, <1>10, Quiet

LEMMA UploadOnce ==
  ASSUME TypeInv, OnceInv, NEW r \in Request, Upload(r)
  PROVE  OnceInv'
<1>1. "read" \in Steps \ {"idle", "commit"}
  BY DEF Steps
<1>2. UNCHANGED <<table, told>> /\ pc[r] = "upload"
  BY DEF Upload, history
<1>3. CASE files' = files \cup {mine[r]} /\ Goto(r, "read") /\ UNCHANGED <<holder, locals>>
  <2>1. files \subseteq files' /\ UNCHANGED <<ask, mine, image, holder>>
    BY <1>3 DEF locals
  <2>. QED  BY <1>1, <1>2, <1>3, <2>1, QuietGoto
<1>4. CASE End(r) /\ UNCHANGED files
  BY <1>2, <1>4, QuietEnd
<1>. QED  BY <1>3, <1>4 DEF Upload

LEMMA ReadOnce ==
  ASSUME TypeInv, OnceInv, NEW r \in Request, Read(r)
  PROVE  OnceInv'
<1> DEFINE row == table[KeyOf(r)]
<1>1. pc[r] = "read" /\ table' = table /\ files' = files
  BY DEF Read
<1>2. CASE ask[r].op = "put" /\ RepeatedCommand(r, row)
  BY <1>1, <1>2, RepeatsEnd DEF RepeatedCommand
<1>3. CASE ask[r].op = "put" /\ AlreadyTagged(r, row)
  BY <1>1, <1>3, QuietEnd DEF AlreadyTagged
<1>4. CASE ask[r].op = "put" /\ LoadRow(r, row)
  <2>1. TableOf(r) \in Named /\ Goto(r, "update") /\ "update" \in Steps \ {"idle", "commit"}
    BY <1>4 DEF LoadRow, Named, Steps
  <2>2. UNCHANGED <<told, ask, mine, image, holder>>
    BY <1>4 DEF LoadRow
  <2>. QED  BY <1>1, <2>1, <2>2, QuietGoto
<1>5. CASE ask[r].op = "put" /\ NoRowFound(r, row)
  <2>1. Goto(r, "insert") /\ "insert" \in Steps \ {"idle", "commit"}
    BY <1>5 DEF NoRowFound, Steps
  <2>2. UNCHANGED <<told, ask, mine, image, holder>>
    BY <1>5 DEF NoRowFound, locals
  <2>. QED  BY <1>1, <2>1, <2>2, QuietGoto
<1>6. CASE ask[r].op = "drop" /\ FindTarget(r, row)
  <2>1. told' = told /\ TableOf(r) \in Named
    BY <1>1, <1>6 DEF FindTarget, OnceInv, Sound
  <2>2. CASE IsTarget(r, row)
    <3>1. PICK step \in {"retire", "delete"} : Goto(r, step)
      BY <1>6, <2>2 DEF FindTarget
    <3>2. step \in Steps \ {"idle", "commit"} /\ step # "again"
      BY DEF Steps
    <3>3. UNCHANGED <<ask, mine, image, holder>>
      BY <1>6, <2>2 DEF FindTarget
    <3>. QED  BY <1>1, <2>1, <3>1, <3>2, <3>3, QuietGoto
  <2>3. CASE ~IsTarget(r, row)
    <3>1. End(r)
      BY <1>6, <2>3 DEF FindTarget
    <3>. QED  BY <1>1, <2>1, <3>1, QuietEnd
  <2>. QED  BY <2>2, <2>3
<1>. QED  BY <1>2, <1>3, <1>4, <1>5, <1>6 DEF Read

LEMMA InsertOnce ==
  ASSUME TypeInv, OnceInv, NEW r \in Request, Insert(r)
  PROVE  OnceInv'
<1>1. pc[r] = "insert" /\ Takes(r) /\ UNCHANGED <<table, told, files>>
  BY DEF Insert, history
<1>2. CASE Present(table[KeyOf(r)])
  <2>1. Goto(r, AfterDuplicate(r)) /\ UNCHANGED <<ask, mine, image, holder>>
    BY <1>2 DEF Insert, locals
  <2>2. AfterDuplicate(r) \in Steps \ {"idle", "commit"}
    BY DEF AfterDuplicate, Steps
  <2>3. TableOf(r) \in Named <=> TableOf(r) \notin Keyed
    BY <1>1, KeyType, NamedOrKeyed
  <2>4. AfterDuplicate(r) = IF TableOf(r) \in Keyed THEN "again" ELSE "refuse"
    BY DEF AfterDuplicate
  <2>. QED  BY <1>1, <1>2, <2>1, <2>2, <2>3, <2>4, QuietGoto
<1>3. CASE ~Present(table[KeyOf(r)])
  <2>1. Writes(r, NewRow(r))
    BY <1>3 DEF Insert
  <2>. QED  BY <1>1, <1>3, <2>1, QuietWrites
<1>. QED  BY <1>2, <1>3

LEMMA NamedWrites ==
  ASSUME TypeInv, OnceInv, NEW r \in Request, Update(r) \/ Retire(r) \/ Delete(r)
  PROVE  OnceInv'
<1>1. pc[r] \in {"update", "retire", "delete"} /\ Takes(r) /\ UNCHANGED <<table, told, files>>
  BY DEF Update, Retire, Delete, history
<1>2. TableOf(r) \in Named /\ TableOf(r) \notin Keyed
  BY <1>1, KeyType, NamedOrKeyed DEF OnceInv, Sound
<1>3. CASE \E row : Writes(r, row)
  BY <1>1, <1>2, <1>3, QuietWrites
<1>4. CASE Goto(r, "refuse") /\ UNCHANGED <<holder, locals>>
  <2>1. "refuse" \in Steps \ {"idle", "commit"} /\ UNCHANGED <<ask, mine, image, holder>>
    BY <1>4 DEF Steps, locals
  <2>. QED  BY <1>1, <1>2, <1>4, <2>1, QuietGoto
<1>. QED  BY <1>3, <1>4 DEF Update, Retire, Delete

LEMMA FailConditionOnce ==
  ASSUME TypeInv, OnceInv, NEW r \in Request, FailCondition(r)
  PROVE  OnceInv'
<1>1. pc[r] # "idle" /\ ask[r].conditional /\ Sound(r) /\ End(r) /\ UNCHANGED <<table, files>>
  BY DEF FailCondition, OnceInv
<1> DEFINE new == [key |-> KeyOf(r), value |-> ask[r].value, answer |-> Failed]
<1>2. told' = told \cup {new}
  BY DEF FailCondition, Tell
<1>3. /\ new.answer = Failed /\ new.key \in Key /\ new.key.table \in Keyed
      /\ \E a \in Asks : a.conditional /\ a.key = new.key /\ a.value = new.value
  BY <1>1, KeyType DEF Sound, Conditional
<1> HIDE DEF new
<1>4. AnswersInv'
  BY <1>1, <1>2, <1>3 DEF OnceInv, AnswersInv, CommandOnce, Present
<1>5. Held' /\ Others(r) /\ Sound(r)'
  BY <1>1, EndHeld, EndOthers, EndSound DEF OnceInv
<1>6. \A s \in Request : Sound(s)'
  BY <1>1, <1>5, SoundOthers DEF OnceInv
<1>. QED  BY <1>4, <1>5, <1>6 DEF OnceInv

LEMMA EndOnce ==
  ASSUME TypeInv, OnceInv, NEW r \in Request,
         FailCondition(r) \/ LookAgain(r) \/ Refuse(r) \/ Kill(r)
  PROVE  OnceInv'
<1>1. CASE LookAgain(r)
  <2>1. pc[r] = "again" /\ TableOf(r) \in Keyed /\ Present(table[KeyOf(r)])
    BY <1>1 DEF LookAgain, OnceInv, Sound
  <2>. QED  BY <1>1, <2>1, RepeatsEnd DEF LookAgain
<1>2. CASE Refuse(r)
  <2>1. TableOf(r) \notin Keyed
    BY <1>2, KeyType, NamedOrKeyed DEF Refuse, OnceInv, Sound
  <2>. QED  BY <1>2, <2>1, QuietEnd DEF Refuse
<1>3. CASE Kill(r)
  BY <1>3, QuietEnd DEF Kill, history
<1>. QED  BY <1>1, <1>2, <1>3, FailConditionOnce

\* The first commit about an id is the only one: nobody has been answered about it,
\* except that a conditional command may have failed.
LEMMA CommitOnce ==
  ASSUME TypeInv, OnceInv, NEW r \in Request, Commit(r)
  PROVE  OnceInv'
<1>1. pc[r] = "commit" /\ End(r) /\ files' = files
  BY DEF Commit
<1>2. KeyOf(r) \in Key /\ KeyOf(r).table = TableOf(r) /\ TableOf(r) \in Table
  BY <1>1, KeyType
<1>3. table' = [table EXCEPT ![KeyOf(r)] = image[r]]
  BY DEF Commit
<1>4. Held' /\ Others(r) /\ Sound(r)'
  BY <1>1, EndHeld, EndOthers, EndSound DEF OnceInv
<1>5. \A k \in Key : k # KeyOf(r) => table'[k] = table[k]
  BY <1>3 DEF TypeInv, TypeOK
<1>6. table'[KeyOf(r)] = image[r]
  BY <1>2, <1>3 DEF TypeInv, TypeOK
<1>7. TableOf(r) \in Keyed => image[r] = NewRow(r) /\ ~Present(table[KeyOf(r)])
  BY <1>1 DEF OnceInv, Sound
<1>8. Present(NewRow(r))
  BY DEF Present, NewRow, NoRow
<1>9. ASSUME NEW s \in Request, s # r PROVE Sound(s)'
  <2>1. /\ pc'[s] = pc[s] /\ ask'[s] = ask[s] /\ mine'[s] = mine[s] /\ image'[s] = image[s]
        /\ \A k \in Key : s \in holder'[k] <=> s \in holder[k]
    BY <1>4, <1>9 DEF Others
  <2>2. KeyOf(s)' = KeyOf(s) /\ TableOf(s)' = TableOf(s) /\ NewRow(s)' = NewRow(s)
    BY <2>1 DEF KeyOf, TableOf, NewRow
  <2>3. pc[s] # "idle" => KeyOf(s) \in Key /\ KeyOf(s).table = TableOf(s)
    BY KeyType
  <2>4. Sound(s) /\ Sound(r) /\ Held
    BY DEF OnceInv
  <2>5. pc[s] = "commit" => s \in holder'[KeyOf(s)]
    BY <2>1, <2>3, <2>4 DEF Sound
  <2>6. pc[s] = "commit" => KeyOf(s) # KeyOf(r)
    BY <1>1, <1>2, <1>9, <2>4 DEF Sound, Held
  <2>7. pc[s] = "commit" /\ TableOf(s) \in Keyed => ~Present(table[KeyOf(s)])' /\ image[s] = NewRow(s)
    BY <1>5, <2>2, <2>3, <2>4, <2>6 DEF Sound, Present
  <2>8. pc[s] = "again" => TableOf(s) \in Keyed /\ Present(table[KeyOf(s)])'
    BY <1>2, <1>5, <1>6, <1>7, <1>8, <2>2, <2>3, <2>4 DEF Sound, Present
  <2>9. Conditional(s)'
    BY <2>1, <2>2, <2>4 DEF Sound, Conditional
  <2>. QED  BY <2>1, <2>2, <2>4, <2>5, <2>7, <2>8, <2>9 DEF Sound
<1>10. AnswersInv'
  <2>1. CASE TableOf(r) \in Keyed
    <3> DEFINE new == [key |-> KeyOf(r), value |-> ask[r].value, answer |-> mine[r]]
    <3>1. told' = told \cup {new}
      BY <2>1 DEF Commit, Tell
    <3>2. \A t \in told : t.answer # Failed => t.key # KeyOf(r)
      BY <1>7, <2>1 DEF OnceInv, AnswersInv, CommandOnce
    <3>3. table'[new.key] = NewRow(r)
      BY <1>6, <1>7, <2>1
    <3>4. /\ Present(table'[new.key]) /\ new.value = table'[new.key].value
          /\ new.answer = table'[new.key].id /\ new.answer # Failed
      BY <1>8, <3>3, FailedType DEF NewRow, TypeInv, TypeOK
    <3>5. new.key \in Key /\ new.key.table \in Keyed
      BY <1>2, <2>1
    <3> HIDE DEF new
    <3>6. \A t \in told : /\ t.key \in Key /\ t.key.table \in Keyed
                          /\ t.answer # Failed => table'[t.key] = table[t.key]
      BY <1>5, <3>2 DEF OnceInv, AnswersInv
    <3>. QED  BY <3>1, <3>4, <3>5, <3>6 DEF OnceInv, AnswersInv, CommandOnce, Present
  <2>2. CASE TableOf(r) \notin Keyed
    <3>1. told' = told
      BY <2>2 DEF Commit
    <3>2. \A t \in told : t.key # KeyOf(r)
      BY <1>2, <2>2 DEF OnceInv, AnswersInv
    <3>. QED  BY <1>5, <3>1, <3>2 DEF OnceInv, AnswersInv, CommandOnce, Present
  <2>. QED  BY <2>1, <2>2
<1>. QED  BY <1>4, <1>9, <1>10 DEF OnceInv

LEMMA NextOnce ==
  ASSUME SharedKnowledgeAssumption, TypeInv, OnceInv, [Next]_vars
  PROVE  OnceInv'
<1>1. ASSUME NEW r \in Request, NEW a \in Asks, Arrive(r, a) PROVE OnceInv'
  BY <1>1, ArriveOnce
<1>2. ASSUME NEW r \in Request, Upload(r) PROVE OnceInv'
  BY <1>2, UploadOnce
<1>3. ASSUME NEW r \in Request, Read(r) PROVE OnceInv'
  BY <1>3, ReadOnce
<1>4. ASSUME NEW r \in Request, Insert(r) PROVE OnceInv'
  BY <1>4, InsertOnce
<1>5. ASSUME NEW r \in Request, Update(r) \/ Retire(r) \/ Delete(r) PROVE OnceInv'
  BY <1>5, NamedWrites
<1>6. ASSUME NEW r \in Request, Commit(r) PROVE OnceInv'
  BY <1>6, CommitOnce
<1>7. ASSUME NEW r \in Request, FailCondition(r) \/ LookAgain(r) \/ Refuse(r) \/ Kill(r)
      PROVE OnceInv'
  BY <1>7, EndOnce
<1>8. CASE UNCHANGED vars
  BY <1>8 DEF vars, locals, history, OnceInv, AnswersInv, CommandOnce, Held, Sound, Conditional, Present,
              KeyOf, TableOf, NewRow
<1>. QED  BY <1>1, <1>2, <1>3, <1>4, <1>5, <1>6, <1>7, <1>8 DEF Next

\* Whoever repeats a comment or a command is answered with the row of the first, or
\* is a conditional command that failed.
THEOREM CommandsOnce == Spec => []CommandOnce
<1>1. Init => TypeInv /\ OnceInv
  <2>1. ASSUME Init PROVE OnceInv
    BY <2>1 DEF Init, OnceInv, AnswersInv, CommandOnce, Held, Sound, Conditional
  <2>. QED  BY <2>1, SharedKnowledgeAssumption, InitType
<1>2. TypeInv /\ OnceInv /\ [Next]_vars => TypeInv' /\ OnceInv'
  BY SharedKnowledgeAssumption, NextType, NextOnce
<1>3. OnceInv => CommandOnce
  BY DEF OnceInv, AnswersInv
<1>. QED  BY <1>1, <1>2, <1>3, PTL DEF Spec

(* Answers about named rows *)

\* A row of a table other than the sources' is active while it is there.
Live(row) == Present(row) => row.status = "ACTIVE"
Counted(row) == Present(row) => row.id # 0

\* The row is as a request about it was told.
Meets(k, row, a) ==
  IF a.op = "drop" THEN row.status = "REMOVED"
  ELSE /\ row.status = "ACTIVE"
       /\ k.table \in {"view", "source", "relation"} => row.value = a.value

Alone(r) == KeyOf(r) \notin overlapped

\* What a request has read is so, and what it is to commit is what was asked for,
\* while no other request is about the same name.
Fits(r) ==
  /\ pc[r] # "idle" => mine[r] # 0
  /\ pc[r] = "insert" => ask[r].op = "put"
  /\ pc[r] = "update" =>
       /\ ask[r].op = "put" /\ loaded[r].id # 0
       /\ Alone(r) => loaded[r] = table[KeyOf(r)]
  /\ pc[r] = "retire" => ask[r].op = "drop" /\ TableOf(r) = "source"
  /\ pc[r] = "delete" => ask[r].op = "drop" /\ (Alone(r) => loaded[r] = table[KeyOf(r)])
  /\ pc[r] = "commit" =>
       /\ Counted(image[r]) /\ (TableOf(r) # "source" => Live(image[r]))
       /\ Alone(r) => Meets(KeyOf(r), image[r], ask[r])

\* At most one request is about a name that is not overlapped, and while there is
\* one nothing is claimed about the name.
OneAtATime ==
  \A r \in Request : pc[r] # "idle" /\ Alone(r) =>
    /\ latest[KeyOf(r)] = NoAsk
    /\ \A s \in Request : pc[s] # "idle" /\ KeyOf(s) = KeyOf(r) => s = r

RowsInv == \A k \in Key : Counted(table[k]) /\ (k.table # "source" => Live(table[k]))

Stands ==
  \A k \in Key : latest[k] # NoAsk /\ k \notin overlapped => Meets(k, table[k], latest[k])

StandsInv == RowsInv /\ OneAtATime /\ Stands /\ \A r \in Request : Fits(r)

\* A step of one request leaves what the others have read alone, too.
Apart(r) == Others(r) /\ \A s \in Request \ {r} : loaded'[s] = loaded[s]

LEMMA FitsOthers ==
  ASSUME TypeInv, NEW r \in Request, Apart(r), overlapped' = overlapped,
         NEW s \in Request, s # r, Fits(s),
         pc[s] # "idle" /\ Alone(s) => table'[KeyOf(s)] = table[KeyOf(s)]
  PROVE  Fits(s)'
<1>1. /\ pc'[s] = pc[s] /\ ask'[s] = ask[s] /\ mine'[s] = mine[s] /\ image'[s] = image[s]
      /\ loaded'[s] = loaded[s]
  BY DEF Apart, Others
<1>2. KeyOf(s)' = KeyOf(s) /\ TableOf(s)' = TableOf(s) /\ (Alone(s)' <=> Alone(s))
  BY <1>1 DEF KeyOf, TableOf, Alone
<1>. QED  BY <1>1, <1>2 DEF Fits, Counted, Live, Present, Meets

\* A step on the way.
LEMMA FitsGoto ==
  ASSUME TypeInv, StandsInv, NEW r \in Request, pc[r] # "idle", Apart(r), ask'[r] = ask[r],
         UNCHANGED <<table, overlapped, latest>>, Fits(r)'
  PROVE  StandsInv'
<1>1. \A s \in Request : Fits(s)'
  BY FitsOthers DEF StandsInv
<1>2. RowsInv' /\ Stands'
  BY DEF StandsInv, RowsInv, Stands, Counted, Live, Present, Meets
<1>3. \A s \in Request : KeyOf(s)' = KeyOf(s) /\ (pc'[s] # "idle" => pc[s] # "idle")
  BY DEF Apart, Others, KeyOf
<1>4. OneAtATime'
  BY <1>3 DEF StandsInv, OneAtATime, Alone
<1>. QED  BY <1>1, <1>2, <1>4 DEF StandsInv

\* A request that ends may have changed its row, and be answered.
LEMMA FitsEnd ==
  ASSUME TypeInv, StandsInv, NEW r \in Request, pc[r] # "idle", End(r),
         UNCHANGED <<overlapped, files>>, NEW row \in Row,
         table' = [table EXCEPT ![KeyOf(r)] = row],
         Counted(row), TableOf(r) # "source" => Live(row),
         latest' = latest \/ (Answered(r) /\ (Alone(r) => Meets(KeyOf(r), row, ask[r])))
  PROVE  StandsInv'
<1>1. Others(r) /\ Apart(r) /\ pc'[r] = "idle"
  BY EndOthers DEF End, Goto, TypeInv, TypeOK, Apart
<1>2. KeyOf(r) \in Key /\ KeyOf(r).table = TableOf(r)
  BY KeyType
<1>3. table'[KeyOf(r)] = row /\ \A k \in Key : k # KeyOf(r) => table'[k] = table[k]
  BY <1>2 DEF TypeInv, TypeOK
<1>4. \A k \in Key : k # KeyOf(r) => latest'[k] = latest[k]
  BY DEF Answered, TypeInv, TypeOK
<1>5. RowsInv'
  BY <1>2, <1>3 DEF StandsInv, RowsInv, Counted, Live, Present
<1>6. Alone(r) /\ latest' # latest => latest'[KeyOf(r)] = ask[r] /\ Meets(KeyOf(r), row, ask[r])
  BY <1>2 DEF Answered, TypeInv, TypeOK
<1>7. Alone(r) => latest[KeyOf(r)] = NoAsk
  BY DEF StandsInv, OneAtATime
<1>8. Stands'
  <2> SUFFICES ASSUME NEW k \in Key, latest'[k] # NoAsk, k \notin overlapped
               PROVE  Meets(k, table'[k], latest'[k])
    BY DEF Stands, Meets
  <2>1. CASE k = KeyOf(r)
    BY <1>3, <1>6, <1>7, <2>1 DEF Alone
  <2>2. CASE k # KeyOf(r)
    BY <1>3, <1>4, <2>2 DEF StandsInv, Stands
  <2>. QED  BY <2>1, <2>2
<1>9. \A s \in Request \ {r} : pc[s] # "idle" /\ Alone(s) => KeyOf(s) # KeyOf(r) /\ KeyOf(s) \in Key
  BY KeyType DEF StandsInv, OneAtATime, Alone
<1>10. \A s \in Request : Fits(s)'
  <2>1. Fits(r)'
    BY <1>1 DEF Fits
  <2>2. ASSUME NEW s \in Request \ {r} PROVE Fits(s)'
    BY <1>1, <1>3, <1>9, FitsOthers DEF StandsInv
  <2>. QED  BY <2>1, <2>2
<1>11. OneAtATime'
  <2> SUFFICES ASSUME NEW s \in Request, pc'[s] # "idle", Alone(s)'
               PROVE  /\ latest'[KeyOf(s)'] = NoAsk
                      /\ \A q \in Request : pc'[q] # "idle" /\ KeyOf(q)' = KeyOf(s)' => q = s
    BY DEF OneAtATime
  <2>1. s # r /\ pc[s] # "idle" /\ KeyOf(s)' = KeyOf(s) /\ Alone(s)
    BY <1>1 DEF Others, KeyOf, Alone
  <2>2. latest'[KeyOf(s)] = NoAsk
    BY <1>4, <1>9, <2>1 DEF StandsInv, OneAtATime
  <2>3. \A q \in Request : pc'[q] # "idle" => q # r /\ pc[q] # "idle" /\ KeyOf(q)' = KeyOf(q)
    BY <1>1 DEF Others, KeyOf
  <2>. QED  BY <2>1, <2>2, <2>3 DEF StandsInv, OneAtATime
<1>. QED  BY <1>5, <1>8, <1>10, <1>11 DEF StandsInv

\* A request that ends and leaves its row alone.
LEMMA FitsLeave ==
  ASSUME TypeInv, StandsInv, NEW r \in Request, pc[r] # "idle", End(r),
         UNCHANGED <<table, overlapped, files>>,
         latest' = latest \/ (Answered(r) /\ Meets(KeyOf(r), table[KeyOf(r)], ask[r]))
  PROVE  StandsInv'
<1> DEFINE row == table[KeyOf(r)]
<1>1. KeyOf(r) \in Key /\ KeyOf(r).table = TableOf(r) /\ row \in Row
  BY KeyType
<1>2. table' = [table EXCEPT ![KeyOf(r)] = row]
  BY <1>1 DEF TypeInv, TypeOK
<1>3. Counted(row) /\ (TableOf(r) # "source" => Live(row))
  BY <1>1 DEF StandsInv, RowsInv
<1>. QED  BY <1>1, <1>2, <1>3, FitsEnd

LEMMA ArriveStands ==
  ASSUME SharedKnowledgeAssumption, TypeInv, StandsInv, NEW r \in Request, NEW a \in Asks,
         Arrive(r, a)
  PROVE  StandsInv'
<1>1. Others(r) /\ table' = table /\ loaded' = loaded /\ pc[r] = "idle"
  BY ArriveOthers DEF Arrive
<1>2. a \in Ask /\ requests' \in Nat /\ requests' # 0
  BY DEF SharedKnowledgeAssumption, Arrive, TypeInv, TypeOK
<1>3. a.key \in Key
  BY <1>2 DEF Ask
<1>4. ask'[r] = Received(a, requests')
  BY DEF Arrive, Received, TypeInv, TypeOK
<1>5. KeyOf(r)' = a.key
  BY <1>2, <1>4, ReceivedType DEF KeyOf
<1>6. pc'[r] \in {"upload", "read"} /\ mine'[r] = requests'
  BY DEF Arrive, Goto, FirstStep, TypeInv, TypeOK
<1>7. \A s \in Request \ {r} : /\ pc'[s] = pc[s] /\ ask'[s] = ask[s] /\ mine'[s] = mine[s]
                               /\ image'[s] = image[s] /\ loaded'[s] = loaded[s]
                               /\ KeyOf(s)' = KeyOf(s) /\ TableOf(s)' = TableOf(s)
  BY <1>1 DEF Others, KeyOf, TableOf
<1>8. \A s \in Request \ {r} : pc[s] # "idle" /\ Alone(s)' => Alone(s)
  <2> SUFFICES ASSUME NEW s \in Request \ {r}, pc[s] # "idle", Alone(s)', ~Alone(s)
               PROVE  FALSE
    OBVIOUS
  <2>1. KeyOf(s) \in overlapped /\ KeyOf(s) \notin overlapped'
    BY <1>7 DEF Alone
  <2>2. KeyOf(s) = a.key /\ Busy(a.key) = {}
    BY <2>1 DEF Arrive
  <2>. QED  BY <2>2 DEF Busy
<1>9. \A s \in Request : Fits(s)'
  <2>1. Fits(r)'
    BY <1>2, <1>6 DEF Fits
  <2>2. ASSUME NEW s \in Request \ {r} PROVE Fits(s)'
    BY <1>1, <1>7, <1>8 DEF StandsInv, Fits, Counted, Live, Present, Meets
  <2>. QED  BY <2>1, <2>2
<1>10. RowsInv'
  BY <1>1 DEF StandsInv, RowsInv, Counted, Live, Present
<1>11. CASE Busy(a.key) = {}
  <2>1. overlapped' = overlapped \ {a.key} /\ latest' = [latest EXCEPT ![a.key] = NoAsk]
    BY <1>11 DEF Arrive
  <2>2. latest'[a.key] = NoAsk /\ \A k \in Key : k # a.key => latest'[k] = latest[k]
    BY <1>3, <2>1 DEF TypeInv, TypeOK
  <2>3. Stands'
    BY <1>1, <2>1, <2>2 DEF StandsInv, Stands, Meets
  <2>4. \A s \in Request \ {r} : pc[s] # "idle" => KeyOf(s) # a.key /\ KeyOf(s) \in Key
    BY <1>11, KeyType DEF Busy
  <2>5. OneAtATime'
    <3> SUFFICES ASSUME NEW s \in Request, pc'[s] # "idle", Alone(s)'
                 PROVE  /\ latest'[KeyOf(s)'] = NoAsk
                        /\ \A q \in Request : pc'[q] # "idle" /\ KeyOf(q)' = KeyOf(s)' => q = s
      BY DEF OneAtATime
    <3>1. CASE s = r
      BY <1>5, <1>7, <2>2, <2>4, <3>1
    <3>2. CASE s # r
      <4>1. pc[s] # "idle" /\ Alone(s) /\ KeyOf(s)' = KeyOf(s) /\ KeyOf(s) # a.key
        BY <1>7, <1>8, <2>4, <3>2
      <4>. QED  BY <1>5, <1>7, <2>2, <2>4, <3>2, <4>1 DEF StandsInv, OneAtATime
    <3>. QED  BY <3>1, <3>2
  <2>. QED  BY <1>9, <1>10, <2>3, <2>5 DEF StandsInv
<1>12. CASE Busy(a.key) # {}
  <2>1. overlapped' = overlapped \cup {a.key} /\ latest' = latest
    BY <1>12 DEF Arrive
  <2>2. Stands'
    BY <1>1, <2>1 DEF StandsInv, Stands, Meets
  <2>3. \A s \in Request : Alone(s)' => s # r
    BY <1>5, <2>1 DEF Alone
  <2>4. OneAtATime'
    BY <1>5, <1>7, <2>1, <2>3 DEF StandsInv, OneAtATime, Alone
  <2>. QED  BY <1>9, <1>10, <2>2, <2>4 DEF StandsInv
<1>. QED  BY <1>11, <1>12

LEMMA UploadStands ==
  ASSUME TypeInv, StandsInv, NEW r \in Request, Upload(r)
  PROVE  StandsInv'
<1>1. pc[r] = "upload" /\ UNCHANGED <<table, overlapped, latest>>
  BY DEF Upload, history
<1>2. CASE files' = files \cup {mine[r]} /\ Goto(r, "read") /\ UNCHANGED <<holder, locals>>
  <2>1. Apart(r) /\ UNCHANGED <<ask, mine>> /\ pc'[r] = "read"
    BY <1>2, GotoOthers DEF locals, Goto, TypeInv, TypeOK, Apart
  <2>2. Fits(r)'
    BY <1>1, <2>1 DEF StandsInv, Fits
  <2>. QED  BY <1>1, <2>1, <2>2, FitsGoto
<1>3. CASE End(r) /\ UNCHANGED files
  BY <1>1, <1>3, FitsLeave
<1>. QED  BY <1>2, <1>3 DEF Upload

LEMMA ReadStands ==
  ASSUME TypeInv, StandsInv, NEW r \in Request, Read(r)
  PROVE  StandsInv'
<1> DEFINE row == table[KeyOf(r)]
<1>1. pc[r] = "read" /\ UNCHANGED <<table, overlapped, files>>
  BY DEF Read
<1>2. /\ KeyOf(r) \in Key /\ KeyOf(r).table = TableOf(r) /\ row \in Row
      /\ Counted(row) /\ (TableOf(r) # "source" => Live(row))
  BY <1>1, KeyType DEF StandsInv, RowsInv
<1>3. CASE ask[r].op = "put" /\ RepeatedCommand(r, row)
  BY <1>1, <1>3, FitsLeave DEF RepeatedCommand
<1>4. CASE ask[r].op = "put" /\ AlreadyTagged(r, row)
  <2>1. Meets(KeyOf(r), row, ask[r])
    BY <1>2, <1>4 DEF AlreadyTagged, Live, Meets
  <2>. QED  BY <1>1, <1>4, <2>1, FitsLeave DEF AlreadyTagged
<1>5. CASE ask[r].op = "put" /\ LoadRow(r, row)
  <2>1. /\ pc'[r] = "update" /\ loaded'[r] = row /\ Present(row)
        /\ UNCHANGED <<ask, mine, image, holder, latest>>
    BY <1>5 DEF LoadRow, Goto, TypeInv, TypeOK
  <2>2. Apart(r)
    BY <1>1, <1>5 DEF LoadRow, Goto, Apart, Others, TypeInv, TypeOK
  <2>3. mine'[r] # 0 /\ KeyOf(r)' = KeyOf(r) /\ table' = table
    BY <1>1, <2>1 DEF StandsInv, Fits, KeyOf
  <2>4. Fits(r)'
    BY <1>2, <1>5, <2>1, <2>3 DEF Fits, Counted
  <2>. QED  BY <1>1, <2>1, <2>2, <2>4, FitsGoto
<1>6. CASE ask[r].op = "put" /\ NoRowFound(r, row)
  <2>1. Goto(r, "insert") /\ UNCHANGED <<ask, mine, image, holder, latest, loaded, target>>
    BY <1>6 DEF NoRowFound, locals
  <2>2. pc'[r] = "insert" /\ Apart(r)
    BY <1>1, <2>1, GotoOthers DEF Goto, TypeInv, TypeOK, Apart
  <2>3. Fits(r)'
    BY <1>1, <1>6, <2>1, <2>2 DEF StandsInv, Fits
  <2>. QED  BY <1>1, <2>1, <2>2, <2>3, FitsGoto
<1>7. CASE ask[r].op = "drop" /\ FindTarget(r, row)
  <2>1. CASE IsTarget(r, row)
    <3>1. /\ loaded' = [loaded EXCEPT ![r] = row]
          /\ Goto(r, IF TableOf(r) = "source" THEN "retire" ELSE "delete")
          /\ UNCHANGED <<holder, ask, mine, target, image, latest>>
      BY <1>7, <2>1 DEF FindTarget
    <3>2. /\ pc'[r] = (IF TableOf(r) = "source" THEN "retire" ELSE "delete")
          /\ loaded'[r] = row /\ Apart(r)
      BY <1>1, <3>1 DEF Goto, Apart, Others, TypeInv, TypeOK
    <3>3. mine'[r] # 0 /\ KeyOf(r)' = KeyOf(r) /\ TableOf(r)' = TableOf(r) /\ table' = table
      BY <1>1, <3>1 DEF StandsInv, Fits, KeyOf, TableOf
    <3>4. Fits(r)'
      BY <1>7, <3>1, <3>2, <3>3 DEF Fits
    <3>. QED  BY <1>1, <3>1, <3>2, <3>4, FitsGoto
  <2>2. CASE ~IsTarget(r, row)
    <3>1. End(r) /\ latest' = latest
      BY <1>7, <2>2 DEF FindTarget
    <3>. QED  BY <1>1, <3>1, FitsLeave
  <2>. QED  BY <2>1, <2>2
<1>. QED  BY <1>3, <1>4, <1>5, <1>6, <1>7 DEF Read

\* The steps that prepare a row for the commit.
LEMMA WritesStands ==
  ASSUME TypeInv, StandsInv, NEW r \in Request, pc[r] # "idle", NEW row \in Row,
         Takes(r), Writes(r, row), UNCHANGED <<table, overlapped, latest, files>>,
         Counted(row), TableOf(r) # "source" => Live(row),
         Alone(r) => Meets(KeyOf(r), row, ask[r])
  PROVE  StandsInv'
<1>1. Apart(r)
  BY WritesOthers DEF Writes, Apart
<1>2. /\ pc'[r] = "commit" /\ image'[r] = row /\ UNCHANGED <<ask, mine>>
      /\ KeyOf(r)' = KeyOf(r) /\ TableOf(r)' = TableOf(r)
  BY DEF Writes, Goto, KeyOf, TableOf, TypeInv, TypeOK
<1>3. mine[r] # 0 /\ (Alone(r)' <=> Alone(r))
  BY <1>2 DEF StandsInv, Fits, Alone
<1>4. Fits(r)'
  BY <1>2, <1>3 DEF Fits, Counted, Live, Present, Meets
<1>. QED  BY <1>1, <1>2, <1>4, FitsGoto

LEMMA RefuseStands ==
  ASSUME TypeInv, StandsInv, NEW r \in Request, pc[r] # "idle",
         NEW step \in {"again", "refuse"}, Goto(r, step), UNCHANGED <<holder, locals>>,
         UNCHANGED <<table, overlapped, latest, files>>
  PROVE  StandsInv'
<1>1. pc'[r] = step /\ Apart(r) /\ UNCHANGED <<ask, mine>>
  BY GotoOthers DEF locals, Goto, TypeInv, TypeOK, Apart
<1>2. Fits(r)'
  BY <1>1 DEF StandsInv, Fits
<1>. QED  BY <1>1, <1>2, FitsGoto

LEMMA InsertStands ==
  ASSUME TypeInv, StandsInv, NEW r \in Request, Insert(r)
  PROVE  StandsInv'
<1>1. pc[r] = "insert" /\ Takes(r) /\ UNCHANGED <<table, overlapped, latest, files>>
  BY DEF Insert, history
<1>2. CASE Present(table[KeyOf(r)])
  <2>1. \E step \in {"again", "refuse"} : Goto(r, step) /\ UNCHANGED <<holder, locals>>
    BY <1>2 DEF Insert, AfterDuplicate
  <2>. QED  BY <1>1, <2>1, RefuseStands
<1>3. CASE ~Present(table[KeyOf(r)])
  <2>1. NewRow(r) \in Row
    BY <1>1, KeyType DEF NewRow, Row, TypeInv, TypeOK
  <2>2. ask[r].op = "put" /\ mine[r] # 0
    BY <1>1 DEF StandsInv, Fits
  <2>3. Counted(NewRow(r)) /\ Live(NewRow(r)) /\ Meets(KeyOf(r), NewRow(r), ask[r])
    BY <2>2 DEF Counted, Live, Meets, NewRow
  <2>4. Writes(r, NewRow(r))
    BY <1>3 DEF Insert
  <2>. QED  BY <1>1, <2>1, <2>3, <2>4, WritesStands
<1>. QED  BY <1>2, <1>3

LEMMA UpdateStands ==
  ASSUME TypeInv, StandsInv, NEW r \in Request, Update(r)
  PROVE  StandsInv'
<1> DEFINE row == table[KeyOf(r)]
<1>1. pc[r] = "update" /\ Takes(r) /\ UNCHANGED <<table, overlapped, latest, files>>
  BY DEF Update, history
<1>2. /\ KeyOf(r) \in Key /\ KeyOf(r).table = TableOf(r) /\ row \in Row
      /\ Counted(row) /\ (TableOf(r) # "source" => Live(row))
      /\ ask[r].value \in Value
  BY <1>1, KeyType DEF StandsInv, RowsInv
<1>3. ask[r].op = "put" /\ loaded[r].id # 0 /\ (Alone(r) => loaded[r] = row)
  BY <1>1 DEF StandsInv, Fits
<1>4. CASE row.id = loaded[r].id
  <2>1. Updated(r, row) \in Row /\ Writes(r, Updated(r, row))
    BY <1>1, <1>2, <1>4, MergedType DEF Update
  <2>2. /\ Updated(r, row).id = row.id /\ Updated(r, row).value = Merged(r, row)
        /\ Updated(r, row).status = IF loaded[r].status = "ACTIVE" THEN row.status ELSE "ACTIVE"
    BY <1>2 DEF Updated, Row
  <2>3. Present(row)
    BY <1>3, <1>4 DEF Present, NoRow
  <2>4. Counted(Updated(r, row)) /\ (TableOf(r) # "source" => Live(Updated(r, row)))
    BY <1>2, <1>3, <1>4, <2>2, <2>3 DEF Counted, Live
  <2>5. ASSUME Alone(r) PROVE Meets(KeyOf(r), Updated(r, row), ask[r])
    <3>1. Updated(r, row).status = "ACTIVE"
      BY <1>3, <2>2, <2>5
    <3>2. Merged(r, row) = ask[r].value
      BY <1>2, <1>3, <2>5 DEF Merged, Value
    <3>. QED  BY <1>3, <2>2, <3>1, <3>2 DEF Meets
  <2>. QED  BY <1>1, <2>1, <2>4, <2>5, WritesStands
<1>5. CASE row.id # loaded[r].id
  <2>1. Goto(r, "refuse") /\ UNCHANGED <<holder, locals>>
    BY <1>5 DEF Update
  <2>. QED  BY <1>1, <2>1, RefuseStands
<1>. QED  BY <1>4, <1>5

LEMMA RemoveStands ==
  ASSUME TypeInv, StandsInv, NEW r \in Request, Retire(r) \/ Delete(r)
  PROVE  StandsInv'
<1> DEFINE row == table[KeyOf(r)]
<1>1. pc[r] \in {"retire", "delete"} /\ Takes(r) /\ UNCHANGED <<table, overlapped, latest, files>>
  BY DEF Retire, Delete, history
<1>2. /\ KeyOf(r) \in Key /\ KeyOf(r).table = TableOf(r) /\ row \in Row
      /\ Counted(row) /\ (TableOf(r) # "source" => Live(row))
  BY <1>1, KeyType DEF StandsInv, RowsInv
<1>3. ask[r].op = "drop" /\ Fits(r)
  BY <1>1 DEF StandsInv, Fits
<1>4. CASE Retire(r)
  <2> DEFINE gone == [row EXCEPT !.status = "REMOVED"]
  <2>1. gone \in Row /\ gone.status = "REMOVED" /\ gone.id = row.id /\ TableOf(r) = "source"
    BY <1>2, <1>3, <1>4 DEF Row, Retire, Fits
  <2>2. Counted(gone)
    <3>1. CASE row = NoRow
      <4>1. gone = NoRow
        BY <3>1 DEF NoRow
      <4>. QED  BY <4>1 DEF Counted, Present
    <3>2. CASE row # NoRow
      BY <1>2, <2>1, <3>2 DEF Counted, Present
    <3>. QED  BY <3>1, <3>2
  <2>3. Meets(KeyOf(r), gone, ask[r])
    BY <1>3, <2>1 DEF Meets
  <2>4. Writes(r, gone)
    BY <1>4 DEF Retire
  <2>. QED  BY <1>1, <2>1, <2>2, <2>3, <2>4, WritesStands
<1>5. CASE Delete(r)
  <2>1. CASE TableOf(r) = "tag" \/ row.id = loaded[r].id
    <3>1. Writes(r, NoRow) /\ NoRow \in Row
      BY <1>5, <2>1, NoRowType DEF Delete
    <3>2. Counted(NoRow) /\ Live(NoRow) /\ Meets(KeyOf(r), NoRow, ask[r])
      BY <1>3 DEF Counted, Live, Present, Meets, NoRow
    <3>. QED  BY <1>1, <3>1, <3>2, WritesStands
  <2>2. CASE ~(TableOf(r) = "tag" \/ row.id = loaded[r].id)
    <3>1. Writes(r, row)
      BY <1>5, <2>2 DEF Delete
    <3>2. ~Alone(r)
      BY <1>3, <1>5, <2>2 DEF Delete, Fits
    <3>. QED  BY <1>1, <1>2, <3>1, <3>2, WritesStands
  <2>. QED  BY <2>1, <2>2
<1>. QED  BY <1>4, <1>5

LEMMA CommitStands ==
  ASSUME TypeInv, StandsInv, NEW r \in Request, Commit(r)
  PROVE  StandsInv'
<1>1. pc[r] = "commit" /\ End(r) /\ Answered(r) /\ UNCHANGED <<overlapped, files>>
  BY DEF Commit
<1>2. table' = [table EXCEPT ![KeyOf(r)] = image[r]] /\ image[r] \in Row
  BY DEF Commit, TypeInv, TypeOK
<1>3. /\ Counted(image[r]) /\ (TableOf(r) # "source" => Live(image[r]))
      /\ Alone(r) => Meets(KeyOf(r), image[r], ask[r])
  BY <1>1 DEF StandsInv, Fits
<1>. QED  BY <1>1, <1>2, <1>3, FitsEnd

LEMMA EndStands ==
  ASSUME TypeInv, StandsInv, NEW r \in Request,
         FailCondition(r) \/ LookAgain(r) \/ Refuse(r) \/ Kill(r)
  PROVE  StandsInv'
<1>1. pc[r] # "idle" /\ End(r) /\ UNCHANGED <<table, overlapped, latest, files>>
  BY DEF FailCondition, LookAgain, Refuse, Kill, history
<1>. QED  BY <1>1, FitsLeave

LEMMA InitStands == Init => StandsInv
  BY DEF Init, StandsInv, RowsInv, OneAtATime, Stands, Fits, Counted, Live, Present

LEMMA NextStands ==
  ASSUME SharedKnowledgeAssumption, TypeInv, StandsInv, [Next]_vars
  PROVE  StandsInv'
<1>1. ASSUME NEW r \in Request, NEW a \in Asks, Arrive(r, a) PROVE StandsInv'
  BY <1>1, ArriveStands
<1>2. ASSUME NEW r \in Request, Upload(r) PROVE StandsInv'
  BY <1>2, UploadStands
<1>3. ASSUME NEW r \in Request, Read(r) PROVE StandsInv'
  BY <1>3, ReadStands
<1>4. ASSUME NEW r \in Request, Insert(r) PROVE StandsInv'
  BY <1>4, InsertStands
<1>5. ASSUME NEW r \in Request, Update(r) PROVE StandsInv'
  BY <1>5, UpdateStands
<1>6. ASSUME NEW r \in Request, Retire(r) \/ Delete(r) PROVE StandsInv'
  BY <1>6, RemoveStands
<1>7. ASSUME NEW r \in Request, Commit(r) PROVE StandsInv'
  BY <1>7, CommitStands
<1>8. ASSUME NEW r \in Request, FailCondition(r) \/ LookAgain(r) \/ Refuse(r) \/ Kill(r)
      PROVE StandsInv'
  BY <1>8, EndStands
<1>9. CASE UNCHANGED vars
  BY <1>9 DEF vars, locals, history, StandsInv, RowsInv, OneAtATime, Stands, Fits, Alone,
              Counted, Live, Present, Meets, KeyOf, TableOf
<1>. QED  BY <1>1, <1>2, <1>3, <1>4, <1>5, <1>6, <1>7, <1>8, <1>9 DEF Next

\* What the last request about a name was told stands, unless requests about that
\* name overlapped.
THEOREM AnswersStand == Spec => []AnswerStands
<1>1. Init => TypeInv /\ StandsInv
  BY SharedKnowledgeAssumption, InitType, InitStands
<1>2. TypeInv /\ StandsInv /\ [Next]_vars => TypeInv' /\ StandsInv'
  BY SharedKnowledgeAssumption, NextType, NextStands
<1>3. StandsInv => AnswerStands
  BY DEF StandsInv, Stands, Meets, AnswerStands
<1>. QED  BY <1>1, <1>2, <1>3, PTL DEF Spec

(* The refinement: the rows of comments and commands are the ledger, and who has
   found no row is trying *)

Entries == [k \in CommandKeys |-> EntryOf(table[k])]
Trying == [r \in Request |-> UseOf(r)]
LedgerStep == [Ledger!LedgerNext]_<<Entries, Trying, told>>

TryingSteps == {"insert", "again", "commit"}

\* Only a commit about a comment or a command changes the ledger.
LEMMA EntriesKept ==
  ASSUME \A k \in CommandKeys : table'[k] = table[k]
  PROVE  Entries' = Entries
  BY DEF Entries

\* A request that is trying has a use of the id it is about.
LEMMA UseKnown ==
  ASSUME NEW r \in Request
  PROVE  IF pc[r] \in TryingSteps /\ TableOf(r) \in Keyed
         THEN /\ UseOf(r).key = KeyOf(r) /\ UseOf(r).value = ask[r].value
              /\ UseOf(r).conditional = ask[r].conditional /\ UseOf(r) # NoAsk
         ELSE UseOf(r) = NoAsk
<1>1. CASE pc[r] \in TryingSteps /\ TableOf(r) \in Keyed
  <2>1. UseOf(r) = [key |-> KeyOf(r), value |-> ask[r].value, conditional |-> ask[r].conditional]
    BY <1>1 DEF UseOf, TryingSteps
  <2>. QED  BY <1>1, <2>1 DEF NoAsk
<1>2. CASE ~(pc[r] \in TryingSteps /\ TableOf(r) \in Keyed)
  BY <1>2 DEF UseOf, TryingSteps
<1>. QED  BY <1>1, <1>2

\* What others are trying stays as it is.
LEMMA TryingOthers ==
  ASSUME NEW r \in Request, Others(r)
  PROVE  Trying' = [Trying EXCEPT ![r] = UseOf(r)']
<1>1. ASSUME NEW s \in Request, s # r PROVE UseOf(s)' = UseOf(s)
  BY <1>1 DEF Others, UseOf, KeyOf, TableOf
<1>. QED  BY <1>1 DEF Trying

\* A request that has ended is trying nothing.
LEMMA EndTrying ==
  ASSUME TypeInv, NEW r \in Request, End(r), files' = files
  PROVE  Trying' = [Trying EXCEPT ![r] = NoAsk]
<1>1. pc'[r] = "idle"
  BY DEF End, Goto, TypeInv, TypeOK
<1>2. UseOf(r)' = NoAsk
  BY <1>1 DEF UseOf
<1>. QED  BY <1>2, EndOthers, TryingOthers

\* Steps that change neither the ledger nor what anybody is trying.
LEMMA Steady ==
  ASSUME NEW r \in Request, Others(r), UseOf(r)' = UseOf(r),
         \A k \in CommandKeys : table'[k] = table[k], told' = told
  PROVE  LedgerStep
<1>1. Trying' = Trying
  BY TryingOthers DEF Trying
<1>. QED  BY <1>1, EntriesKept DEF LedgerStep

\* A request on its way tries what it did before.
LEMMA SteadyGoto ==
  ASSUME TypeInv, NEW r \in Request, pc[r] # "idle", NEW step, Goto(r, step),
         TableOf(r) \in Keyed => (pc[r] \in TryingSteps <=> step \in TryingSteps),
         files \subseteq files', UNCHANGED <<ask, mine, image, holder, table, told>>
  PROVE  LedgerStep
<1>1. pc'[r] = step
  BY DEF Goto, TypeInv, TypeOK
<1>2. UseOf(r)' = UseOf(r)
  BY <1>1 DEF UseOf, TryingSteps, KeyOf, TableOf
<1>. QED  BY <1>2, GotoOthers, Steady

LEMMA SteadyWrites ==
  ASSUME TypeInv, NEW r \in Request, pc[r] # "idle", NEW row, Takes(r), Writes(r, row),
         TableOf(r) \in Keyed => pc[r] \in TryingSteps,
         UNCHANGED <<table, told, files>>
  PROVE  LedgerStep
<1>1. pc'[r] = "commit" /\ ask' = ask
  BY DEF Writes, Goto, TypeInv, TypeOK
<1>2. UseOf(r)' = UseOf(r)
  BY <1>1 DEF UseOf, TryingSteps, KeyOf, TableOf
<1>. QED  BY <1>2, WritesOthers, Steady

\* A request that ends with nothing done or told has given up.
LEMMA LoseStep ==
  ASSUME TypeInv, NEW r \in Request, End(r), files' = files, told' = told,
         \A k \in CommandKeys : table'[k] = table[k]
  PROVE  LedgerStep
<1>1. Trying' = [Trying EXCEPT ![r] = NoAsk] /\ Entries' = Entries
  BY EndTrying, EntriesKept
<1>2. Ledger!Lose(r)
  BY <1>1 DEF Ledger!Lose, Ledger!Leaves, Entries, Trying
<1>. QED  BY <1>2 DEF LedgerStep, Ledger!LedgerNext

\* A row that is there is in the ledger, and another is not.
LEMMA EntryUsed ==
  ASSUME NEW row \in Row, Counted(row)
  PROVE  Present(row) <=> EntryOf(row) # EntryOf(NoRow)
  BY DEF Counted, Present, EntryOf, NoRow, Row

\* A request that repeats what was done.
LEMMA RepeatStep ==
  ASSUME TypeInv, RowsInv, NEW r \in Request, pc[r] # "idle", TableOf(r) \in Keyed,
         Present(table[KeyOf(r)]), Tell(r, Replay(r, table[KeyOf(r)])), End(r),
         UNCHANGED <<table, files>>
  PROVE  LedgerStep
<1> DEFINE k == KeyOf(r)
           a == [key |-> k, value |-> ask[r].value, answer |-> Replay(r, table[k])]
<1>1. k \in CommandKeys /\ k \in Key /\ table[k] \in Row /\ Counted(table[k])
  BY KeyType DEF CommandKeys, RowsInv
<1>2. told' = told \cup {a} /\ Entries' = Entries /\ Trying' = [Trying EXCEPT ![r] = NoAsk]
  BY EntriesKept, EndTrying DEF Tell
<1>3. a.key = k /\ a.value = ask[r].value
  OBVIOUS
<1>4. Entries[k] = EntryOf(table[k]) /\ Entries[k] # EntryOf(NoRow)
  BY <1>1, EntryUsed DEF Entries
<1>5. a.answer = IF a.value = Entries[k].value THEN Entries[k].id ELSE 0
  BY <1>4 DEF Replay, EntryOf
<1> HIDE DEF a
<1>6. Trying[r] # NoAsk => a.key = Trying[r].key /\ a.value = Trying[r].value
  BY <1>3, UseKnown DEF Trying
<1>7. Ledger!Repeat(r, a)
  BY <1>1, <1>2, <1>3, <1>4, <1>5, <1>6
     DEF Ledger!Repeat, Ledger!Answers, Ledger!Used, Ledger!Leaves, Entries, Trying
<1>8. a \in told'
  BY <1>2
<1>. QED  BY <1>7, <1>8 DEF LedgerStep, Ledger!LedgerNext

\* The first use of an id.
LEMMA CommitStep ==
  ASSUME TypeInv, OnceInv, StandsInv, NEW r \in Request, Commit(r)
  PROVE  LedgerStep
<1> DEFINE k == KeyOf(r)
           a == [key |-> k, value |-> ask[r].value, answer |-> mine[r]]
<1>1. /\ pc[r] = "commit" /\ k \in Key /\ k.table = TableOf(r) /\ TableOf(r) \in Table
      /\ table[k] \in Row /\ table' = [table EXCEPT ![k] = image[r]]
      /\ End(r) /\ files' = files
  BY KeyType DEF Commit
<1>2. \A j \in Key : table'[j] = IF j = k THEN image[r] ELSE table[j]
  BY <1>1 DEF TypeInv, TypeOK
<1>3. CASE TableOf(r) \in Keyed
  <2>1. ~Present(table[k]) /\ image[r] = NewRow(r) /\ mine[r] # 0 /\ mine[r] \in Nat
    BY <1>1, <1>3 DEF OnceInv, Sound, StandsInv, Fits, TypeInv, TypeOK
  <2>2. told' = told \cup {a} /\ a.key = k /\ a.value = ask[r].value /\ a.answer = mine[r]
    BY <1>3 DEF Commit, Tell
  <2>3. a.answer \notin {0, Failed}
    BY <2>1, <2>2, FailedType
  <2>4. k \in CommandKeys /\ CommandKeys \subseteq Key
    BY <1>1, <1>3 DEF CommandKeys
  <2>5. EntryOf(image[r]) = [id |-> a.answer, value |-> a.value]
    BY <2>1 DEF NewRow, EntryOf
  <2>6. Entries' = [Entries EXCEPT ![k] = [id |-> a.answer, value |-> a.value]]
    BY <1>2, <2>4, <2>5 DEF Entries
  <2>7. Entries[k] = EntryOf(NoRow)
    BY <2>1, <2>4 DEF Entries, Present
  <2>8. Trying' = [Trying EXCEPT ![r] = NoAsk]
    BY <1>1, EndTrying
  <2>9. Trying[r] # NoAsk /\ a.key = Trying[r].key /\ a.value = Trying[r].value
    BY <1>1, <1>3, <2>2, UseKnown DEF Trying, TryingSteps
  <2>10. a \in told'
    BY <2>2
  <2> HIDE DEF a
  <2>11. Ledger!CarryOut(r, a)
    BY <2>2, <2>3, <2>6, <2>7, <2>8, <2>9
       DEF Ledger!CarryOut, Ledger!Answers, Ledger!Used, Ledger!Leaves, Entries, Trying
  <2>. QED  BY <2>10, <2>11 DEF LedgerStep, Ledger!LedgerNext
<1>4. CASE TableOf(r) \notin Keyed
  <2>1. \A j \in CommandKeys : table'[j] = table[j]
    BY <1>1, <1>2, <1>4 DEF CommandKeys
  <2>. QED  BY <1>1, <1>4, <2>1, LoseStep DEF Commit
<1>. QED  BY <1>3, <1>4

\* A conditional command fails.
LEMMA FailStep ==
  ASSUME TypeInv, OnceInv, NEW r \in Request, FailCondition(r)
  PROVE  LedgerStep
<1> DEFINE a == [key |-> KeyOf(r), value |-> ask[r].value, answer |-> Failed]
<1>1. /\ pc[r] = "insert" /\ ask[r].conditional /\ End(r) /\ TableOf(r) \in Keyed
      /\ UNCHANGED <<table, files>>
  BY DEF FailCondition, OnceInv, Sound, Conditional
<1>2. told' = told \cup {a} /\ Entries' = Entries /\ Trying' = [Trying EXCEPT ![r] = NoAsk]
  BY <1>1, EntriesKept, EndTrying DEF FailCondition, Tell
<1>3. /\ Trying[r] # NoAsk /\ Trying[r].conditional
      /\ a.key = Trying[r].key /\ a.value = Trying[r].value /\ a.answer = Failed
  BY <1>1, UseKnown DEF Trying, TryingSteps
<1>4. a \in told'
  BY <1>2
<1> HIDE DEF a
<1>5. Ledger!Fail(r, a)
  BY <1>2, <1>3 DEF Ledger!Fail, Ledger!Answers, Ledger!Leaves, Entries, Trying
<1>. QED  BY <1>4, <1>5 DEF LedgerStep, Ledger!LedgerNext

\* A first look that finds no row of its id is a try.
LEMMA TryStep ==
  ASSUME TypeInv, NEW r \in Request, pc[r] = "read", TableOf(r) \in Keyed,
         NoRowFound(r, table[KeyOf(r)]), UNCHANGED <<table, files>>
  PROVE  LedgerStep
<1>1. ~Present(table[KeyOf(r)]) /\ Goto(r, "insert") /\ UNCHANGED <<holder, ask, mine, image, told>>
  BY DEF NoRowFound, Keyed, locals
<1>2. pc'[r] = "insert" /\ Trying[r] = NoAsk
  BY <1>1, UseKnown DEF Goto, TypeInv, TypeOK, Trying, TryingSteps
<1>3. KeyOf(r)' = KeyOf(r) /\ TableOf(r)' = TableOf(r)
  BY <1>1 DEF KeyOf, TableOf
<1>4. UseOf(r)' = [key |-> KeyOf(r), value |-> ask[r].value, conditional |-> ask[r].conditional]
  BY <1>1, <1>2, <1>3 DEF UseOf
<1>5. UseOf(r)' # NoAsk /\ UseOf(r)'.key = KeyOf(r)
  BY <1>4 DEF NoAsk
<1>6. Trying' = [Trying EXCEPT ![r] = UseOf(r)'] /\ Trying'[r] = UseOf(r)'
  BY <1>1, GotoOthers, TryingOthers DEF Trying
<1>7. KeyOf(r) \in CommandKeys
  BY KeyType DEF CommandKeys
<1>8. Entries[KeyOf(r)] = EntryOf(NoRow) /\ Entries' = Entries
  BY <1>1, <1>7, EntriesKept DEF Entries, Present
<1>9. Ledger!Try(r)
  BY <1>1, <1>2, <1>5, <1>6, <1>8 DEF Ledger!Try, Ledger!Used, Entries, Trying
<1>. QED  BY <1>9 DEF LedgerStep, Ledger!LedgerNext

\* A first look finds the row of its id, tries to make it, or is about something else.
LEMMA ReadStep ==
  ASSUME TypeInv, OnceInv, StandsInv, NEW r \in Request, Read(r)
  PROVE  LedgerStep
<1> DEFINE row == table[KeyOf(r)]
<1>1. pc[r] = "read" /\ UNCHANGED <<table, files>>
  BY DEF Read
<1>2. CASE RepeatedCommand(r, row)
  BY <1>1, <1>2, RepeatStep DEF RepeatedCommand, StandsInv
<1>3. CASE AlreadyTagged(r, row)
  BY <1>1, <1>3, LoseStep DEF AlreadyTagged
<1>4. CASE LoadRow(r, row)
  <2>1. Goto(r, "update") /\ UNCHANGED <<ask, mine, image, holder, told>>
    BY <1>4 DEF LoadRow
  <2>. QED  BY <1>1, <2>1, SteadyGoto DEF TryingSteps
<1>5. CASE NoRowFound(r, row)
  <2>1. CASE TableOf(r) \in Keyed
    BY <1>1, <1>5, <2>1, TryStep
  <2>2. CASE TableOf(r) \notin Keyed
    <3>1. Goto(r, "insert") /\ UNCHANGED <<ask, mine, image, holder, told>>
      BY <1>5 DEF NoRowFound, locals
    <3>. QED  BY <1>1, <2>2, <3>1, SteadyGoto
  <2>. QED  BY <2>1, <2>2
<1>6. CASE FindTarget(r, row)
  <2>1. CASE IsTarget(r, row)
    <3>1. PICK step \in {"retire", "delete"} : Goto(r, step)
      BY <1>6, <2>1 DEF FindTarget
    <3>2. UNCHANGED <<ask, mine, image, holder, told>>
      BY <1>6, <2>1 DEF FindTarget
    <3>. QED  BY <1>1, <3>1, <3>2, SteadyGoto DEF TryingSteps
  <2>2. CASE ~IsTarget(r, row)
    BY <1>1, <1>6, <2>2, LoseStep DEF FindTarget
  <2>. QED  BY <2>1, <2>2
<1>. QED  BY <1>2, <1>3, <1>4, <1>5, <1>6 DEF Read

LEMMA InsertStep ==
  ASSUME TypeInv, NEW r \in Request, Insert(r)
  PROVE  LedgerStep
<1>1. pc[r] = "insert" /\ Takes(r) /\ UNCHANGED <<table, told, files>>
  BY DEF Insert, history
<1>2. CASE Present(table[KeyOf(r)])
  <2>1. Goto(r, AfterDuplicate(r)) /\ UNCHANGED <<ask, mine, image, holder>>
    BY <1>2 DEF Insert, locals
  <2>2. TableOf(r) \in Keyed => AfterDuplicate(r) = "again"
    BY DEF AfterDuplicate
  <2>. QED  BY <1>1, <2>1, <2>2, SteadyGoto DEF TryingSteps
<1>3. CASE ~Present(table[KeyOf(r)])
  <2>1. Writes(r, NewRow(r))
    BY <1>3 DEF Insert
  <2>. QED  BY <1>1, <2>1, SteadyWrites DEF TryingSteps
<1>. QED  BY <1>2, <1>3

LEMMA NamedStep ==
  ASSUME TypeInv, OnceInv, NEW r \in Request, Update(r) \/ Retire(r) \/ Delete(r)
  PROVE  LedgerStep
<1>1. pc[r] \in {"update", "retire", "delete"} /\ Takes(r) /\ UNCHANGED <<table, told, files>>
  BY DEF Update, Retire, Delete, history
<1>2. TableOf(r) \notin Keyed
  BY <1>1, KeyType, NamedOrKeyed DEF OnceInv, Sound
<1>3. CASE \E row : Writes(r, row)
  BY <1>1, <1>2, <1>3, SteadyWrites
<1>4. CASE Goto(r, "refuse") /\ UNCHANGED <<holder, locals>>
  <2>1. UNCHANGED <<ask, mine, image, holder>>
    BY <1>4 DEF locals
  <2>. QED  BY <1>1, <1>2, <1>4, <2>1, SteadyGoto
<1>. QED  BY <1>3, <1>4 DEF Update, Retire, Delete

LEMMA LookAgainStep ==
  ASSUME TypeInv, OnceInv, StandsInv, NEW r \in Request, LookAgain(r)
  PROVE  LedgerStep
<1>1. /\ pc[r] = "again" /\ Tell(r, Replay(r, table[KeyOf(r)])) /\ End(r)
      /\ UNCHANGED <<table, files>>
  BY DEF LookAgain
<1>2. TableOf(r) \in Keyed /\ Present(table[KeyOf(r)])
  BY <1>1 DEF OnceInv, Sound
<1>. QED  BY <1>1, <1>2, RepeatStep DEF StandsInv

LEMMA RefuseStep ==
  ASSUME TypeInv, OnceInv, NEW r \in Request, Refuse(r)
  PROVE  LedgerStep
<1>1. pc[r] = "refuse" /\ TableOf(r) \in Named /\ TableOf(r) \in Table
  BY KeyType DEF Refuse, OnceInv, Sound
<1>2. End(r) /\ UNCHANGED <<table, files, told>>
  BY <1>1, NamedOrKeyed DEF Refuse
<1>. QED  BY <1>2, LoseStep

LEMMA ArriveStep ==
  ASSUME TypeInv, NEW r \in Request, NEW a \in Asks, Arrive(r, a)
  PROVE  LedgerStep
<1>1. pc[r] = "idle" /\ pc'[r] \in {"upload", "read"} /\ UNCHANGED <<table, told>>
  BY DEF Arrive, Goto, FirstStep, TypeInv, TypeOK
<1>2. UseOf(r)' = UseOf(r)
  BY <1>1 DEF UseOf
<1>. QED  BY <1>1, <1>2, ArriveOthers, Steady

LEMMA UploadStep ==
  ASSUME TypeInv, NEW r \in Request, Upload(r)
  PROVE  LedgerStep
<1>1. pc[r] = "upload" /\ UNCHANGED <<table, told>>
  BY DEF Upload, history
<1>2. CASE files' = files \cup {mine[r]} /\ Goto(r, "read") /\ UNCHANGED <<holder, locals>>
  <2>1. files \subseteq files' /\ UNCHANGED <<ask, mine, image, holder>>
    BY <1>2 DEF locals
  <2>. QED  BY <1>1, <1>2, <2>1, SteadyGoto DEF TryingSteps
<1>3. CASE End(r) /\ UNCHANGED files
  BY <1>1, <1>3, LoseStep
<1>. QED  BY <1>2, <1>3 DEF Upload

LEMMA StepsLedger ==
  ASSUME TypeInv, OnceInv, StandsInv, [Next]_vars
  PROVE  LedgerStep
<1>1. ASSUME NEW r \in Request, NEW a \in Asks, Arrive(r, a) PROVE LedgerStep
  BY <1>1, ArriveStep
<1>2. ASSUME NEW r \in Request, Upload(r) PROVE LedgerStep
  BY <1>2, UploadStep
<1>3. ASSUME NEW r \in Request, Read(r) PROVE LedgerStep
  BY <1>3, ReadStep
<1>4. ASSUME NEW r \in Request, FailCondition(r) PROVE LedgerStep
  BY <1>4, FailStep
<1>5. ASSUME NEW r \in Request, Insert(r) PROVE LedgerStep
  BY <1>5, InsertStep
<1>6. ASSUME NEW r \in Request, LookAgain(r) PROVE LedgerStep
  BY <1>6, LookAgainStep
<1>7. ASSUME NEW r \in Request, Refuse(r) PROVE LedgerStep
  BY <1>7, RefuseStep
<1>8. ASSUME NEW r \in Request, Update(r) \/ Retire(r) \/ Delete(r) PROVE LedgerStep
  BY <1>8, NamedStep
<1>9. ASSUME NEW r \in Request, Commit(r) PROVE LedgerStep
  BY <1>9, CommitStep
<1>10. ASSUME NEW r \in Request, Kill(r) PROVE LedgerStep
  BY <1>10, LoseStep DEF Kill, history
<1>11. CASE UNCHANGED vars
  <2>1. Trying' = Trying /\ Entries' = Entries /\ told' = told
    BY <1>11, EntriesKept DEF vars, locals, history, Trying, UseOf, KeyOf, TableOf
  <2>. QED  BY <2>1 DEF LedgerStep
<1>. QED  BY <1>1, <1>2, <1>3, <1>4, <1>5, <1>6, <1>7, <1>8, <1>9, <1>10, <1>11 DEF Next

LEMMA InitLedger == Init => Ledger!LedgerInit
<1> SUFFICES ASSUME Init PROVE Ledger!LedgerInit
  OBVIOUS
<1>1. CommandKeys \subseteq Key
  BY DEF CommandKeys
<1>2. [k \in CommandKeys |-> EntryOf(table[k])] = [k \in CommandKeys |-> EntryOf(NoRow)]
  BY <1>1 DEF Init
<1>3. [r \in Request |-> UseOf(r)] = [r \in Request |-> NoAsk]
  BY DEF Init, UseOf
<1>. QED  BY <1>2, <1>3 DEF Init, Ledger!LedgerInit

\* Requests that overlap, look for each other or die are a ledger to their
\* clients: an id is recorded once, every use that looks after that is answered
\* from there, and none but a conditional command that looked before may fail.
THEOREM ImplementsLedger == Spec => LedgerContract
<1>1. Init => Ledger!LedgerInit
  BY InitLedger
<1>2. Init => TypeInv /\ OnceInv /\ StandsInv
  <2>1. ASSUME Init PROVE OnceInv
    BY <2>1 DEF Init, OnceInv, AnswersInv, CommandOnce, Held, Sound, Conditional
  <2>. QED  BY <2>1, SharedKnowledgeAssumption, InitType, InitStands
<1>3. TypeInv /\ OnceInv /\ StandsInv /\ [Next]_vars => TypeInv' /\ OnceInv' /\ StandsInv'
  BY SharedKnowledgeAssumption, NextType, NextOnce, NextStands
<1>4. TypeInv /\ OnceInv /\ StandsInv /\ [Next]_vars => [Ledger!LedgerNext]_(Ledger!ledgerVars)
  BY StepsLedger DEF LedgerStep, Ledger!ledgerVars, Entries, Trying
<1>. QED  BY <1>1, <1>2, <1>3, <1>4, PTL DEF Spec, LedgerContract, Ledger!LedgerSpec

=============================================================================
