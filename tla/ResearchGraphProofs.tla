------------------------ MODULE ResearchGraphProofs ------------------------
(***************************************************************************)
(* Proofs about ResearchGraph, for every number of sessions, lanes,        *)
(* artifacts and versions.                                                 *)
(***************************************************************************)
EXTENDS ResearchGraph, Sequences, TLAPS

-----------------------------------------------------------------------------
(* The inductive invariant *)

\* What a row can say, and what it says of the rows it refers to
RowOK(id) ==
  LET row == artifact[id]
  IN /\ row.status = "none" <=> row.version = 0
     /\ id[1] = "H" => row.status \in Decisions \cup {"none", "PROPOSED"}
     /\ id[1] = "E" =>
          /\ <<row.status, row.version>> \in
               {<<"none", 0>>, <<"DESIGNED", 1>>, <<"RUNNING", 2>>, <<"COMPLETED", 3>>}
          /\ row.status # "none"
               => row.parent \in Id /\ artifact[row.parent].status \in Decisions
     /\ id[1] = "F" =>
          /\ row.status \in {"none", "PUBLISHED"}
          /\ row.status = "PUBLISHED"
               => row.parent \in Experiment /\ artifact[row.parent].status = "COMPLETED"

\* HistoryComplete, one revision at a time
HistoryOf(id) ==
  /\ \A r \in revisions : r[1] = id => r[2] \in 1..artifact[id].version
  /\ \A n \in 1..artifact[id].version : \E r \in revisions : r[1] = id /\ r[2] = n
  /\ \A r, s \in revisions : r[1] = id /\ s[1] = id /\ r[2] = s[2] => r = s
  /\ artifact[id].version > 0 => <<id, artifact[id].version, artifact[id].status>> \in revisions

\* The number a transaction allocated is still the next one.
HoldsCounter(t, kind) == next[kind] <= MaxPerKind /\ CounterRow(kind) \in tx[t].locks

\* What a transaction still knows of the rows it has read
TxOK(t) ==
  LET x == tx[t]
      row == artifact[x.id]
  IN /\ x.op \in {"decide", "experiment"} => x.id \in Id /\ x.id[1] = "H" /\ row.status # "none"
     /\ x.op \in {"claim", "observe", "complete", "publish"}
          => x.id \in Experiment /\ row.status # "none"
     /\ x.op = "hypothesis" => HoldsCounter(t, "H")
     /\ x.op = "decide" /\ x.phase = "swapped" => x.id \in x.locks
     /\ x.op = "experiment" /\ x.phase \in {"accepted", "allocated"}
          => x.id \in x.locks /\ row.status \in {"PROPOSED", "TESTING"}
     /\ x.op = "experiment" /\ x.phase = "allocated" => HoldsCounter(t, "E")
     /\ x.op = "claim" /\ x.seen.status = "DESIGNED"
          => x.seen.version = 1 /\ x.seen.parent = row.parent
     /\ x.op = "claim" /\ x.seen.status # "DESIGNED" => row.status \in {"RUNNING", "COMPLETED"}
     /\ x.op \in {"observe", "complete"}
          => row.status \in {"RUNNING", "COMPLETED"} /\ x.expected \in 1..2
     /\ x.op = "complete" /\ x.phase = "swapped" => x.id \in x.locks /\ row.status = "RUNNING"
     /\ x.op = "publish" => row.status = "COMPLETED"
     /\ x.op = "publish" /\ x.phase = "allocated" => HoldsCounter(t, "F")
     /\ x.phase \in {"checked", "swapped"} => x.op \in {"decide", "observe", "complete"}

GraphInv ==
  /\ TypeOK
  /\ \A k \in Kind : next[k] > 0
  /\ \A id \in Id : RowOK(id) /\ HistoryOf(id)
  /\ \A t \in Tx : TxOK(t)

-----------------------------------------------------------------------------
(* Types *)

LEMMA IdleType == Idle \in TxType /\ Absent \in ArtifactType
  BY DEF Idle, Absent, TxType, ArtifactType, Operation, Phase, Statuses, NoLane, NoId

LEMMA RowTypes ==
  /\ \A k \in Kind : CounterRow(k) \in RowId
  /\ \A id \in Experiment : LeaseRow(id) \in RowId
  /\ Id \subseteq RowId
  BY DEF RowId

LEMMA TxFields ==
  ASSUME NEW x \in TxType
  PROVE  /\ x.op \in Operation /\ x.phase \in Phase /\ x.lane \in Lane \cup {NoLane}
         /\ x.id \in Id \cup {NoId} /\ x.seen \in ArtifactType /\ x.expected \in Nat
         /\ x.locks \in SUBSET RowId
  BY DEF TxType

\* A statement keeps the transactions well typed and their rows apart.
LEMMA AdvanceType ==
  ASSUME TypeOK, NEW t \in Tx, NEW phase \in Phase, NEW rows \in SUBSET RowId,
         Advance(t, phase, rows)
  PROVE  TypeOK'
<1> DEFINE x == [tx[t] EXCEPT !.phase = phase, !.locks = tx[t].locks \cup rows]
<1>1. tx[t] \in TxType /\ tx \in [Tx -> TxType]
  BY DEF TypeOK
<1>2. x \in TxType /\ x.locks = tx[t].locks \cup rows
  BY <1>1 DEF TxType
<1>3. tx' = [tx EXCEPT ![t] = x]
  BY <1>1 DEF Advance, TxType
<1> HIDE DEF x
<1>4. tx' \in [Tx -> TxType]
  BY <1>1, <1>2, <1>3
<1>5. ConsistentOK'
  <2>1. /\ tx'[t].locks = tx[t].locks \cup rows
        /\ \A u \in Tx \ {t} : tx'[u] = tx[u] /\ tx[u].locks \cap rows = {}
    BY <1>1, <1>2, <1>3 DEF Advance, Free
  <2>2. \A u, v \in Tx : u # v => tx'[u].locks \cap tx'[v].locks = {}
    BY <2>1 DEF TypeOK, ConsistentOK
  <2> QED
    BY <2>2 DEF TypeOK, ConsistentOK, Advance
<1> QED
  BY <1>4, <1>5 DEF TypeOK, Advance

\* A transaction that starts holds a free row or none.
LEMMA StartType ==
  ASSUME TypeOK, NEW t \in Tx, NEW x \in TxType, tx' = [tx EXCEPT ![t] = x],
         \A u \in Tx \ {t} : tx[u].locks \cap x.locks = {},
         UNCHANGED <<artifact, revisions, lease, observed, next, lapses>>
  PROVE  TypeOK'
  BY DEF TypeOK, ConsistentOK

LEMMA EndKeepsLocks ==
  ASSUME TypeOK, NEW t \in Tx, End(t)
  PROVE  /\ tx' \in [Tx -> TxType]
         /\ \A u, v \in Tx : u # v => tx'[u].locks \cap tx'[v].locks = {}
  BY IdleType DEF TypeOK, ConsistentOK, End, Idle

LEMMA RequestType ==
  ASSUME TypeOK, NEW t \in Tx, Request(t)
  PROVE  TypeOK'
<1>1. ASSUME NEW lane \in Lane, StartHypothesis(t, lane) PROVE TypeOK'
  <2> DEFINE x == [Idle EXCEPT !.op = "hypothesis", !.phase = "allocated", !.lane = lane,
                               !.locks = {CounterRow("H")}]
  <2>1. x \in TxType /\ x.locks = {CounterRow("H")}
    BY IdleType, RowTypes DEF Idle, TxType, Operation, Phase, Kind
  <2>2. tx' = [tx EXCEPT ![t] = x] /\ \A u \in Tx \ {t} : tx[u].locks \cap x.locks = {}
    BY <1>1, <2>1 DEF StartHypothesis, Free
  <2> QED
    BY <1>1, <2>1, <2>2, StartType DEF StartHypothesis
<1>2. ASSUME NEW op \in Operation, NEW lane \in Lane, NEW id \in Id, NEW expected \in Nat,
             NEW admitted, Select(t, op, lane, id, expected, admitted)
      PROVE TypeOK'
  <2> DEFINE x == [op |-> op, phase |-> "read", lane |-> lane, id |-> id,
                   seen |-> artifact[id], expected |-> expected, locks |-> {}]
  <2>1. x \in TxType /\ x.locks = {}
    BY DEF TypeOK, TxType, Phase
  <2> QED
    BY <1>2, <2>1, StartType DEF Select
<1>3. \A id \in Id : artifact[id].version \in Nat /\ 1..artifact[id].version \subseteq Nat
  BY DEF TypeOK, ArtifactType
<1>4. \A id \in Experiment : id \in Id
  BY DEF Experiment
<1> QED
  BY <1>1, <1>2, <1>3
     DEF Request, StartDecision, StartExperiment, StartClaim, StartFinding, StartWork, Operation

LEMMA StatementType ==
  ASSUME GraphInv, NEW t \in Tx, Statement(t)
  PROVE  TypeOK'
<1>1. ASSUME NEW phase \in Phase, NEW rows \in SUBSET RowId, Advance(t, phase, rows)
      PROVE  TypeOK'
  BY <1>1, AdvanceType DEF GraphInv
<1>2. \A k \in Kind : {CounterRow(k)} \in SUBSET RowId
  BY RowTypes
<1>3. {} \in SUBSET RowId
  OBVIOUS
<1>4. {"swapped", "accepted", "allocated", "leased", "checked"} \subseteq Phase /\ Kind = {"H", "E", "F"}
  BY DEF Phase, Kind
<1>5. TxOK(t)
  BY DEF GraphInv
<1>6. CASE SwapDecision(t)
  <2>1. {tx[t].id} \in SUBSET RowId
    BY <1>5, <1>6, RowTypes DEF SwapDecision, At, TxOK
  <2> QED BY <1>1, <1>4, <1>6, <2>1 DEF SwapDecision
<1>7. CASE TransitionHypothesis(t)
  <2>1. {tx[t].id} \in SUBSET RowId
    BY <1>5, <1>7, RowTypes DEF TransitionHypothesis, At, TxOK
  <2> QED BY <1>1, <1>4, <1>7, <2>1 DEF TransitionHypothesis, AcceptExperiment
<1>8. CASE UpsertLease(t)
  <2>1. {LeaseRow(tx[t].id)} \in SUBSET RowId
    BY <1>5, <1>8, RowTypes DEF UpsertLease, At, TxOK
  <2> QED BY <1>1, <1>4, <1>8, <2>1 DEF UpsertLease
<1>9. CASE SwapCompletion(t)
  <2>1. {tx[t].id} \in SUBSET RowId
    BY <1>5, <1>9, RowTypes DEF SwapCompletion, At, TxOK, Experiment
  <2> QED BY <1>1, <1>4, <1>9, <2>1 DEF SwapCompletion
<1>10. CASE AllocateExperiment(t) \/ AllocateFinding(t)
  BY <1>1, <1>2, <1>4, <1>10 DEF AllocateExperiment, AllocateFinding, AllocateId
<1>11. CASE CheckLease(t, "observe") \/ CheckLease(t, "complete")
  BY <1>1, <1>3, <1>4, <1>11 DEF CheckLease
<1> QED
  BY <1>6, <1>7, <1>8, <1>9, <1>10, <1>11 DEF Statement

-----------------------------------------------------------------------------
(* Requests, statements, rollbacks and lapses write no artifact. *)

LEMMA NoWrite ==
  ASSUME GraphInv, UNCHANGED <<artifact, revisions, next>>, TypeOK',
         NEW t \in Tx, \A u \in Tx \ {t} : tx'[u] = tx[u], TxOK(t)'
  PROVE  GraphInv'
<1>1. \A id \in Id : RowOK(id)' /\ HistoryOf(id)'
  BY DEF GraphInv, RowOK, HistoryOf
<1>2. \A u \in Tx \ {t} : TxOK(u)'
  BY DEF GraphInv, TxOK, HoldsCounter
<1> QED
  BY <1>1, <1>2 DEF GraphInv

LEMMA RowTyped ==
  ASSUME TypeOK, NEW id \in Id
  PROVE  /\ artifact[id].status \in Statuses /\ artifact[id].version \in Nat
         /\ artifact[id].parent \in Id \cup {NoId}
         /\ artifact[id] = [status |-> artifact[id].status, version |-> artifact[id].version,
                            parent |-> artifact[id].parent]
  BY DEF TypeOK, ArtifactType

LEMMA RequestInv ==
  ASSUME GraphInv, NEW t \in Tx, Request(t)
  PROVE  GraphInv'
<1>1. TypeOK'
  BY RequestType DEF GraphInv
<1>2. TypeOK /\ tx \in [Tx -> TxType]
  BY DEF GraphInv, TypeOK
<1>3. ASSUME NEW lane \in Lane, StartHypothesis(t, lane) PROVE GraphInv'
  <2>1. /\ tx'[t].op = "hypothesis" /\ tx'[t].phase = "allocated"
        /\ tx'[t].locks = {CounterRow("H")} /\ next'["H"] <= MaxPerKind
    BY <1>2, <1>3 DEF StartHypothesis, Idle
  <2>2. TxOK(t)'
    BY <2>1 DEF TxOK, HoldsCounter
  <2> QED
    BY <1>1, <1>2, <1>3, <2>2, NoWrite DEF StartHypothesis
<1>4. ASSUME NEW op, NEW lane, NEW id \in Id, NEW expected, NEW admitted,
             Select(t, op, lane, id, expected, admitted)
      PROVE  /\ tx'[t].op = op /\ tx'[t].phase = "read" /\ tx'[t].id = id
             /\ tx'[t].seen = artifact[id] /\ tx'[t].expected = expected
             /\ artifact[id].status \in admitted /\ artifact' = artifact
             /\ TxOK(t)' => GraphInv'
  <2>1. UNCHANGED <<artifact, revisions, next>> /\ \A u \in Tx \ {t} : tx'[u] = tx[u]
    BY <1>2, <1>4 DEF Select
  <2> QED
    BY <1>1, <1>2, <1>4, <2>1, NoWrite DEF Select
<1>5. \A id \in Id : RowOK(id) /\ artifact[id].version \in Nat
  BY <1>2, RowTyped DEF GraphInv
<1>6. \A id \in Experiment : id \in Id /\ id[1] = "E"
  BY DEF Experiment
<1>7. ASSUME NEW lane \in Lane, NEW id \in Id, StartDecision(t, lane, id) PROVE GraphInv'
  <2>1. PICK expected \in 1..artifact[id].version :
          Select(t, "decide", lane, id, expected, Decisions \cup {"PROPOSED"})
    BY <1>7 DEF StartDecision
  <2>2. /\ tx'[t].op = "decide" /\ tx'[t].phase = "read" /\ tx'[t].id = id
        /\ artifact' = artifact /\ artifact[id].status \in Decisions \cup {"PROPOSED"}
    BY <1>4, <2>1
  <2>3. id[1] = "H"
    BY <1>7 DEF StartDecision
  <2>4. TxOK(t)'
    BY <2>2, <2>3 DEF TxOK, Decisions
  <2> QED
    BY <1>4, <2>1, <2>4
<1>8. ASSUME NEW lane \in Lane, NEW id \in Id, StartExperiment(t, lane, id) PROVE GraphInv'
  <2>1. Select(t, "experiment", lane, id, 0, Decisions \cup {"PROPOSED"})
    BY <1>8 DEF StartExperiment
  <2>2. /\ tx'[t].op = "experiment" /\ tx'[t].phase = "read" /\ tx'[t].id = id
        /\ tx'[t].seen = artifact[id] /\ artifact' = artifact
        /\ artifact[id].status \in Decisions \cup {"PROPOSED"}
    BY <1>4, <2>1
  <2>3. id[1] = "H"
    BY <1>8 DEF StartExperiment
  <2>4. TxOK(t)'
    BY <2>2, <2>3 DEF TxOK, Decisions
  <2> QED
    BY <1>4, <2>1, <2>4
<1>9. ASSUME NEW lane \in Lane, NEW id \in Id, StartClaim(t, lane, id) PROVE GraphInv'
  <2>1. Select(t, "claim", lane, id, 0, {"DESIGNED", "RUNNING"})
    BY <1>9 DEF StartClaim
  <2>2. /\ tx'[t].op = "claim" /\ tx'[t].phase = "read" /\ tx'[t].id = id
        /\ tx'[t].seen = artifact[id] /\ artifact' = artifact
        /\ artifact[id].status \in {"DESIGNED", "RUNNING"}
    BY <1>4, <2>1
  <2>3. id \in Experiment /\ (artifact[id].status = "DESIGNED" => artifact[id].version = 1)
    BY <1>5, <1>6, <1>9 DEF RowOK, StartClaim
  <2>4. TxOK(t)'
    BY <2>2, <2>3 DEF TxOK, Decisions
  <2> QED
    BY <1>4, <2>1, <2>4
<1>10. ASSUME NEW lane \in Lane, NEW id \in Id, StartFinding(t, lane, id) PROVE GraphInv'
  <2>1. Select(t, "publish", lane, id, 0, {"COMPLETED"})
    BY <1>10 DEF StartFinding
  <2>2. /\ tx'[t].op = "publish" /\ tx'[t].phase = "read" /\ tx'[t].id = id
        /\ tx'[t].seen = artifact[id] /\ artifact' = artifact
        /\ artifact[id].status \in {"COMPLETED"}
    BY <1>4, <2>1
  <2>3. id \in Experiment
    BY <1>10 DEF StartFinding
  <2>4. TxOK(t)'
    BY <2>2, <2>3 DEF TxOK, Decisions
  <2> QED
    BY <1>4, <2>1, <2>4
<1>11. ASSUME NEW op \in {"observe", "complete"}, NEW lane \in Lane, NEW id \in Id,
              StartWork(t, op, lane, id)
       PROVE  GraphInv'
  <2>1. PICK expected \in 1..artifact[id].version : Select(t, op, lane, id, expected, {"RUNNING"})
    BY <1>11 DEF StartWork
  <2>2. id \in Experiment /\ artifact[id].status = "RUNNING" /\ expected \in 1..2
    <3>1. id \in Experiment /\ artifact[id].status = "RUNNING"
      BY <1>11, <2>1 DEF StartWork, Select
    <3>2. artifact[id].version = 2
      BY <1>5, <1>6, <3>1 DEF RowOK
    <3> QED
      BY <2>1, <3>1, <3>2
  <2>3. /\ tx'[t].op = op /\ tx'[t].phase = "read" /\ tx'[t].id = id
        /\ tx'[t].expected = expected /\ artifact' = artifact
    BY <1>4, <2>1
  <2>4. TxOK(t)'
    BY <2>2, <2>3 DEF TxOK
  <2> QED
    BY <1>4, <2>1, <2>4
<1> QED
  BY <1>3, <1>7, <1>8, <1>9, <1>10, <1>11 DEF Request

LEMMA AdvanceFields ==
  ASSUME tx \in [Tx -> TxType], NEW t \in Tx, NEW phase, NEW rows, Advance(t, phase, rows)
  PROVE  /\ tx'[t].phase = phase /\ tx'[t].locks = tx[t].locks \cup rows
         /\ tx'[t].op = tx[t].op /\ tx'[t].id = tx[t].id /\ tx'[t].seen = tx[t].seen
         /\ tx'[t].expected = tx[t].expected /\ tx'[t].lane = tx[t].lane
         /\ \A u \in Tx \ {t} : tx'[u] = tx[u]
         /\ artifact' = artifact /\ revisions' = revisions /\ next' = next
         /\ lease' = lease /\ lapses' = lapses
  BY DEF Advance, TxType

LEMMA StatementInv ==
  ASSUME GraphInv, NEW t \in Tx, Statement(t)
  PROVE  GraphInv'
<1>1. tx \in [Tx -> TxType] /\ TypeOK /\ TypeOK'
  BY StatementType DEF GraphInv, TypeOK
<1>2. TxOK(t)
  BY DEF GraphInv
<1>3. ASSUME NEW phase, NEW rows, Advance(t, phase, rows), TxOK(t)'
      PROVE  GraphInv'
  BY <1>1, <1>3, NoWrite, AdvanceFields
<1>4. CASE SwapDecision(t)
  <2>1. /\ Advance(t, "swapped", {tx[t].id})
        /\ tx[t].op = "decide"
    BY <1>4 DEF SwapDecision, At
  <2>2. /\ tx'[t].phase = "swapped" /\ tx'[t].locks = tx[t].locks \cup {tx[t].id}
        /\ tx'[t].op = tx[t].op /\ tx'[t].id = tx[t].id /\ tx'[t].seen = tx[t].seen
        /\ tx'[t].expected = tx[t].expected
        /\ artifact' = artifact /\ next' = next
    BY <1>1, <2>1, AdvanceFields
  <2>4. TxOK(t)'
    BY <1>2, <2>1, <2>2 DEF TxOK, HoldsCounter
  <2> QED
    BY <1>3, <2>1, <2>4
<1>5. CASE TransitionHypothesis(t)
  <2>1. /\ Advance(t, "accepted", {tx[t].id})
        /\ tx[t].op = "experiment" /\ artifact[tx[t].id].status \in {"PROPOSED", "TESTING"}
    BY <1>5 DEF TransitionHypothesis, AcceptExperiment, At
  <2>2. /\ tx'[t].phase = "accepted" /\ tx'[t].locks = tx[t].locks \cup {tx[t].id}
        /\ tx'[t].op = tx[t].op /\ tx'[t].id = tx[t].id /\ tx'[t].seen = tx[t].seen
        /\ tx'[t].expected = tx[t].expected
        /\ artifact' = artifact /\ next' = next
    BY <1>1, <2>1, AdvanceFields
  <2>4. TxOK(t)'
    BY <1>2, <2>1, <2>2 DEF TxOK, HoldsCounter
  <2> QED
    BY <1>3, <2>1, <2>4
<1>6. CASE AllocateExperiment(t)
  <2>1. /\ Advance(t, "allocated", {CounterRow("E")})
        /\ tx[t].op = "experiment" /\ tx[t].phase = "accepted" /\ next["E"] <= MaxPerKind
    BY <1>6 DEF AllocateExperiment, AllocateId, At
  <2>2. /\ tx'[t].phase = "allocated" /\ tx'[t].locks = tx[t].locks \cup {CounterRow("E")}
        /\ tx'[t].op = tx[t].op /\ tx'[t].id = tx[t].id /\ tx'[t].seen = tx[t].seen
        /\ tx'[t].expected = tx[t].expected
        /\ artifact' = artifact /\ next' = next
    BY <1>1, <2>1, AdvanceFields
  <2>4. TxOK(t)'
    BY <1>2, <2>1, <2>2 DEF TxOK, HoldsCounter
  <2> QED
    BY <1>3, <2>1, <2>4
<1>7. CASE UpsertLease(t)
  <2>1. /\ Advance(t, "leased", {LeaseRow(tx[t].id)})
        /\ tx[t].op = "claim"
    BY <1>7 DEF UpsertLease, At
  <2>2. /\ tx'[t].phase = "leased" /\ tx'[t].locks = tx[t].locks \cup {LeaseRow(tx[t].id)}
        /\ tx'[t].op = tx[t].op /\ tx'[t].id = tx[t].id /\ tx'[t].seen = tx[t].seen
        /\ tx'[t].expected = tx[t].expected
        /\ artifact' = artifact /\ next' = next
    BY <1>1, <2>1, AdvanceFields
  <2>4. TxOK(t)'
    BY <1>2, <2>1, <2>2 DEF TxOK, HoldsCounter
  <2> QED
    BY <1>3, <2>1, <2>4
<1>8. CASE CheckLease(t, "observe")
  <2>1. /\ Advance(t, "checked", {})
        /\ tx[t].op = "observe"
    BY <1>8 DEF CheckLease, At
  <2>2. /\ tx'[t].phase = "checked" /\ tx'[t].locks = tx[t].locks \cup {}
        /\ tx'[t].op = tx[t].op /\ tx'[t].id = tx[t].id /\ tx'[t].seen = tx[t].seen
        /\ tx'[t].expected = tx[t].expected
        /\ artifact' = artifact /\ next' = next
    BY <1>1, <2>1, AdvanceFields
  <2>4. TxOK(t)'
    BY <1>2, <2>1, <2>2 DEF TxOK, HoldsCounter
  <2> QED
    BY <1>3, <2>1, <2>4
<1>9. CASE CheckLease(t, "complete")
  <2>1. /\ Advance(t, "checked", {})
        /\ tx[t].op = "complete"
    BY <1>9 DEF CheckLease, At
  <2>2. /\ tx'[t].phase = "checked" /\ tx'[t].locks = tx[t].locks \cup {}
        /\ tx'[t].op = tx[t].op /\ tx'[t].id = tx[t].id /\ tx'[t].seen = tx[t].seen
        /\ tx'[t].expected = tx[t].expected
        /\ artifact' = artifact /\ next' = next
    BY <1>1, <2>1, AdvanceFields
  <2>4. TxOK(t)'
    BY <1>2, <2>1, <2>2 DEF TxOK, HoldsCounter
  <2> QED
    BY <1>3, <2>1, <2>4
<1>10. CASE SwapCompletion(t)
  <2>1. /\ Advance(t, "swapped", {tx[t].id})
        /\ tx[t].op = "complete" /\ VersionMatches(t)
    BY <1>10 DEF SwapCompletion, At
  <2>2. /\ tx'[t].phase = "swapped" /\ tx'[t].locks = tx[t].locks \cup {tx[t].id}
        /\ tx'[t].op = tx[t].op /\ tx'[t].id = tx[t].id /\ tx'[t].seen = tx[t].seen
        /\ tx'[t].expected = tx[t].expected
        /\ artifact' = artifact /\ next' = next
    BY <1>1, <2>1, AdvanceFields
  <2>3. artifact[tx[t].id].status = "RUNNING"
    <3>1. tx[t].id \in Id /\ tx[t].id[1] = "E" /\ artifact[tx[t].id].version \in 1..2
      BY <1>2, <2>1 DEF TxOK, Experiment, VersionMatches
    <3>2. RowOK(tx[t].id) /\ artifact[tx[t].id].status \in {"RUNNING", "COMPLETED"}
      BY <1>2, <2>1, <3>1 DEF GraphInv, TxOK
    <3> QED
      BY <3>1, <3>2 DEF RowOK
  <2>4. TxOK(t)'
    BY <1>2, <2>1, <2>2, <2>3 DEF TxOK, HoldsCounter
  <2> QED
    BY <1>3, <2>1, <2>4
<1>11. CASE AllocateFinding(t)
  <2>1. /\ Advance(t, "allocated", {CounterRow("F")})
        /\ tx[t].op = "publish" /\ next["F"] <= MaxPerKind
    BY <1>11 DEF AllocateFinding, AllocateId, At
  <2>2. /\ tx'[t].phase = "allocated" /\ tx'[t].locks = tx[t].locks \cup {CounterRow("F")}
        /\ tx'[t].op = tx[t].op /\ tx'[t].id = tx[t].id /\ tx'[t].seen = tx[t].seen
        /\ tx'[t].expected = tx[t].expected
        /\ artifact' = artifact /\ next' = next
    BY <1>1, <2>1, AdvanceFields
  <2>4. TxOK(t)'
    BY <1>2, <2>1, <2>2 DEF TxOK, HoldsCounter
  <2> QED
    BY <1>3, <2>1, <2>4
<1> QED
  BY <1>4, <1>5, <1>6, <1>7, <1>8, <1>9, <1>10, <1>11 DEF Statement

LEMMA AbortInv ==
  ASSUME GraphInv, NEW t \in Tx, Abort(t)
  PROVE  GraphInv'
<1>1. TypeOK /\ tx \in [Tx -> TxType] /\ tx' = [tx EXCEPT ![t] = Idle]
  BY DEF GraphInv, TypeOK, Abort, End
<1>2. TypeOK'
  BY <1>1, EndKeepsLocks DEF Abort, TypeOK, ConsistentOK
<1>3. TxOK(t)'
  BY <1>1 DEF TxOK, Idle
<1> QED
  BY <1>1, <1>2, <1>3, NoWrite DEF Abort

LEMMA LapseInv ==
  ASSUME GraphInv, NEW id \in Experiment, LeaseLapses(id)
  PROVE  GraphInv'
<1>1. TypeOK'
  <2>1. lease' \in [Experiment -> [owner : Lane \cup {NoLane}, live : BOOLEAN]]
    BY DEF GraphInv, TypeOK, LeaseLapses
  <2>2. lapses' \in Nat
    BY DEF GraphInv, TypeOK, LeaseLapses
  <2> QED
    BY <2>1, <2>2 DEF GraphInv, TypeOK, ConsistentOK, LeaseLapses
<1>2. \A i \in Id : RowOK(i)' /\ HistoryOf(i)'
  BY DEF GraphInv, RowOK, HistoryOf, LeaseLapses
<1>3. \A t \in Tx : TxOK(t)'
  BY DEF GraphInv, TxOK, HoldsCounter, LeaseLapses
<1> QED
  BY <1>1, <1>2, <1>3 DEF GraphInv, LeaseLapses

-----------------------------------------------------------------------------
(* Commits *)

\* How a row may move: what another transaction has read of it stays true.
Forward(id) ==
  LET row == artifact[id]
  IN /\ row.status # "none"
          => artifact'[id].status # "none" /\ artifact'[id].parent = row.parent
     /\ row.status \in Decisions => artifact'[id].status \in Decisions
     /\ row.status = "RUNNING" => artifact'[id].status \in {"RUNNING", "COMPLETED"}
     /\ row.status \in {"COMPLETED", "PUBLISHED"} => artifact'[id] = row

\* No experiment is added.
NoNewExperiment ==
  \A e \in Experiment : artifact[e].status = "none" => artifact'[e] = artifact[e]

\* The rows another transaction holds are not written.
HeldKept(u) ==
  /\ tx[u].op \in {"decide", "experiment", "complete"} /\ tx[u].id \in tx[u].locks
       => artifact'[tx[u].id] = artifact[tx[u].id]
  /\ \A k \in Kind : CounterRow(k) \in tx[u].locks => next'[k] = next[k]

LEMMA OthersKept ==
  ASSUME GraphInv, NEW u \in Tx, tx'[u] = tx[u], \A id \in Id : Forward(id), HeldKept(u)
  PROVE  TxOK(u)'
<1>1. TxOK(u)
  BY DEF GraphInv
<1>2. \A id \in Experiment : id \in Id
  BY DEF Experiment
<1>3. \A k \in {"H", "E", "F"} : HoldsCounter(u, k) => HoldsCounter(u, k)'
  BY DEF HoldsCounter, HeldKept, Kind
<1>4. tx[u].id \in Id => Forward(tx[u].id)
  OBVIOUS
<1>5. tx[u].op \in {"decide", "experiment", "complete"} /\ tx[u].id \in tx[u].locks
        => artifact'[tx[u].id] = artifact[tx[u].id]
  BY DEF HeldKept
<1> QED
  BY <1>1, <1>2, <1>3, <1>4, <1>5 DEF TxOK, Forward

LEMMA CommitInv ==
  ASSUME GraphInv, NEW t \in Tx, End(t), TypeOK', \A k \in Kind : next'[k] > 0,
         \A id \in Id : Forward(id) /\ RowOK(id)' /\ HistoryOf(id)',
         \A u \in Tx \ {t} : HeldKept(u)
  PROVE  GraphInv'
<1>1. tx' = [tx EXCEPT ![t] = Idle] /\ tx \in [Tx -> TxType]
  BY DEF End, GraphInv, TypeOK
<1>2. \A u \in Tx \ {t} : TxOK(u)'
  BY <1>1, OthersKept
<1>3. TxOK(t)'
  BY <1>1 DEF TxOK, Idle
<1> QED
  BY <1>2, <1>3 DEF GraphInv

LEMMA CommitType ==
  ASSUME TypeOK, NEW t \in Tx, End(t), artifact' \in [Id -> ArtifactType],
         revisions' \subseteq Id \X Nat \X Statuses,
         lease' \in [Experiment -> [owner : Lane \cup {NoLane}, live : BOOLEAN]],
         observed' \in [Experiment -> Nat], next' \in [Kind -> Nat], lapses' = lapses,
         \A id \in Id : artifact'[id].status # "none" <=> id[2] < next'[id[1]]
  PROVE  TypeOK'
  BY EndKeepsLocks DEF TypeOK, ConsistentOK

LEMMA HistoryKept ==
  ASSUME NEW id \in Id, HistoryOf(id), artifact'[id] = artifact[id], NEW S,
         revisions' = revisions \cup S, \A r \in S : r[1] # id
  PROVE  HistoryOf(id)'
  BY DEF HistoryOf

LEMMA HistoryGrows ==
  ASSUME TypeOK, NEW id \in Id, HistoryOf(id), NEW S, NEW status,
         artifact'[id].version = artifact[id].version + 1, artifact'[id].status = status,
         revisions' = revisions \cup S, <<id, artifact[id].version + 1, status>> \in S,
         \A r \in S : r[1] = id => r = <<id, artifact[id].version + 1, status>>
  PROVE  HistoryOf(id)'
<1>1. artifact[id].version \in Nat
  BY RowTyped
<1> QED
  BY <1>1 DEF HistoryOf

LEMMA RowKept ==
  ASSUME GraphInv, \A id \in Id : Forward(id), NEW id \in Id, artifact'[id] = artifact[id]
  PROVE  RowOK(id)'
<1>1. RowOK(id) /\ (id[1] = "E" => id \in Experiment)
  BY DEF GraphInv, Experiment
<1>2. \A e \in Experiment : e \in Id
  BY DEF Experiment
<1> QED
  BY <1>1, <1>2 DEF RowOK, Forward

LEMMA NewArtifact ==
  ASSUME GraphInv, NEW kind \in Kind, next[kind] <= MaxPerKind
  PROVE  /\ Created(kind) \in Id /\ Created(kind)[1] = kind
         /\ artifact[Created(kind)].status = "none" /\ artifact[Created(kind)].version = 0
         /\ \A id \in Id : id[1] = kind /\ id[2] = next[kind] => id = Created(kind)
<1>1. next[kind] \in Nat /\ next[kind] > 0 /\ MaxPerKind \in Nat
  BY GraphConstants DEF GraphInv, TypeOK
<1>2. Created(kind) \in Id /\ Created(kind)[1] = kind /\ Created(kind)[2] = next[kind]
  BY <1>1 DEF Created, Id
<1>3. artifact[Created(kind)].status = "none"
  BY <1>1, <1>2 DEF GraphInv, TypeOK, ConsistentOK
<1>4. artifact[Created(kind)].version = 0
  BY <1>2, <1>3 DEF GraphInv, RowOK
<1> QED
  BY <1>2, <1>3, <1>4 DEF Created, Id

LEMMA WriteOne ==
  ASSUME GraphInv, NEW id \in Id, NEW status \in Statuses, NEW version,
         NEW parent \in Id \cup {NoId}, version = artifact[id].version + 1,
         Write(id, status, version, parent)
  PROVE  /\ artifact' \in [Id -> ArtifactType] /\ revisions' \subseteq Id \X Nat \X Statuses
         /\ artifact'[id] = [status |-> status, version |-> version, parent |-> parent]
         /\ \A i \in Id \ {id} : artifact'[i] = artifact[i]
         /\ \A i \in Id : HistoryOf(i)'
<1>1. TypeOK /\ artifact \in [Id -> ArtifactType] /\ version \in Nat
  BY RowTyped DEF GraphInv, TypeOK
<1> DEFINE new == [status |-> status, version |-> version, parent |-> parent]
           S   == {<<id, version, status>>}
<1>2. new \in ArtifactType
  BY <1>1 DEF ArtifactType
<1>3. artifact' = [artifact EXCEPT ![id] = new] /\ revisions' = revisions \cup S
  BY DEF Write
<1>4. artifact' \in [Id -> ArtifactType] /\ artifact'[id] = new
      /\ \A i \in Id \ {id} : artifact'[i] = artifact[i]
  BY <1>1, <1>2, <1>3
<1>5. revisions' \subseteq Id \X Nat \X Statuses
  BY <1>1, <1>3 DEF TypeOK
<1>6. ASSUME NEW i \in Id \ {id} PROVE HistoryOf(i)'
  <2>1. HistoryOf(i) /\ artifact'[i] = artifact[i] /\ \A r \in S : r[1] # i
    BY <1>4 DEF GraphInv
  <2> HIDE DEF S
  <2> QED
    BY <1>3, <2>1, HistoryKept
<1>7. HistoryOf(id)'
  <2>1. artifact'[id].version = artifact[id].version + 1 /\ artifact'[id].status = status
    BY <1>4
  <2>2. <<id, artifact[id].version + 1, status>> \in S
        /\ \A r \in S : r[1] = id => r = <<id, artifact[id].version + 1, status>>
    OBVIOUS
  <2>3. HistoryOf(id)
    BY DEF GraphInv
  <2> HIDE DEF S
  <2> QED
    BY <1>1, <1>3, <2>1, <2>2, <2>3, HistoryGrows
<1> QED
  BY <1>4, <1>5, <1>6, <1>7

LEMMA NewNumber ==
  ASSUME GraphInv, NEW kind \in Kind, next[kind] <= MaxPerKind,
         next' = [next EXCEPT ![kind] = @ + 1], artifact'[Created(kind)].status # "none",
         \A i \in Id \ {Created(kind)} :
           artifact'[i].status # "none" <=> artifact[i].status # "none"
  PROVE  /\ next' \in [Kind -> Nat] /\ \A k \in Kind : next'[k] > 0
         /\ \A id \in Id : artifact'[id].status # "none" <=> id[2] < next'[id[1]]
<1>1. next \in [Kind -> Nat] /\ \A id \in Id : artifact[id].status # "none" <=> id[2] < next[id[1]]
  BY DEF GraphInv, TypeOK, ConsistentOK
<1>2. next' \in [Kind -> Nat] /\ next'[kind] = next[kind] + 1
      /\ \A k \in Kind \ {kind} : next'[k] = next[k]
  BY <1>1
<1>3. \A id \in Id : id[1] \in Kind /\ id[2] \in Nat
  BY GraphConstants DEF Id
<1>4. \A k \in Kind : next'[k] > 0
  BY <1>1, <1>2 DEF GraphInv
<1>5. ASSUME NEW id \in Id PROVE artifact'[id].status # "none" <=> id[2] < next'[id[1]]
  <2>1. CASE id = Created(kind)
    BY <1>1, <1>2, <2>1 DEF Created
  <2>2. CASE id # Created(kind) /\ id[1] = kind
    <3>1. id[2] # next[kind]
      BY <2>2, NewArtifact
    <3> QED
      BY <1>1, <1>2, <1>3, <2>2, <3>1
  <2>3. CASE id[1] # kind
    BY <1>1, <1>2, <1>3, <2>3, NewArtifact
  <2> QED
    BY <2>1, <2>2, <2>3
<1> QED
  BY <1>2, <1>4, <1>5

LEMMA HeldByOne ==
  ASSUME GraphInv, NEW t \in Tx, NEW u \in Tx \ {t}, NEW r \in tx[t].locks
  PROVE  r \notin tx[u].locks
  BY DEF GraphInv, TypeOK, ConsistentOK

\* A transaction that creates an artifact and writes at most one that it holds
LEMMA CreateKeepsHeld ==
  ASSUME GraphInv, NEW t \in Tx, NEW kind \in Kind, HoldsCounter(t, kind),
         next' = [next EXCEPT ![kind] = @ + 1],
         \A i \in Id \ {Created(kind)} : artifact'[i] = artifact[i] \/ i \in tx[t].locks,
         NEW u \in Tx \ {t}
  PROVE  HeldKept(u)
<1>1. next \in [Kind -> Nat]
  BY DEF GraphInv, TypeOK
<1>2. ASSUME NEW k \in Kind, CounterRow(k) \in tx[u].locks PROVE next'[k] = next[k]
  <2>1. k # kind
    BY <1>2, HeldByOne DEF HoldsCounter
  <2> QED
    BY <1>1, <2>1
<1>3. ASSUME tx[u].op \in {"decide", "experiment", "complete"}, tx[u].id \in tx[u].locks
      PROVE  artifact'[tx[u].id] = artifact[tx[u].id]
  <2>1. tx[u].id \in Id /\ artifact[tx[u].id].status # "none"
    BY <1>3 DEF GraphInv, TxOK, Experiment
  <2>2. tx[u].id # Created(kind)
    BY <2>1, NewArtifact DEF HoldsCounter
  <2>3. tx[u].id \notin tx[t].locks
    BY <1>3, HeldByOne
  <2> QED
    BY <2>1, <2>2, <2>3
<1> QED
  BY <1>2, <1>3 DEF HeldKept

LEMMA CommitHypothesisInv ==
  ASSUME GraphInv, NEW t \in Tx, CommitHypothesis(t)
  PROVE  GraphInv' /\ NoNewExperiment /\ \A id \in Id : Forward(id)
<1>1. TypeOK /\ TxOK(t) /\ tx[t].op = "hypothesis" /\ HoldsCounter(t, "H") /\ "H" \in Kind
  BY DEF GraphInv, CommitHypothesis, At, TxOK, Kind
<1>2. PICK new \in Id : /\ new = Created("H") /\ new[1] = "H"
                       /\ artifact[new].status = "none" /\ artifact[new].version = 0
  BY <1>1, NewArtifact DEF HoldsCounter
<1>3. Write(new, "PROPOSED", 1, NoId) /\ 1 = artifact[new].version + 1 /\ "PROPOSED" \in Statuses
  BY <1>2 DEF CommitHypothesis, Statuses
<1>4. NoId \in Id \cup {NoId}
  OBVIOUS
<1>5. /\ artifact' \in [Id -> ArtifactType] /\ revisions' \subseteq Id \X Nat \X Statuses
      /\ artifact'[new] = [status |-> "PROPOSED", version |-> 1, parent |-> NoId]
      /\ \A i \in Id \ {new} : artifact'[i] = artifact[i]
      /\ \A i \in Id : HistoryOf(i)'
  BY <1>2, <1>3, <1>4, WriteOne
<1>6. next' = [next EXCEPT !["H"] = @ + 1] /\ End(t) /\ UNCHANGED <<lease, observed, lapses>>
  BY DEF CommitHypothesis
<1>7. /\ next' \in [Kind -> Nat] /\ \A k \in Kind : next'[k] > 0
      /\ \A id \in Id : artifact'[id].status # "none" <=> id[2] < next'[id[1]]
  <2>1. artifact'[Created("H")].status # "none"
    BY <1>2, <1>5
  <2>2. \A i \in Id \ {Created("H")} : artifact'[i].status # "none" <=> artifact[i].status # "none"
    BY <1>2, <1>5
  <2> QED
    BY <1>1, <1>6, <2>1, <2>2, NewNumber DEF HoldsCounter
<1>8. TypeOK'
  BY <1>1, <1>5, <1>6, <1>7, CommitType DEF TypeOK
<1>9. \A id \in Id : Forward(id)
  <2>1. Forward(new)
    BY <1>2 DEF Forward, Decisions
  <2>2. \A id \in Id \ {new} : Forward(id)
    BY <1>5 DEF Forward
  <2> QED
    BY <2>1, <2>2
<1>10. \A id \in Id : RowOK(id)'
  <2>1. RowOK(new)'
    BY <1>2, <1>5 DEF RowOK
  <2> QED
    BY <1>5, <1>9, <2>1, RowKept
<1>11. \A u \in Tx \ {t} : HeldKept(u)
  BY <1>1, <1>2, <1>5, <1>6, CreateKeepsHeld
<1>12. NoNewExperiment
  BY <1>2, <1>5 DEF NoNewExperiment, Experiment
<1> QED
  BY <1>5, <1>6, <1>7, <1>8, <1>9, <1>10, <1>11, <1>12, CommitInv

LEMMA CommitFindingInv ==
  ASSUME GraphInv, NEW t \in Tx, CommitFinding(t)
  PROVE  GraphInv' /\ NoNewExperiment /\ \A id \in Id : Forward(id)
<1>1. TypeOK /\ TxOK(t) /\ tx[t].op = "publish" /\ HoldsCounter(t, "F") /\ "F" \in Kind
  BY DEF GraphInv, CommitFinding, At, TxOK, Kind
<1>2. PICK new \in Id : /\ new = Created("F") /\ new[1] = "F"
                       /\ artifact[new].status = "none" /\ artifact[new].version = 0
  BY <1>1, NewArtifact DEF HoldsCounter
<1>3. Write(new, "PUBLISHED", 1, tx[t].id) /\ 1 = artifact[new].version + 1 /\ "PUBLISHED" \in Statuses
  BY <1>2 DEF CommitFinding, Statuses
<1>4. tx[t].id \in Experiment /\ tx[t].id \in Id \cup {NoId} /\ artifact[tx[t].id].status = "COMPLETED"
  BY <1>1 DEF TxOK, Experiment
<1>5. /\ artifact' \in [Id -> ArtifactType] /\ revisions' \subseteq Id \X Nat \X Statuses
      /\ artifact'[new] = [status |-> "PUBLISHED", version |-> 1, parent |-> tx[t].id]
      /\ \A i \in Id \ {new} : artifact'[i] = artifact[i]
      /\ \A i \in Id : HistoryOf(i)'
  BY <1>2, <1>3, <1>4, WriteOne
<1>6. next' = [next EXCEPT !["F"] = @ + 1] /\ End(t) /\ UNCHANGED <<lease, observed, lapses>>
  BY DEF CommitFinding
<1>7. /\ next' \in [Kind -> Nat] /\ \A k \in Kind : next'[k] > 0
      /\ \A id \in Id : artifact'[id].status # "none" <=> id[2] < next'[id[1]]
  <2>1. artifact'[Created("F")].status # "none"
    BY <1>2, <1>5
  <2>2. \A i \in Id \ {Created("F")} : artifact'[i].status # "none" <=> artifact[i].status # "none"
    BY <1>2, <1>5
  <2> QED
    BY <1>1, <1>6, <2>1, <2>2, NewNumber DEF HoldsCounter
<1>8. TypeOK'
  BY <1>1, <1>5, <1>6, <1>7, CommitType DEF TypeOK
<1>9. \A id \in Id : Forward(id)
  <2>1. Forward(new)
    BY <1>2 DEF Forward, Decisions
  <2>2. \A id \in Id \ {new} : Forward(id)
    BY <1>5 DEF Forward
  <2> QED
    BY <2>1, <2>2
<1>10. \A id \in Id : RowOK(id)'
  <2>1. RowOK(new)'
    <3>1. tx[t].id # new /\ tx[t].id \in Id
      BY <1>2, <1>4 DEF Experiment
    <3>2. artifact'[tx[t].id].status = "COMPLETED"
      BY <1>4, <1>5, <3>1
    <3> QED
      BY <1>2, <1>4, <1>5, <3>2 DEF RowOK
  <2> QED
    BY <1>5, <1>9, <2>1, RowKept
<1>11. \A u \in Tx \ {t} : HeldKept(u)
  BY <1>1, <1>2, <1>5, <1>6, CreateKeepsHeld
<1>12. NoNewExperiment
  BY <1>2, <1>5 DEF NoNewExperiment, Experiment
<1> QED
  BY <1>5, <1>6, <1>7, <1>8, <1>9, <1>10, <1>11, <1>12, CommitInv

\* A transaction that writes one artifact that is there
LEMMA RewriteInv ==
  ASSUME GraphInv, NEW t \in Tx, End(t), NEW id \in Id, artifact[id].status # "none",
         NEW status \in Statuses \ {"none"}, NEW version, NEW parent \in Id \cup {NoId},
         version = artifact[id].version + 1, Write(id, status, version, parent),
         lease' \in [Experiment -> [owner : Lane \cup {NoLane}, live : BOOLEAN]],
         UNCHANGED <<observed, next, lapses>>,
         artifact'[id] = [status |-> status, version |-> version, parent |-> parent]
           => Forward(id) /\ ((\A i \in Id : Forward(i)) => RowOK(id)'),
         \A u \in Tx \ {t} : id \notin tx[u].locks
  PROVE  GraphInv' /\ NoNewExperiment /\ \A i \in Id : Forward(i)
<1>1. /\ artifact' \in [Id -> ArtifactType] /\ revisions' \subseteq Id \X Nat \X Statuses
      /\ artifact'[id] = [status |-> status, version |-> version, parent |-> parent]
      /\ \A i \in Id \ {id} : artifact'[i] = artifact[i]
      /\ \A i \in Id : HistoryOf(i)'
  BY WriteOne
<1>2. \A i \in Id : Forward(i)
  <2>1. \A i \in Id \ {id} : Forward(i)
    BY <1>1 DEF Forward
  <2> QED
    BY <1>1, <2>1
<1>3. \A i \in Id : RowOK(i)'
  BY <1>1, <1>2, RowKept
<1>4. TypeOK'
  <2>1. \A i \in Id : artifact'[i].status # "none" <=> i[2] < next'[i[1]]
    BY <1>1 DEF GraphInv, TypeOK, ConsistentOK
  <2> QED
    BY <1>1, <2>1, CommitType DEF GraphInv, TypeOK
<1>5. ASSUME NEW u \in Tx \ {t} PROVE HeldKept(u)
  BY <1>1 DEF HeldKept, GraphInv, TxOK, Experiment
<1>6. NoNewExperiment
  BY <1>1 DEF NoNewExperiment, Experiment
<1> QED
  BY <1>1, <1>2, <1>3, <1>4, <1>5, <1>6, CommitInv DEF GraphInv

LEMMA CommitDecisionInv ==
  ASSUME GraphInv, NEW t \in Tx, CommitDecision(t)
  PROVE  GraphInv' /\ NoNewExperiment /\ \A id \in Id : Forward(id)
<1>1. /\ tx[t].op = "decide" /\ tx[t].phase = "swapped" /\ End(t)
      /\ UNCHANGED <<lease, observed, next, lapses>>
      /\ TypeOK /\ TxOK(t)
  BY DEF GraphInv, CommitDecision, At
<1>2. PICK id \in Id : /\ id = tx[t].id /\ id[1] = "H" /\ id \in tx[t].locks
                      /\ artifact[id].status # "none"
  BY <1>1 DEF TxOK
<1>3. PICK decision \in Decisions :
        Write(id, decision, artifact[id].version + 1, artifact[id].parent)
  BY <1>2 DEF CommitDecision
<1>4. PICK version : version = artifact[id].version + 1
  OBVIOUS
<1>5. PICK parent \in Id \cup {NoId} : parent = artifact[id].parent
  BY <1>1, RowTyped
<1>6. Write(id, decision, version, parent) /\ decision \in Statuses \ {"none"} /\ version > 0
  <2>1. artifact[id].version \in Nat
    BY <1>1, RowTyped
  <2>2. Write(id, decision, version, parent)
    BY <1>3, <1>4, <1>5
  <2> QED
    BY <1>4, <2>1, <2>2 DEF Decisions, Statuses
<1>7. ASSUME artifact'[id] = [status |-> decision, version |-> version, parent |-> parent]
      PROVE  Forward(id) /\ ((\A i \in Id : Forward(i)) => RowOK(id)')
  <2>1. RowOK(id) /\ artifact[id].status \in Decisions \cup {"PROPOSED"}
    BY <1>2 DEF GraphInv, RowOK
  <2> QED
    BY <1>2, <1>5, <1>6, <1>7, <2>1 DEF Forward, RowOK, Decisions
<1>8. \A u \in Tx \ {t} : id \notin tx[u].locks
  BY <1>2, HeldByOne
<1>9. lease' \in [Experiment -> [owner : Lane \cup {NoLane}, live : BOOLEAN]]
  BY <1>1 DEF TypeOK
<1> QED
  BY <1>1, <1>2, <1>4, <1>6, <1>7, <1>8, <1>9, RewriteInv

LEMMA CommitCompletionInv ==
  ASSUME GraphInv, NEW t \in Tx, CommitCompletion(t)
  PROVE  GraphInv' /\ NoNewExperiment /\ \A id \in Id : Forward(id)
<1>1. /\ tx[t].op = "complete" /\ tx[t].phase = "swapped" /\ End(t)
      /\ UNCHANGED <<observed, next, lapses>>
      /\ TypeOK /\ TxOK(t)
  BY DEF GraphInv, CommitCompletion, At
<1>2. PICK id \in Id : /\ id = tx[t].id /\ id[1] = "E" /\ id \in tx[t].locks
                      /\ id \in Experiment /\ artifact[id].status = "RUNNING"
  BY <1>1 DEF TxOK, Experiment
<1>3. /\ Write(id, "COMPLETED", artifact[id].version + 1, artifact[id].parent)
      /\ lease' = [lease EXCEPT ![id] = IF @.owner = tx[t].lane THEN NoLease ELSE @]
  BY <1>2 DEF CommitCompletion
<1>4. PICK version : version = artifact[id].version + 1
  OBVIOUS
<1>5. PICK parent \in Id \cup {NoId} : parent = artifact[id].parent
  BY <1>1, RowTyped
<1>6. Write(id, "COMPLETED", version, parent) /\ "COMPLETED" \in Statuses \ {"none"}
  BY <1>3, <1>4, <1>5 DEF Statuses
<1>7. ASSUME artifact'[id] = [status |-> "COMPLETED", version |-> version, parent |-> parent]
      PROVE  Forward(id) /\ ((\A i \in Id : Forward(i)) => RowOK(id)')
  <2>1. RowOK(id) /\ version = 3 /\ parent \in Id /\ artifact[parent].status \in Decisions
    BY <1>2, <1>4, <1>5 DEF GraphInv, RowOK
  <2>2. Forward(id)
    BY <1>2, <1>5, <1>7 DEF Forward, Decisions
  <2>3. ASSUME \A i \in Id : Forward(i) PROVE RowOK(id)'
    BY <1>2, <1>7, <2>1, <2>3 DEF RowOK, Forward
  <2> QED
    BY <2>2, <2>3
<1>8. \A u \in Tx \ {t} : id \notin tx[u].locks
  BY <1>2, HeldByOne
<1>9. lease' \in [Experiment -> [owner : Lane \cup {NoLane}, live : BOOLEAN]]
  BY <1>1, <1>2, <1>3 DEF TypeOK, NoLease
<1> QED
  BY <1>1, <1>2, <1>4, <1>6, <1>7, <1>8, <1>9, RewriteInv

LEMMA CommitObservationInv ==
  ASSUME GraphInv, NEW t \in Tx, CommitObservation(t)
  PROVE  GraphInv' /\ NoNewExperiment /\ \A id \in Id : Forward(id)
<1>1. End(t) /\ UNCHANGED <<artifact, revisions, lease, next, lapses>> /\ TypeOK
  BY DEF CommitObservation, GraphInv
<1>2. observed' \in [Experiment -> Nat]
  <2>1. tx[t].id \in Experiment
    BY DEF GraphInv, TxOK, CommitObservation, At
  <2>2. observed \in [Experiment -> Nat] /\ observed[tx[t].id] + 1 \in Nat
    BY <2>1 DEF GraphInv, TypeOK
  <2> QED
    BY <2>1, <2>2 DEF CommitObservation
<1>3. TypeOK'
  BY <1>1, <1>2, CommitType DEF TypeOK, ConsistentOK
<1>4. \A id \in Id : Forward(id) /\ RowOK(id)' /\ HistoryOf(id)'
  BY <1>1 DEF Forward, GraphInv, RowOK, HistoryOf
<1>5. (\A k \in Kind : next'[k] > 0) /\ \A u \in Tx \ {t} : HeldKept(u)
  BY <1>1 DEF GraphInv, HeldKept
<1> QED
  BY <1>1, <1>3, <1>4, <1>5, CommitInv DEF NoNewExperiment

\* What a claim read is compared with what it finds by the revisions: a
\* DESIGNED experiment that has run already has a second revision.
LEMMA CommitClaimInv ==
  ASSUME GraphInv, NEW t \in Tx, CommitClaim(t)
  PROVE  GraphInv' /\ NoNewExperiment /\ \A id \in Id : Forward(id)
<1>1. /\ tx[t].op = "claim" /\ End(t) /\ UNCHANGED <<observed, next, lapses>>
      /\ TypeOK /\ TxOK(t) /\ tx[t].lane \in Lane \cup {NoLane}
  BY DEF GraphInv, CommitClaim, At, TypeOK, TxType
<1>2. PICK id \in Id : /\ id = tx[t].id /\ id[1] = "E" /\ id \in Experiment
                      /\ artifact[id].status # "none"
  BY <1>1 DEF TxOK, Experiment
<1>3. lease' \in [Experiment -> [owner : Lane \cup {NoLane}, live : BOOLEAN]]
  BY <1>1, <1>2 DEF TypeOK, CommitClaim
<1>4. CASE tx[t].seen.status # "DESIGNED"
  <2>1. UNCHANGED <<artifact, revisions>>
    BY <1>2, <1>4 DEF CommitClaim
  <2>2. TypeOK'
    BY <1>1, <1>3, <2>1, CommitType DEF TypeOK, ConsistentOK
  <2>3. \A i \in Id : Forward(i) /\ RowOK(i)' /\ HistoryOf(i)'
    BY <2>1 DEF Forward, GraphInv, RowOK, HistoryOf
  <2>4. (\A k \in Kind : next'[k] > 0) /\ \A u \in Tx \ {t} : HeldKept(u)
    BY <1>1, <2>1 DEF GraphInv, HeldKept
  <2> QED
    BY <1>1, <2>1, <2>2, <2>3, <2>4, CommitInv DEF NoNewExperiment
<1>5. CASE tx[t].seen.status = "DESIGNED"
  <2>1. Free(t, id) /\ Write(id, "RUNNING", tx[t].seen.version + 1, tx[t].seen.parent)
    BY <1>2, <1>5 DEF CommitClaim
  <2>2. tx[t].seen.version = 1 /\ tx[t].seen.parent = artifact[id].parent
    BY <1>1, <1>2, <1>5 DEF TxOK
  <2>3. artifact[id].version = 1 /\ artifact[id].status = "DESIGNED"
    <3>1. RowOK(id) /\ HistoryOf(id)
      BY DEF GraphInv
    <3>2. \A r \in revisions : r[1] = id => r[2] # 2
      BY <2>1, <2>2 DEF Write, RevisionIsNew
    <3>3. artifact[id].version \in 1..3
      BY <1>2, <3>1 DEF RowOK
    <3>4. artifact[id].version = 1
      BY <3>1, <3>2, <3>3 DEF HistoryOf
    <3> QED
      BY <1>2, <3>1, <3>4 DEF RowOK
  <2>4. PICK version : version = tx[t].seen.version + 1
    OBVIOUS
  <2>5. PICK parent \in Id \cup {NoId} : parent = artifact[id].parent
    BY <1>1, RowTyped
  <2>6. /\ Write(id, "RUNNING", version, parent) /\ "RUNNING" \in Statuses \ {"none"}
        /\ version = artifact[id].version + 1 /\ version = 2
    BY <2>1, <2>2, <2>3, <2>4, <2>5 DEF Statuses
  <2>7. ASSUME artifact'[id] = [status |-> "RUNNING", version |-> version, parent |-> parent]
        PROVE  Forward(id) /\ ((\A i \in Id : Forward(i)) => RowOK(id)')
    <3>1. parent \in Id /\ artifact[parent].status \in Decisions
      BY <1>2, <2>5 DEF GraphInv, RowOK
    <3>2. Forward(id)
      BY <2>3, <2>5, <2>7 DEF Forward, Decisions
    <3>3. ASSUME \A i \in Id : Forward(i) PROVE RowOK(id)'
      BY <1>2, <2>6, <2>7, <3>1, <3>3 DEF RowOK, Forward
    <3> QED
      BY <3>2, <3>3
  <2>8. \A u \in Tx \ {t} : id \notin tx[u].locks
    BY <2>1 DEF Free
  <2> QED
    BY <1>1, <1>2, <1>3, <2>6, <2>7, <2>8, RewriteInv
<1> QED
  BY <1>4, <1>5

LEMMA CommitExperimentInv ==
  ASSUME GraphInv, NEW t \in Tx, CommitExperiment(t)
  PROVE  /\ GraphInv' /\ \A id \in Id : Forward(id)
         /\ tx[t].id \in Id /\ artifact'[Created("E")].parent = tx[t].id
         /\ artifact'[tx[t].id].status = "TESTING"
         /\ \A i \in Id \ {Created("E"), tx[t].id} : artifact'[i] = artifact[i]
         /\ artifact[tx[t].id].status # "none"
<1>1. /\ tx[t].op = "experiment" /\ tx[t].phase = "allocated" /\ End(t)
      /\ UNCHANGED <<lease, observed, lapses>> /\ next' = [next EXCEPT !["E"] = @ + 1]
      /\ TypeOK /\ TxOK(t) /\ HoldsCounter(t, "E") /\ "E" \in Kind
  BY DEF GraphInv, CommitExperiment, At, TxOK, Kind
<1>2. PICK h \in Id : /\ h = tx[t].id /\ h[1] = "H" /\ h \in tx[t].locks
                     /\ artifact[h].status \in {"PROPOSED", "TESTING"}
  BY <1>1 DEF TxOK
<1>3. PICK e \in Id : /\ e = Created("E") /\ e[1] = "E"
                     /\ artifact[e].status = "none" /\ artifact[e].version = 0
  BY <1>1, NewArtifact DEF HoldsCounter
<1>4. PICK S : revisions' = revisions \cup S
               /\ S = {<<e, 1, "DESIGNED">>}
                      \cup (IF artifact[h].status = "PROPOSED"
                           THEN {<<h, artifact[h].version + 1, "TESTING">>} ELSE {})
  BY <1>2, <1>3 DEF CommitExperiment
<1> DEFINE new == [status |-> "DESIGNED", version |-> 1, parent |-> h]
           row == UnderTest(artifact[h])
<1>5. artifact' = [artifact EXCEPT ![h] = row, ![e] = new]
  BY <1>2, <1>3 DEF CommitExperiment
<1>6. h # e /\ artifact[h].version \in Nat
  BY <1>1, <1>2, <1>3, RowTyped
<1>7. /\ artifact'[e] = [status |-> "DESIGNED", version |-> 1, parent |-> h]
      /\ \A i \in Id \ {e, h} : artifact'[i] = artifact[i]
      /\ artifact[h].status = "TESTING" => artifact'[h] = artifact[h]
      /\ artifact[h].status = "PROPOSED" =>
           artifact'[h] = [status |-> "TESTING", version |-> artifact[h].version + 1,
                           parent |-> artifact[h].parent]
  <2>1. DOMAIN artifact = Id /\ artifact[h] = [status |-> artifact[h].status,
          version |-> artifact[h].version, parent |-> artifact[h].parent]
    BY <1>1, RowTyped DEF TypeOK
  <2>2. /\ artifact'[e] = new /\ artifact'[h] = row
        /\ \A i \in Id \ {e, h} : artifact'[i] = artifact[i]
    <3> HIDE DEF new, row
    <3> QED
      BY <1>5, <1>6, <2>1
  <2>3. artifact[h].status = "PROPOSED" =>
          row = [status |-> "TESTING", version |-> artifact[h].version + 1,
                 parent |-> artifact[h].parent]
    BY <2>1 DEF UnderTest
  <2>4. artifact[h].status = "TESTING" => row = artifact[h]
    BY DEF UnderTest
  <2> QED
    BY <2>2, <2>3, <2>4
<1>8. artifact' \in [Id -> ArtifactType]
  <2>1. artifact'[e] \in ArtifactType /\ artifact'[h] \in ArtifactType
    <3>1. artifact'[e] \in ArtifactType
      BY <1>7 DEF ArtifactType, Statuses
    <3>2. artifact[h] \in ArtifactType /\ artifact[h].parent \in Id \cup {NoId}
      BY <1>1, RowTyped DEF TypeOK
    <3>3. artifact[h].status = "PROPOSED" => artifact'[h] \in ArtifactType
      BY <1>6, <1>7, <3>2 DEF ArtifactType, Statuses, Decisions
    <3> QED
      BY <1>2, <1>7, <3>1, <3>2, <3>3
  <2>2. \A i \in Id : artifact'[i] \in ArtifactType
    BY <1>1, <1>7, <2>1 DEF TypeOK
  <2>3. artifact' = [i \in Id |-> artifact'[i]]
    BY <1>5 DEF GraphInv, TypeOK
  <2> QED
    BY <2>2, <2>3
<1>9. revisions' \subseteq Id \X Nat \X Statuses
  <2>1. S \subseteq Id \X Nat \X Statuses
    <3>1. /\ <<e, 1, "DESIGNED">> \in Id \X Nat \X Statuses
          /\ <<h, artifact[h].version + 1, "TESTING">> \in Id \X Nat \X Statuses
      BY <1>6 DEF Decisions, Statuses
    <3> QED
      BY <1>4, <3>1
  <2> QED
    BY <1>1, <1>4, <2>1 DEF TypeOK
<1>10. \A id \in Id : Forward(id)
  <2>1. Forward(e)
    BY <1>3 DEF Forward, Decisions
  <2>2. Forward(h)
    BY <1>2, <1>7 DEF Forward, Decisions
  <2>3. \A i \in Id \ {e, h} : Forward(i)
    BY <1>7 DEF Forward
  <2> QED
    BY <2>1, <2>2, <2>3
<1>11. artifact'[h].status = "TESTING"
  BY <1>2, <1>7
<1>12. \A id \in Id : RowOK(id)'
  <2>1. RowOK(e)'
    BY <1>3, <1>7, <1>11 DEF RowOK, Decisions
  <2>2. RowOK(h)'
    <3>1. RowOK(h)
      BY DEF GraphInv
    <3>2. artifact'[h].version # 0
      BY <1>2, <1>6, <1>7, <3>1 DEF RowOK
    <3> QED
      BY <1>2, <1>11, <3>2 DEF RowOK, Decisions
  <2> QED
    BY <1>7, <1>10, <2>1, <2>2, RowKept
<1>13. \A id \in Id : HistoryOf(id)'
  <2>1. HistoryOf(e) /\ HistoryOf(h)
    BY DEF GraphInv
  <2>2. HistoryOf(e)'
    <3>1. <<e, artifact[e].version + 1, "DESIGNED">> \in S
          /\ \A r \in S : r[1] = e => r = <<e, artifact[e].version + 1, "DESIGNED">>
      BY <1>3, <1>4, <1>6
    <3>2. artifact'[e].version = artifact[e].version + 1 /\ artifact'[e].status = "DESIGNED"
      BY <1>3, <1>7
    <3>3. revisions' = revisions \cup S
      BY <1>4
    <3> QED
      BY <1>1, <2>1, <3>1, <3>2, <3>3, HistoryGrows
  <2>3. ASSUME artifact[h].status = "PROPOSED" PROVE HistoryOf(h)'
    <3>1. <<h, artifact[h].version + 1, "TESTING">> \in S
          /\ \A r \in S : r[1] = h => r = <<h, artifact[h].version + 1, "TESTING">>
      BY <1>4, <1>6, <2>3
    <3>2. artifact'[h].version = artifact[h].version + 1 /\ artifact'[h].status = "TESTING"
      BY <1>7, <2>3
    <3>3. revisions' = revisions \cup S
      BY <1>4
    <3> QED
      BY <1>1, <2>1, <3>1, <3>2, <3>3, HistoryGrows
  <2>4. artifact[h].status = "TESTING" => HistoryOf(h)'
    BY <1>4, <1>6, <1>7, <2>1, HistoryKept
  <2>5. ASSUME NEW i \in Id \ {e, h} PROVE HistoryOf(i)'
    <3>1. \A r \in S : r[1] # i
      BY <1>4, <2>5
    <3>2. HistoryOf(i) /\ artifact'[i] = artifact[i] /\ revisions' = revisions \cup S
      BY <1>4, <1>7 DEF GraphInv
    <3> QED
      BY <3>1, <3>2, HistoryKept
  <2>6. HistoryOf(h)'
    BY <1>2, <2>3, <2>4
  <2> QED
    BY <2>2, <2>5, <2>6
<1>14. /\ next' \in [Kind -> Nat] /\ \A k \in Kind : next'[k] > 0
       /\ \A id \in Id : artifact'[id].status # "none" <=> id[2] < next'[id[1]]
  <2>1. artifact'[Created("E")].status # "none"
    BY <1>3, <1>7
  <2>2. \A i \in Id \ {Created("E")} : artifact'[i].status # "none" <=> artifact[i].status # "none"
    BY <1>2, <1>3, <1>7, <1>11
  <2> QED
    BY <1>1, <2>1, <2>2, NewNumber DEF HoldsCounter
<1>15. TypeOK'
  BY <1>1, <1>8, <1>9, <1>14, CommitType DEF TypeOK
<1>16. \A u \in Tx \ {t} : HeldKept(u)
  BY <1>1, <1>2, <1>3, <1>7, CreateKeepsHeld
<1>17. GraphInv'
  BY <1>1, <1>10, <1>12, <1>13, <1>14, <1>15, <1>16, CommitInv
<1> QED
  BY <1>2, <1>3, <1>7, <1>10, <1>11, <1>17

-----------------------------------------------------------------------------
(* Theorems *)

LEMMA InitInv == Init => GraphInv
<1> SUFFICES ASSUME Init PROVE GraphInv
  OBVIOUS
<1>1. TypeOK
  <2>1. artifact \in [Id -> ArtifactType] /\ tx \in [Tx -> TxType]
    BY IdleType DEF Init
  <2>2. ConsistentOK
    BY GraphConstants DEF Init, ConsistentOK, Absent, Idle, Id
  <2> QED
    BY <2>1, <2>2 DEF Init, TypeOK, NoLease
<1>2. (\A id \in Id : RowOK(id)) /\ \A id \in Id : HistoryOf(id)
  BY DEF Init, RowOK, HistoryOf, Absent
<1>3. \A t \in Tx : TxOK(t)
  BY DEF Init, TxOK, Idle
<1> QED
  BY <1>1, <1>2, <1>3 DEF GraphInv, Init

LEMMA Step ==
  ASSUME GraphInv, [Next]_vars
  PROVE  /\ GraphInv' /\ \A id \in Id : Forward(id)
         /\ NoNewExperiment \/ \E t \in Tx : CommitExperiment(t)
<1>1. ASSUME artifact' = artifact PROVE NoNewExperiment /\ \A id \in Id : Forward(id)
  BY <1>1 DEF NoNewExperiment, Forward
<1>2. ASSUME NEW t \in Tx, Request(t) PROVE GraphInv' /\ artifact' = artifact
  <2>1. artifact' = artifact
    BY <1>2 DEF Request, StartHypothesis, StartDecision, StartExperiment, StartClaim, StartFinding,
                StartWork, Select
  <2> QED
    BY <1>2, <2>1, RequestInv
<1>3. ASSUME NEW t \in Tx, Statement(t) PROVE GraphInv' /\ artifact' = artifact
  <2>1. artifact' = artifact
    BY <1>3 DEF Statement, SwapDecision, TransitionHypothesis, AcceptExperiment, AllocateExperiment,
                AllocateId, UpsertLease, CheckLease, SwapCompletion, AllocateFinding, Advance
  <2> QED
    BY <1>3, <2>1, StatementInv
<1>4. ASSUME NEW t \in Tx, Commit(t)
      PROVE  /\ GraphInv' /\ \A id \in Id : Forward(id)
             /\ NoNewExperiment \/ CommitExperiment(t)
  BY <1>4, CommitHypothesisInv, CommitDecisionInv, CommitExperimentInv, CommitClaimInv,
     CommitObservationInv, CommitCompletionInv, CommitFindingInv DEF Commit
<1>5. ASSUME NEW t \in Tx, Abort(t) PROVE GraphInv' /\ artifact' = artifact
  BY <1>5, AbortInv DEF Abort
<1>6. ASSUME NEW id \in Experiment, LeaseLapses(id) PROVE GraphInv' /\ artifact' = artifact
  BY <1>6, LapseInv DEF LeaseLapses
<1>7. ASSUME UNCHANGED vars PROVE GraphInv' /\ artifact' = artifact
  BY <1>7 DEF vars, GraphInv, TypeOK, ConsistentOK, RowOK, HistoryOf, TxOK, HoldsCounter
<1> QED
  BY <1>1, <1>2, <1>3, <1>4, <1>5, <1>6, <1>7 DEF Next

THEOREM Invariance == Spec => []GraphInv
<1>1. GraphInv /\ [Next]_vars => GraphInv'
  BY Step
<1> QED
  BY <1>1, InitInv, PTL DEF Spec

\* Every variable keeps its type, artifact numbers are given out in order and
\* two transactions never hold the same row.
THEOREM TypeCorrect == Spec => []TypeOK
<1>1. GraphInv => TypeOK
  BY DEF GraphInv
<1> QED
  BY <1>1, Invariance, PTL

\* research_service.py, service.py:580-655: however the seven operations
\* interleave, an artifact has exactly one revision of each of its versions.
THEOREM AuditTrailComplete == Spec => []HistoryComplete
<1>1. ASSUME GraphInv PROVE HistoryComplete
  <2> SUFFICES ASSUME NEW id \in Id
               PROVE  LET history == {r \in revisions : r[1] = id}
                      IN /\ {r[2] : r \in history} = 1..artifact[id].version
                         /\ \A r, s \in history : r[2] = s[2] => r = s
                         /\ artifact[id].version > 0
                              => <<id, artifact[id].version, artifact[id].status>> \in history
    BY DEF HistoryComplete
  <2> DEFINE history == {r \in revisions : r[1] = id}
  <2>1. HistoryOf(id)
    BY <1>1 DEF GraphInv
  <2>2. {r[2] : r \in history} = 1..artifact[id].version
    <3>1. \A r \in history : r[2] \in 1..artifact[id].version
      BY <2>1 DEF HistoryOf
    <3>2. \A n \in 1..artifact[id].version : \E r \in history : r[2] = n
      BY <2>1 DEF HistoryOf
    <3> QED
      BY <3>1, <3>2
  <2> QED
    BY <2>1, <2>2 DEF HistoryOf
<1> QED
  BY <1>1, Invariance, PTL

\* research_service.py:122-124, 226-231, 335-341: evidence that is completed or
\* published is never written again, whatever was read before it was.
THEOREM EvidenceIsFinal == Spec => EvidenceFrozen
<1>1. GraphInv /\ [Next]_vars
        => [\A id \in Id : artifact[id].status \in {"COMPLETED", "PUBLISHED"}
                             => artifact'[id] = artifact[id]]_vars
  BY Step DEF Forward
<1> QED
  BY <1>1, Invariance, PTL DEF Spec, EvidenceFrozen

\* research_service.py:384-454: a finding rests on a completed experiment, and
\* that on a hypothesis that was put to the test.
THEOREM FindingsGrounded == Spec => []FindingsRest
<1>1. ASSUME GraphInv PROVE FindingsRest
  <2> SUFFICES ASSUME NEW id \in Id, artifact[id].status = "PUBLISHED"
               PROVE  /\ artifact[artifact[id].parent].status = "COMPLETED"
                      /\ artifact[artifact[artifact[id].parent].parent].status \in Decisions
    BY DEF FindingsRest
  <2>1. RowOK(id) /\ id[1] \in {"H", "E", "F"}
    BY <1>1 DEF GraphInv, Id, Kind
  <2>2. id[1] = "F"
    BY <2>1 DEF RowOK, Decisions
  <2>3. artifact[id].parent \in Experiment /\ artifact[artifact[id].parent].status = "COMPLETED"
    BY <2>1, <2>2 DEF RowOK
  <2>4. RowOK(artifact[id].parent)
    BY <1>1, <2>3 DEF GraphInv, Experiment
  <2> QED
    BY <2>3, <2>4 DEF RowOK, Experiment
<1> QED
  BY <1>1, Invariance, PTL

\* research_service.py:142-171: a hypothesis decided while an experiment is
\* being added to it does not get the experiment.
THEOREM ExperimentsAddedUnderTest == Spec => AddedUnderTest
<1> DEFINE Added == \A e \in Experiment :
                      artifact[e].status = "none" /\ artifact'[e].status # "none"
                        => artifact'[artifact'[e].parent].status = "TESTING"
<1>1. ASSUME GraphInv, [Next]_vars PROVE [Added]_vars
  <2>1. CASE NoNewExperiment
    BY <2>1 DEF NoNewExperiment
  <2>2. ASSUME NEW t \in Tx, CommitExperiment(t) PROVE Added
    <3>1. \A e \in Experiment : e \in Id
      BY DEF Experiment
    <3> QED
      BY <1>1, <2>2, <3>1, CommitExperimentInv
  <2> QED
    BY <1>1, <2>1, <2>2, Step
<1> QED
  BY <1>1, Invariance, PTL DEF Spec, AddedUnderTest

-----------------------------------------------------------------------------
(* Leases *)

\* A claim that has found the lease available holds its row, so it stays so;
\* every transaction is of some lane.
LeaseOK(t) ==
  /\ tx[t].op = "claim" /\ tx[t].phase = "leased"
       => LeaseRow(tx[t].id) \in tx[t].locks /\ LeaseAvailable(t)
  /\ tx[t].op # "none" => tx[t].lane \in Lane

LeaseInv ==
  /\ \A t \in Tx : LeaseOK(t)
  /\ \A e \in Experiment : lease[e].live => lease[e].owner \in Lane

\* A request starts a transaction and changes nothing else.
LEMMA RequestFrame ==
  ASSUME GraphInv, NEW t \in Tx, Request(t)
  PROVE  /\ tx'[t].phase \in {"read", "allocated"} /\ tx'[t].lane \in Lane
         /\ lease' = lease /\ lapses' = lapses
         /\ \A u \in Tx \ {t} : tx'[u] = tx[u]
<1>1. tx \in [Tx -> TxType]
  BY DEF GraphInv, TypeOK
<1>2. ASSUME NEW op, NEW lane \in Lane, NEW id, NEW expected, NEW admitted,
             Select(t, op, lane, id, expected, admitted)
      PROVE  /\ tx'[t].phase = "read" /\ tx'[t].lane \in Lane /\ lease' = lease /\ lapses' = lapses
             /\ \A u \in Tx \ {t} : tx'[u] = tx[u]
  BY <1>1, <1>2 DEF Select
<1>3. ASSUME NEW lane \in Lane, StartHypothesis(t, lane)
      PROVE  /\ tx'[t].phase = "allocated" /\ tx'[t].lane \in Lane /\ lease' = lease /\ lapses' = lapses
             /\ \A u \in Tx \ {t} : tx'[u] = tx[u]
  BY <1>1, <1>3 DEF StartHypothesis, Idle
<1> QED
  BY <1>2, <1>3
     DEF Request, StartDecision, StartExperiment, StartClaim, StartFinding, StartWork

\* A statement moves a transaction on and changes nothing else.
LEMMA StatementFrame ==
  ASSUME GraphInv, NEW t \in Tx, NEW phase, NEW rows, Advance(t, phase, rows)
  PROVE  /\ tx'[t].phase = phase /\ tx'[t].op = tx[t].op /\ tx'[t].id = tx[t].id
         /\ tx'[t].lane = tx[t].lane /\ tx'[t].locks = tx[t].locks \cup rows
         /\ lease' = lease /\ lapses' = lapses /\ artifact' = artifact
         /\ \A u \in Tx \ {t} : tx'[u] = tx[u]
<1>1. tx \in [Tx -> TxType]
  BY DEF GraphInv, TypeOK
<1> QED
  BY <1>1, AdvanceFields

\* A step that keeps a transaction, and the lease if it is the one it holds
LEMMA LeaseKept ==
  ASSUME NEW u \in Tx, LeaseOK(u), tx'[u] = tx[u],
         \/ lease'[tx[u].id] = lease[tx[u].id]
         \/ lease'[tx[u].id].live = FALSE
         \/ LeaseRow(tx[u].id) \notin tx[u].locks
  PROVE  LeaseOK(u)'
  BY DEF LeaseOK, LeaseAvailable

LEMMA LeaseStep ==
  ASSUME GraphInv, LeaseInv, [Next]_vars
  PROVE  LeaseInv'
<1>1. /\ tx \in [Tx -> TxType]
      /\ lease \in [Experiment -> [owner : Lane \cup {NoLane}, live : BOOLEAN]]
  BY DEF GraphInv, TypeOK
<1>2. ASSUME NEW t \in Tx, lease' = lease, LeaseOK(t)', \A u \in Tx \ {t} : tx'[u] = tx[u]
      PROVE  LeaseInv'
  BY <1>2, LeaseKept DEF LeaseInv
<1>3. ASSUME NEW t \in Tx, End(t) PROVE LeaseOK(t)' /\ \A u \in Tx \ {t} : tx'[u] = tx[u]
  BY <1>1, <1>3 DEF End, Idle, LeaseOK
<1>4. ASSUME NEW t \in Tx, Request(t) PROVE LeaseInv'
  BY <1>2, <1>4, RequestFrame DEF LeaseOK
<1>5. ASSUME NEW t \in Tx, Statement(t) PROVE LeaseInv'
  <2>1. CASE UpsertLease(t)
    BY <1>2, <2>1, StatementFrame DEF UpsertLease, LeaseInv, LeaseOK, LeaseAvailable
  <2>2. CASE \/ CheckLease(t, "observe") \/ CheckLease(t, "complete") \/ SwapCompletion(t)
             \/ SwapDecision(t) \/ TransitionHypothesis(t)
    BY <1>2, <2>2, StatementFrame DEF CheckLease, SwapCompletion, SwapDecision,
       TransitionHypothesis, AcceptExperiment, LeaseInv, LeaseOK
  <2>3. CASE AllocateExperiment(t) \/ AllocateFinding(t)
    BY <1>2, <2>3, StatementFrame DEF AllocateExperiment, AllocateFinding, AllocateId,
       LeaseInv, LeaseOK
  <2> QED
    BY <1>5, <2>1, <2>2, <2>3 DEF Statement
<1>6. ASSUME NEW t \in Tx, CommitClaim(t) PROVE LeaseInv'
  <2>1. /\ End(t) /\ tx[t].id \in Experiment /\ tx[t].lane \in Lane
        /\ LeaseRow(tx[t].id) \in tx[t].locks
    BY <1>6 DEF CommitClaim, LeaseInv, LeaseOK, At, GraphInv, TxOK
  <2>2. lease' = [lease EXCEPT ![tx[t].id] = [owner |-> tx[t].lane, live |-> TRUE]]
    BY <1>6 DEF CommitClaim
  <2>3. ASSUME NEW u \in Tx \ {t} PROVE LeaseOK(u)'
    <3>1. tx[u].id # tx[t].id => lease'[tx[u].id] = lease[tx[u].id]
      BY <2>2
    <3>2. tx[u].id = tx[t].id => LeaseRow(tx[u].id) \notin tx[u].locks
      BY <2>1, HeldByOne
    <3> QED
      BY <1>3, <2>1, <3>1, <3>2, LeaseKept DEF LeaseInv
  <2>4. \A e \in Experiment : lease'[e].live => lease'[e].owner \in Lane
    BY <1>1, <2>1, <2>2 DEF LeaseInv
  <2> QED
    BY <1>3, <2>1, <2>3, <2>4 DEF LeaseInv
<1>7. ASSUME NEW t \in Tx, CommitCompletion(t) PROVE LeaseInv'
  <2>1. End(t) /\ tx[t].id \in Experiment /\ Free(t, LeaseRow(tx[t].id))
    BY <1>7 DEF CommitCompletion, At, GraphInv, TxOK
  <2>2. lease' = [lease EXCEPT ![tx[t].id] = IF @.owner = tx[t].lane THEN NoLease ELSE @]
    BY <1>7 DEF CommitCompletion
  <2>3. ASSUME NEW u \in Tx \ {t} PROVE LeaseOK(u)'
    <3>1. tx[u].id # tx[t].id => lease'[tx[u].id] = lease[tx[u].id]
      BY <2>2
    <3>2. tx[u].id = tx[t].id => LeaseRow(tx[u].id) \notin tx[u].locks
      BY <2>1 DEF Free
    <3> QED
      BY <1>3, <2>1, <3>1, <3>2, LeaseKept DEF LeaseInv
  <2>4. \A e \in Experiment : lease'[e].live => lease'[e].owner \in Lane
    BY <1>1, <2>1, <2>2 DEF LeaseInv, NoLease
  <2> QED
    BY <1>3, <2>1, <2>3, <2>4 DEF LeaseInv
<1>8. ASSUME NEW t \in Tx,
             \/ CommitHypothesis(t) \/ CommitDecision(t) \/ CommitExperiment(t)
             \/ CommitObservation(t) \/ CommitFinding(t) \/ Abort(t)
      PROVE LeaseInv'
  <2>1. End(t) /\ lease' = lease
    BY <1>8 DEF CommitHypothesis, CommitDecision, CommitExperiment, CommitObservation,
                CommitFinding, Abort
  <2> QED
    BY <1>2, <1>3, <2>1
<1>9. ASSUME NEW id \in Experiment, LeaseLapses(id) PROVE LeaseInv'
  <2>1. tx' = tx /\ lease'[id].live = FALSE /\ \A e \in Experiment \ {id} : lease'[e] = lease[e]
    BY <1>1, <1>9 DEF LeaseLapses
  <2>2. ASSUME NEW u \in Tx, tx[u].op = "claim" PROVE LeaseOK(u)'
    BY <2>1, <2>2, LeaseKept DEF LeaseInv, GraphInv, TxOK
  <2>3. ASSUME NEW u \in Tx, tx[u].op # "claim" PROVE LeaseOK(u)'
    BY <2>1, <2>3 DEF LeaseInv, LeaseOK
  <2> QED
    BY <2>1, <2>2, <2>3 DEF LeaseInv
<1>10. ASSUME UNCHANGED vars PROVE LeaseInv'
  BY <1>10 DEF vars, LeaseInv, LeaseOK, LeaseAvailable
<1> QED
  BY <1>4, <1>5, <1>6, <1>7, <1>8, <1>9, <1>10 DEF Next, Commit

LEMMA LeaseInvariance == Spec => [](GraphInv /\ LeaseInv)
<1>1. Init => LeaseInv
  BY DEF Init, LeaseInv, LeaseOK, Idle, NoLease
<1>2. GraphInv /\ LeaseInv /\ [Next]_vars => LeaseInv'
  BY LeaseStep
<1> QED
  BY <1>1, <1>2, Invariance, PTL DEF Spec

-----------------------------------------------------------------------------
(* One writer *)

\* What the lease of an experiment says to the transaction that looked at it
WriterOK(t) ==
  /\ tx[t].op \in {"observe", "complete"} /\ tx[t].phase \in {"checked", "swapped"}
  /\ artifact[tx[t].id].status = "RUNNING"
  => HoldsLease(t)

WriterInv == lapses = 0 => \A t \in Tx : WriterOK(t)

\* A step that leaves a transaction and the lease of its experiment alone
LEMMA WriterKept ==
  ASSUME GraphInv, NEW u \in Tx, WriterOK(u), tx'[u] = tx[u], \A id \in Id : Forward(id),
         lease'[tx[u].id] = lease[tx[u].id]
  PROVE  WriterOK(u)'
<1>1. tx[u].op \in {"observe", "complete"}
        => tx[u].id \in Id /\ artifact[tx[u].id].status \in {"RUNNING", "COMPLETED"}
  BY DEF GraphInv, TxOK, Experiment
<1>2. tx[u].op \in {"observe", "complete"} /\ artifact'[tx[u].id].status = "RUNNING"
        => artifact[tx[u].id].status = "RUNNING"
  BY <1>1 DEF Forward
<1> QED
  BY <1>2 DEF WriterOK, HoldsLease, LeaseAvailable

LEMMA WriterStatement ==
  ASSUME GraphInv, NEW t \in Tx, WriterOK(t), Statement(t)
  PROVE  /\ WriterOK(t)' /\ lease' = lease /\ lapses' = lapses
         /\ \A u \in Tx \ {t} : tx'[u] = tx[u]
<1>1. CASE UpsertLease(t)
  BY StatementFrame, <1>1 DEF UpsertLease, At, WriterOK, LeaseAvailable
<1>2. CASE CheckLease(t, "observe") \/ CheckLease(t, "complete")
  BY StatementFrame, <1>2 DEF CheckLease, At, WriterOK, HoldsLease
<1>3. CASE SwapCompletion(t)
  BY StatementFrame, <1>3 DEF SwapCompletion, At, WriterOK, HoldsLease
<1>4. CASE SwapDecision(t)
  BY StatementFrame, <1>4 DEF SwapDecision, At, WriterOK
<1>5. CASE TransitionHypothesis(t)
  BY StatementFrame, <1>5 DEF TransitionHypothesis, AcceptExperiment, At, WriterOK
<1>6. CASE AllocateExperiment(t) \/ AllocateFinding(t)
  BY StatementFrame, <1>6 DEF AllocateExperiment, AllocateFinding, AllocateId, At, WriterOK
<1> QED
  BY <1>1, <1>2, <1>3, <1>4, <1>5, <1>6 DEF Statement

\* A claim that commits had its lease row locked since it found the lease
\* available: no other lane has been let in since.
LEMMA WriterClaim ==
  ASSUME GraphInv, LeaseInv, NEW t \in Tx, WriterOK(t), CommitClaim(t),
         NEW u \in Tx \ {t}, WriterOK(u)
  PROVE  WriterOK(u)'
<1>1. /\ tx'[u] = tx[u] /\ \A id \in Id : Forward(id)
      /\ tx[t].id \in Experiment /\ TxOK(u)
      /\ LeaseRow(tx[t].id) \in tx[t].locks /\ LeaseAvailable(t)
  BY CommitClaimInv DEF CommitClaim, End, At, LeaseInv, LeaseOK, GraphInv, TypeOK, TxOK
<1>2. lease' = [lease EXCEPT ![tx[t].id] = [owner |-> tx[t].lane, live |-> TRUE]]
      /\ lease \in [Experiment -> [owner : Lane \cup {NoLane}, live : BOOLEAN]]
  BY DEF CommitClaim, GraphInv, TypeOK
<1>3. CASE tx[u].id # tx[t].id
  BY <1>1, <1>2, <1>3, WriterKept
<1>4. CASE tx[u].id = tx[t].id
  <2>1. ASSUME tx[u].op \in {"observe", "complete"}, tx[u].phase \in {"checked", "swapped"},
               artifact'[tx[u].id].status = "RUNNING"
        PROVE  HoldsLease(u)'
    <3>1. artifact[tx[u].id].status = "RUNNING"
      BY <1>1, <2>1 DEF TxOK, Forward, Experiment
    <3>2. HoldsLease(u)
      BY <2>1, <3>1 DEF WriterOK
    <3>3. lease[tx[t].id].owner = tx[u].lane /\ tx[u].lane = tx[t].lane
      BY <1>1, <1>4, <3>2 DEF HoldsLease, LeaseAvailable
    <3> QED
      BY <1>1, <1>2, <1>4, <3>3 DEF HoldsLease
  <2> QED
    BY <1>1, <2>1 DEF WriterOK
<1> QED
  BY <1>3, <1>4

LEMMA WriterCompletion ==
  ASSUME GraphInv, NEW t \in Tx, CommitCompletion(t), NEW u \in Tx \ {t}, WriterOK(u)
  PROVE  WriterOK(u)'
<1>1. /\ tx'[u] = tx[u] /\ \A id \in Id : Forward(id)
      /\ tx[t].id \in Id /\ LeaseRow(tx[t].id) \notin tx[u].locks
      /\ DOMAIN artifact = Id /\ DOMAIN lease = Experiment
  BY CommitCompletionInv
     DEF CommitCompletion, End, At, Free, GraphInv, TypeOK, TxOK, Experiment
<1>2. artifact'[tx[t].id].status = "COMPLETED"
  BY <1>1 DEF CommitCompletion, Write
<1>3. lease' = [lease EXCEPT ![tx[t].id] = IF @.owner = tx[t].lane THEN NoLease ELSE @]
  BY DEF CommitCompletion
<1>4. CASE tx[u].id # tx[t].id
  BY <1>1, <1>3, <1>4, WriterKept
<1>5. CASE tx[u].id = tx[t].id
  BY <1>1, <1>2, <1>5 DEF WriterOK
<1> QED
  BY <1>4, <1>5

LEMMA WriterStep ==
  ASSUME GraphInv, LeaseInv, WriterInv, [Next]_vars
  PROVE  WriterInv'
<1> SUFFICES ASSUME lapses' = 0 PROVE \A u \in Tx : WriterOK(u)'
  BY DEF WriterInv
<1>1. \A id \in Id : Forward(id)
  BY Step
<1>2. tx \in [Tx -> TxType] /\ lapses \in Nat
  BY DEF GraphInv, TypeOK
<1>3. ASSUME NEW t \in Tx, lapses = 0, lease' = lease, WriterOK(t)',
             \A u \in Tx \ {t} : tx'[u] = tx[u]
      PROVE  \A u \in Tx : WriterOK(u)'
  BY <1>1, <1>3, WriterKept DEF WriterInv
<1>4. ASSUME NEW t \in Tx, End(t) PROVE WriterOK(t)' /\ \A u \in Tx \ {t} : tx'[u] = tx[u]
  BY <1>2, <1>4 DEF End, Idle, WriterOK
<1>5. ASSUME NEW t \in Tx, Request(t) PROVE \A u \in Tx : WriterOK(u)'
  BY <1>3, <1>5, RequestFrame DEF WriterOK
<1>6. ASSUME NEW t \in Tx, Statement(t) PROVE \A u \in Tx : WriterOK(u)'
  <2>1. lapses = 0 /\ WriterOK(t)
    <3>1. lapses' = lapses
      BY <1>6 DEF Statement, SwapDecision, TransitionHypothesis, AcceptExperiment,
                  AllocateExperiment, AllocateId, UpsertLease, CheckLease, SwapCompletion,
                  AllocateFinding, Advance
    <3> QED
      BY <3>1 DEF WriterInv
  <2> QED
    BY <1>3, <1>6, <2>1, WriterStatement
<1>7. ASSUME NEW t \in Tx, Commit(t) PROVE \A u \in Tx : WriterOK(u)'
  <2>1. CASE CommitClaim(t)
    <3>1. End(t) /\ \A u \in Tx : WriterOK(u)
      BY <2>1 DEF CommitClaim, WriterInv
    <3> QED
      BY <1>4, <2>1, <3>1, WriterClaim
  <2>2. CASE CommitCompletion(t)
    <3>1. End(t) /\ \A u \in Tx : WriterOK(u)
      BY <2>2 DEF CommitCompletion, WriterInv
    <3> QED
      BY <1>4, <2>2, <3>1, WriterCompletion
  <2>3. CASE \/ CommitHypothesis(t) \/ CommitDecision(t) \/ CommitExperiment(t)
             \/ CommitObservation(t) \/ CommitFinding(t)
    <3>1. End(t) /\ lease' = lease /\ lapses' = lapses
      BY <2>3 DEF CommitHypothesis, CommitDecision, CommitExperiment, CommitObservation,
                  CommitFinding
    <3> QED
      BY <1>3, <1>4, <3>1
  <2> QED
    BY <1>7, <2>1, <2>2, <2>3 DEF Commit
<1>8. ASSUME NEW t \in Tx, Abort(t) PROVE \A u \in Tx : WriterOK(u)'
  BY <1>3, <1>4, <1>8 DEF Abort
<1>9. ASSUME NEW id \in Experiment, LeaseLapses(id) PROVE FALSE
  BY <1>2, <1>9 DEF LeaseLapses
<1>10. ASSUME UNCHANGED vars PROVE \A u \in Tx : WriterOK(u)'
  BY <1>10 DEF vars, WriterInv, WriterOK, HoldsLease, LeaseAvailable
<1> QED
  BY <1>5, <1>6, <1>7, <1>8, <1>9, <1>10 DEF Next

\* research_service.py:241-247, 293, 343 and service.py:657-737: while no lease
\* has expired, everybody past the lease check of a running experiment is the
\* lane that holds the lease.
THEOREM WritersExclude == Spec => []OneWriter
<1>1. Init => WriterInv
  BY DEF Init, WriterInv, WriterOK, Idle
<1>2. ASSUME GraphInv, WriterInv PROVE OneWriter
  <2> SUFFICES ASSUME lapses = 0, NEW t \in Tx, NEW u \in Tx,
                      {tx[t].phase, tx[u].phase} \subseteq {"checked", "swapped"},
                      tx[t].id = tx[u].id, artifact[tx[t].id].status = "RUNNING"
               PROVE  tx[t].lane = tx[u].lane
    BY DEF OneWriter
  <2>1. ASSUME NEW v \in {t, u} PROVE HoldsLease(v)
    <3>1. TxOK(v) /\ WriterOK(v) /\ artifact[tx[v].id].status = "RUNNING"
          /\ tx[v].phase \in {"checked", "swapped"}
      BY <1>2 DEF GraphInv, WriterInv
    <3>2. tx[v].op # "decide"
      <4>1. tx[v].op = "decide" => tx[v].id \in Id /\ tx[v].id[1] = "H"
        BY <3>1 DEF TxOK
      <4>2. tx[v].id \in Id => RowOK(tx[v].id)
        BY <1>2 DEF GraphInv
      <4> QED
        BY <3>1, <4>1, <4>2 DEF RowOK, Decisions
    <3> QED
      BY <3>1, <3>2 DEF TxOK, WriterOK
  <2> QED
    BY <2>1 DEF HoldsLease
<1>3. GraphInv /\ LeaseInv /\ WriterInv /\ [Next]_vars => WriterInv'
  BY WriterStep
<1> QED
  BY <1>1, <1>2, <1>3, LeaseInvariance, PTL DEF Spec

-----------------------------------------------------------------------------
(* The refinement: the record that readers see moves in atomic steps. *)

\* Each of the first n versions has a revision, and no version has two.
Recorded(id, n, rows) == \A v \in 1..n : \E s \in Statuses : <<id, v, s>> \in rows

Unrepeated(id, rows) == \A r, q \in rows : r[1] = id /\ q[1] = id /\ r[2] = q[2] => r = q

\* The revision of a version, where no version is repeated
LEMMA StatusFound ==
  ASSUME NEW id, NEW rows, NEW v, NEW s \in Statuses, <<id, v, s>> \in rows, Unrepeated(id, rows)
  PROVE  StatusAt(id, v, rows) = s
<1>1. \A x \in Statuses : <<id, v, x>> \in rows => x = s
  BY Z3 DEF Unrepeated
<1> QED
  BY <1>1 DEF StatusAt

\* A revision of the next version is appended to the record.
LEMMA RecordGrows ==
  ASSUME NEW id, NEW R, NEW Q, NEW n \in Nat, NEW m, m = n + 1, NEW status \in Statuses,
         Recorded(id, n, R), Unrepeated(id, Q), R \subseteq Q, <<id, m, status>> \in Q
  PROVE  RecordOf(id, m, Q) = Append(RecordOf(id, n, R), status)
<1> DEFINE old == [v \in 1..n |-> StatusAt(id, v, R)]
<1>1. ASSUME NEW v \in 1..n
      PROVE  StatusAt(id, v, R) \in Statuses /\ StatusAt(id, v, Q) = StatusAt(id, v, R)
  <2>1. PICK s \in Statuses : <<id, v, s>> \in R
    BY DEF Recorded
  <2>2. StatusAt(id, v, R) = s
    BY <2>1, StatusFound DEF Unrepeated
  <2>3. StatusAt(id, v, Q) = s
    BY <2>1, StatusFound
  <2> QED
    BY <2>2, <2>3
<1>2. StatusAt(id, m, Q) = status
  BY StatusFound
<1>4. old \in Seq(Statuses) /\ Len(old) = n
  BY <1>1
<1>5. Append(old, status) = [v \in 1..(n + 1) |-> IF v <= n THEN old[v] ELSE status]
  BY <1>4
<1>6. RecordOf(id, m, Q) = [v \in 1..(n + 1) |-> IF v <= n THEN old[v] ELSE status]
  BY <1>1, <1>2 DEF RecordOf
<1> QED
  BY <1>5, <1>6 DEF RecordOf

\* Where the artifact keeps its version, the record stays.
LEMMA RecordStays ==
  ASSUME NEW id, NEW R, NEW Q, NEW n \in Nat,
         Recorded(id, n, R), Unrepeated(id, Q), R \subseteq Q
  PROVE  RecordOf(id, n, Q) = RecordOf(id, n, R)
<1>1. ASSUME NEW v \in 1..n PROVE StatusAt(id, v, Q) = StatusAt(id, v, R)
  <2>1. PICK s \in Statuses : <<id, v, s>> \in R
    BY DEF Recorded
  <2>2. StatusAt(id, v, R) = s
    BY <2>1, StatusFound DEF Unrepeated
  <2>3. StatusAt(id, v, Q) = s
    BY <2>1, StatusFound
  <2> QED
    BY <2>2, <2>3
<1> QED
  BY <1>1 DEF RecordOf

\* The revisions of an artifact are those of its versions.
LEMMA VersionsRecorded ==
  ASSUME GraphInv, NEW id \in Id
  PROVE  /\ Recorded(id, artifact[id].version, revisions)
         /\ Unrepeated(id, revisions)
         /\ artifact[id].version \in Nat /\ artifact[id].status \in Statuses
<1>1. HistoryOf(id) /\ revisions \subseteq Id \X Nat \X Statuses
      /\ artifact[id] \in ArtifactType
  BY DEF GraphInv, TypeOK
<1>2. ASSUME NEW v \in 1..artifact[id].version
      PROVE  \E s \in Statuses : <<id, v, s>> \in revisions
  <2>1. PICK r \in revisions : r[1] = id /\ r[2] = v
    BY <1>1 DEF HistoryOf
  <2>2. r = <<id, v, r[3]>> /\ r[3] \in Statuses
    BY <1>1, <2>1
  <2> QED
    BY <2>1, <2>2
<1> QED
  BY <1>1, <1>2 DEF HistoryOf, ArtifactType, Recorded, Unrepeated

\* The record says what the row says.
LEMMA RecordSays ==
  ASSUME GraphInv, NEW id \in Id
  PROVE  /\ artifact[id].status = "none" <=> Histories[id] = <<>>
         /\ artifact[id].status # "none" => Record!Status(id) = artifact[id].status
<1> DEFINE n == artifact[id].version
           record == [v \in 1..n |-> StatusAt(id, v, revisions)]
<1>1. /\ n \in Nat
      /\ artifact[id].status = "none" <=> n = 0
      /\ n > 0 => StatusAt(id, n, revisions) = artifact[id].status
  <2>1. RowOK(id) /\ HistoryOf(id)
    BY DEF GraphInv
  <2>2. n > 0 => StatusAt(id, n, revisions) = artifact[id].status
    BY <2>1, VersionsRecorded, StatusFound DEF HistoryOf
  <2> QED
    BY <2>1, <2>2, VersionsRecorded DEF RowOK
<1>2. Histories[id] = record
  BY DEF Histories, RecordOf
<1>3. Len(record) = n /\ (n = 0 <=> record = <<>>) /\ (n > 0 => record[n] = StatusAt(id, n, revisions))
  <2>1. ASSUME NEW v \in 1..n PROVE StatusAt(id, v, revisions) \in Statuses
    <3>1. PICK s \in Statuses : <<id, v, s>> \in revisions
      BY VersionsRecorded DEF Recorded
    <3> QED
      BY <3>1, VersionsRecorded, StatusFound
  <2>2. record \in Seq(Statuses) /\ Len(record) = n
    BY <1>1, <2>1
  <2> QED
    BY <1>1, <2>2
<1>4. Record!Status(id) = Histories[id][Len(Histories[id])]
  BY DEF Record!Status
<1> QED
  BY <1>1, <1>2, <1>3, <1>4

\* A revision of the next version is one more entry in the record of its
\* artifact, and the records of artifacts that keep their versions stay.
LEMMA EntryAdded ==
  ASSUME GraphInv, GraphInv', NEW id \in Id, NEW status \in Statuses, revisions \subseteq revisions',
         artifact'[id].version = artifact[id].version + 1,
         <<id, artifact'[id].version, status>> \in revisions'
  PROVE  Histories'[id] = Append(Histories[id], status)
<1> DEFINE n == artifact[id].version
           m == artifact'[id].version
<1>1. n \in Nat /\ m = n + 1 /\ Recorded(id, n, revisions)
  BY VersionsRecorded
<1>2. Unrepeated(id, revisions') /\ <<id, m, status>> \in revisions'
  BY DEF GraphInv, HistoryOf, Unrepeated
<1>3. Histories'[id] = RecordOf(id, m, revisions') /\ Histories[id] = RecordOf(id, n, revisions)
  BY DEF Histories
<1> HIDE DEF n, m
<1>4. RecordOf(id, m, revisions') = Append(RecordOf(id, n, revisions), status)
  BY <1>1, <1>2, RecordGrows
<1> QED
  BY <1>3, <1>4

LEMMA EntriesKept ==
  ASSUME GraphInv, GraphInv', NEW id \in Id, revisions \subseteq revisions',
         artifact'[id].version = artifact[id].version
  PROVE  Histories'[id] = Histories[id]
<1> DEFINE n == artifact[id].version
<1>1. n \in Nat /\ Recorded(id, n, revisions)
  BY VersionsRecorded
<1>2. Unrepeated(id, revisions')
  BY DEF GraphInv, HistoryOf, Unrepeated
<1>3. Histories'[id] = RecordOf(id, n, revisions') /\ Histories[id] = RecordOf(id, n, revisions)
  BY DEF Histories
<1> HIDE DEF n
<1>4. RecordOf(id, n, revisions') = RecordOf(id, n, revisions)
  BY <1>1, <1>2, RecordStays
<1> QED
  BY <1>3, <1>4

\* A write of a row is one entry in the record of that artifact.
LEMMA WriteEnters ==
  ASSUME GraphInv, GraphInv', NEW id \in Id, NEW status \in Statuses, NEW parent,
         NEW version, version = artifact[id].version + 1, Write(id, status, version, parent)
  PROVE  /\ Histories' = [Histories EXCEPT ![id] = Append(@, status)]
         /\ Parents' = [Parents EXCEPT ![id] = parent]
<1>1. /\ artifact' = [artifact EXCEPT ![id] =
                        [status |-> status, version |-> version, parent |-> parent]]
      /\ revisions' = revisions \cup {<<id, version, status>>}
      /\ artifact \in [Id -> ArtifactType]
  BY DEF Write, GraphInv, TypeOK
<1>2. artifact'[id].version = version /\ artifact'[id].parent = parent
      /\ \A i \in Id \ {id} : artifact'[i] = artifact[i]
  BY <1>1
<1>3. revisions \subseteq revisions' /\ <<id, version, status>> \in revisions'
  BY <1>1
<1>4. Histories'[id] = Append(Histories[id], status)
  BY <1>2, <1>3, EntryAdded
<1>5. \A i \in Id \ {id} : Histories'[i] = Histories[i]
  BY <1>2, <1>3, EntriesKept
<1>6. Histories' = [Histories EXCEPT ![id] = Append(@, status)]
  <2>1. DOMAIN Histories = Id /\ Histories' = [i \in Id |-> Histories'[i]]
    BY DEF Histories
  <2> QED
    BY <1>4, <1>5, <2>1
<1>7. Parents' = [Parents EXCEPT ![id] = parent]
  BY <1>2 DEF Parents
<1> QED
  BY <1>6, <1>7

\* A hypothesis is the root of what it is asked for: it has no parent.
RootInv == \A h \in KindOf("H") : artifact[h].parent = NoId

LEMMA RootStep ==
  ASSUME GraphInv, RootInv, [Next]_vars
  PROVE  RootInv'
<1> SUFFICES ASSUME NEW h \in Id, h[1] = "H", artifact[h].parent = NoId
             PROVE  artifact'[h].parent = NoId
  BY DEF RootInv, KindOf
<1>1. artifact[h].status # "none" => artifact'[h].parent = NoId
  BY Step DEF Forward
<1>2. artifact \in [Id -> ArtifactType]
  BY DEF GraphInv, TypeOK
<1>3. ASSUME NEW t \in Tx, CommitHypothesis(t) PROVE artifact'[h].parent = NoId
  BY <1>2, <1>3 DEF CommitHypothesis, Write
<1>4. ASSUME NEW t \in Tx, CommitDecision(t) PROVE artifact'[h].parent = NoId
  <2>1. tx[t].id \in Id /\ artifact[tx[t].id].status # "none"
    BY <1>4 DEF CommitDecision, At, GraphInv, TxOK
  <2> QED
    BY <1>1, <1>2, <1>4, <2>1 DEF CommitDecision, Write
<1>5. ASSUME NEW t \in Tx, CommitExperiment(t) PROVE artifact'[h].parent = NoId
  <2>1. h # Created("E")
    BY DEF Created
  <2> QED
    BY <1>1, <1>5, <2>1, CommitExperimentInv
<1>6. ASSUME NEW t \in Tx, CommitClaim(t) \/ CommitCompletion(t) PROVE artifact'[h].parent = NoId
  <2>1. tx[t].id # h
    BY <1>6 DEF CommitClaim, CommitCompletion, At, GraphInv, TxOK, Experiment
  <2> QED
    BY <1>2, <1>6, <2>1 DEF CommitClaim, CommitCompletion, Write
<1>7. ASSUME NEW t \in Tx, CommitFinding(t) PROVE artifact'[h].parent = NoId
  <2>1. h # Created("F")
    BY DEF Created
  <2> QED
    BY <1>2, <1>7, <2>1 DEF CommitFinding, Write
<1>8. ASSUME NEW t \in Tx, CommitObservation(t) \/ Abort(t) \/ Request(t) \/ Statement(t)
      PROVE artifact'[h].parent = NoId
  <2>1. artifact' = artifact
    BY <1>8 DEF CommitObservation, Abort, Request, StartHypothesis, StartDecision, StartExperiment,
       StartClaim, StartFinding, StartWork, Select, Statement, SwapDecision, TransitionHypothesis,
       AcceptExperiment, AllocateExperiment, AllocateId, UpsertLease, CheckLease, SwapCompletion,
       AllocateFinding, Advance
  <2> QED
    BY <2>1
<1>9. ASSUME NEW id \in Experiment, LeaseLapses(id) PROVE artifact'[h].parent = NoId
  BY <1>9 DEF LeaseLapses
<1>10. ASSUME UNCHANGED vars PROVE artifact'[h].parent = NoId
  BY <1>10 DEF vars
<1> QED
  BY <1>3, <1>4, <1>5, <1>6, <1>7, <1>8, <1>9, <1>10 DEF Next, Commit

RecordInv == GraphInv /\ LeaseInv /\ WriterInv /\ RootInv

\* The artifacts of the record are those of the tables.
LEMMA KindsOfRecord ==
  /\ Record!Artifact = Id
  /\ Experiment = KindOf("E") /\ Experiment \subseteq Id
  /\ KindOf("H") \subseteq Id /\ KindOf("F") \subseteq Id
  BY DEF Record!Artifact, KindOf, Experiment, Id, Kind

LEMMA HypothesisProposed ==
  ASSUME RecordInv, RecordInv', NEW t \in Tx, CommitHypothesis(t)
  PROVE  \E h \in KindOf("H") : Record!Propose(h)
<1>1. HoldsCounter(t, "H") /\ "H" \in Kind /\ GraphInv /\ GraphInv'
  BY DEF RecordInv, GraphInv, CommitHypothesis, At, TxOK, Kind
<1>2. PICK h \in Id : /\ h = Created("H") /\ h[1] = "H"
                     /\ artifact[h].status = "none" /\ artifact[h].version = 0
  BY <1>1, NewArtifact DEF HoldsCounter
<1>3. Write(h, "PROPOSED", 1, NoId) /\ "PROPOSED" \in Statuses /\ 1 = artifact[h].version + 1
  BY <1>2 DEF CommitHypothesis, Statuses
<1>4. /\ Histories' = [Histories EXCEPT ![h] = Append(@, "PROPOSED")]
      /\ Parents' = [Parents EXCEPT ![h] = NoId]
  BY <1>1, <1>3, WriteEnters
<1>5. Parents' = Parents
  <2>1. Parents[h] = NoId /\ DOMAIN Parents = Id
    BY <1>2 DEF RecordInv, RootInv, KindOf, Parents
  <2> QED
    BY <1>4, <2>1 DEF Parents
<1>6. Holders' = Holders /\ observed' = observed /\ (lapses > 0)' = (lapses > 0)
  BY DEF CommitHypothesis, Holders
<1>7. Histories[h] = <<>>
  BY <1>1, <1>2, RecordSays
<1> QED
  BY <1>2, <1>4, <1>5, <1>6, <1>7 DEF Record!Propose, Record!Enter, KindOf

LEMMA HypothesisDecided ==
  ASSUME RecordInv, RecordInv', NEW t \in Tx, CommitDecision(t)
  PROVE  \E h \in KindOf("H") : \E decision \in Decisions : Record!Decide(h, decision)
<1>1. GraphInv /\ GraphInv' /\ TxOK(t) /\ tx[t].op = "decide"
  BY DEF RecordInv, GraphInv, CommitDecision, At
<1>2. PICK h \in Id : h = tx[t].id /\ h[1] = "H" /\ artifact[h].status # "none"
  BY <1>1 DEF TxOK
<1>3. PICK decision \in Decisions : Write(h, decision, artifact[h].version + 1, artifact[h].parent)
  BY <1>2 DEF CommitDecision
<1>4. decision \in Statuses
  BY DEF Statuses
<1>5. /\ Histories' = [Histories EXCEPT ![h] = Append(@, decision)]
      /\ Parents' = [Parents EXCEPT ![h] = artifact[h].parent]
  BY <1>1, <1>3, <1>4, WriteEnters
<1>6. Parents' = Parents
  BY <1>5 DEF Parents
<1>7. Holders' = Holders /\ observed' = observed /\ (lapses > 0)' = (lapses > 0)
  BY DEF CommitDecision, Holders
<1>8. Histories[h] # <<>>
  BY <1>1, <1>2, RecordSays
<1> QED
  BY <1>2, <1>5, <1>6, <1>7, <1>8 DEF Record!Decide, Record!Enter, KindOf

LEMMA UnderTestFields ==
  ASSUME NEW a \in ArtifactType
  PROVE  /\ UnderTest(a).parent = a.parent
         /\ a.status = "PROPOSED" => UnderTest(a).version = a.version + 1
         /\ a.status = "TESTING" => UnderTest(a) = a
  BY DEF UnderTest, ArtifactType

LEMMA ExperimentDesigned ==
  ASSUME RecordInv, RecordInv', NEW t \in Tx, CommitExperiment(t)
  PROVE  \E h \in KindOf("H") : \E e \in Experiment : Record!Design(e, h)
<1>1. /\ tx[t].op = "experiment" /\ tx[t].phase = "allocated" /\ TxOK(t)
      /\ HoldsCounter(t, "E") /\ "E" \in Kind /\ GraphInv /\ GraphInv' /\ TypeOK
  BY DEF RecordInv, GraphInv, CommitExperiment, At, TxOK, Kind
<1>2. PICK h \in Id : /\ h = tx[t].id /\ h[1] = "H"
                     /\ artifact[h].status \in {"PROPOSED", "TESTING"}
  BY <1>1 DEF TxOK
<1>3. PICK e \in Id : /\ e = Created("E") /\ e[1] = "E" /\ e \in Experiment
                     /\ artifact[e].status = "none" /\ artifact[e].version = 0
  BY <1>1, NewArtifact DEF HoldsCounter, Experiment
<1>4. h # e /\ artifact[h].version \in Nat /\ DOMAIN artifact = Id
  BY <1>1, <1>2, <1>3, RowTyped DEF TypeOK
<1> DEFINE new == [status |-> "DESIGNED", version |-> 1, parent |-> h]
           row == UnderTest(artifact[h])
<1>5. /\ artifact' = [artifact EXCEPT ![h] = row, ![e] = new]
      /\ revisions' = revisions \cup {<<e, 1, "DESIGNED">>}
           \cup (IF artifact[h].status = "PROPOSED"
                 THEN {<<h, artifact[h].version + 1, "TESTING">>} ELSE {})
  BY <1>2, <1>3 DEF CommitExperiment
<1>6. /\ artifact'[e] = new /\ artifact'[h] = row
      /\ \A i \in Id \ {e, h} : artifact'[i] = artifact[i]
  <2> HIDE DEF new, row
  <2> QED
    BY <1>4, <1>5
<1>7. revisions \subseteq revisions' /\ <<e, 1, "DESIGNED">> \in revisions'
  BY <1>5
<1>8. Histories'[e] = Append(Histories[e], "DESIGNED")
  BY <1>1, <1>3, <1>6, <1>7, EntryAdded DEF Statuses
<1>9. Histories[e] = <<>> /\ Histories[h] # <<>> /\ Record!Status(h) = artifact[h].status
  BY <1>1, <1>2, <1>3, RecordSays
<1>10. \A i \in Id \ {e, h} : Histories'[i] = Histories[i]
  BY <1>1, <1>6, <1>7, EntriesKept
<1>11. Parents' = [Parents EXCEPT ![e] = h]
  <2>1. artifact[h] \in ArtifactType
    BY <1>1 DEF TypeOK
  <2>2. artifact'[h].parent = artifact[h].parent
    BY <1>6, <2>1, UnderTestFields
  <2>3. artifact'[e].parent = h
    BY <1>6
  <2>4. \A i \in Id \ {e} : artifact'[i].parent = artifact[i].parent
    BY <1>6, <2>2
  <2> QED
    BY <2>3, <2>4 DEF Parents
<1>12. Holders' = Holders /\ observed' = observed /\ (lapses > 0)' = (lapses > 0)
  BY DEF CommitExperiment, Holders
<1>13. DOMAIN Histories = Id /\ Histories' = [i \in Id |-> Histories'[i]]
  BY DEF Histories
<1>14. \/ /\ Record!Status(h) = "PROPOSED"
          /\ Histories' = [Histories EXCEPT ![e] = <<"DESIGNED">>, ![h] = Append(@, "TESTING")]
       \/ /\ Record!Status(h) = "TESTING"
          /\ Record!Enter(e, "DESIGNED")
  <2>1. CASE artifact[h].status = "PROPOSED"
    <3>1. artifact'[h].version = artifact[h].version + 1
          /\ <<h, artifact[h].version + 1, "TESTING">> \in revisions'
      BY <1>1, <1>5, <1>6, <2>1, UnderTestFields DEF TypeOK
    <3>2. Histories'[h] = Append(Histories[h], "TESTING")
      BY <1>1, <1>7, <3>1, EntryAdded DEF Statuses, Decisions
    <3>3. Histories'[e] = <<"DESIGNED">>
      BY <1>8, <1>9
    <3> QED
      BY <1>4, <1>9, <1>10, <1>13, <2>1, <3>2, <3>3
  <2>2. CASE artifact[h].status = "TESTING"
    <3>1. Histories'[h] = Histories[h]
      BY <1>1, <1>6, <1>7, <2>2, UnderTestFields, EntriesKept DEF TypeOK
    <3>2. Histories' = [Histories EXCEPT ![e] = Append(@, "DESIGNED")]
      BY <1>8, <1>10, <1>13, <3>1
    <3> QED
      BY <1>9, <2>2, <3>2 DEF Record!Enter
  <2> QED
    BY <1>2, <2>1, <2>2
<1> QED
  BY <1>2, <1>3, <1>9, <1>11, <1>12, <1>14 DEF Record!Design, KindOf

LEMMA FindingPublished ==
  ASSUME RecordInv, RecordInv', NEW t \in Tx, CommitFinding(t)
  PROVE  \E e \in Experiment : \E f \in KindOf("F") : Record!Publish(f, e)
<1>1. /\ TxOK(t) /\ tx[t].op = "publish" /\ HoldsCounter(t, "F") /\ "F" \in Kind
      /\ GraphInv /\ GraphInv'
  BY DEF RecordInv, GraphInv, CommitFinding, At, TxOK, Kind
<1>2. PICK e \in Experiment : e = tx[t].id /\ artifact[e].status = "COMPLETED" /\ e \in Id
  BY <1>1 DEF TxOK, Experiment
<1>3. PICK f \in Id : /\ f = Created("F") /\ f[1] = "F"
                     /\ artifact[f].status = "none" /\ artifact[f].version = 0
  BY <1>1, NewArtifact DEF HoldsCounter
<1>4. Write(f, "PUBLISHED", 1, e) /\ "PUBLISHED" \in Statuses /\ 1 = artifact[f].version + 1
  BY <1>2, <1>3 DEF CommitFinding, Statuses
<1>5. /\ Histories' = [Histories EXCEPT ![f] = Append(@, "PUBLISHED")]
      /\ Parents' = [Parents EXCEPT ![f] = e]
  BY <1>1, <1>4, WriteEnters
<1>6. Holders' = Holders /\ observed' = observed /\ (lapses > 0)' = (lapses > 0)
  BY DEF CommitFinding, Holders
<1>7. Histories[f] = <<>> /\ Histories[e] # <<>> /\ Record!Status(e) = "COMPLETED"
  BY <1>1, <1>2, <1>3, RecordSays
<1> QED
  BY <1>2, <1>3, <1>5, <1>6, <1>7 DEF Record!Publish, Record!Enter, KindOf

\* The lane that a lease names is the holder; a lane of its own is not nobody.
LEMMA HolderSays ==
  ASSUME RecordInv, NEW e \in Experiment
  PROVE  /\ lease[e].live => Holders[e] = lease[e].owner /\ Holders[e] \in Lane
         /\ ~lease[e].live => Holders[e] = NoLane
         /\ \A lane \in Lane : Holders[e] = lane <=> lease[e].live /\ lease[e].owner = lane
  BY LaneNames DEF RecordInv, LeaseInv, Holders, HolderOf

LEMMA ExperimentClaimed ==
  ASSUME RecordInv, RecordInv', NEW t \in Tx, CommitClaim(t)
  PROVE  \E e \in Experiment : \E lane \in Lane : Record!Claim(e, lane)
<1>1. /\ TxOK(t) /\ LeaseOK(t) /\ tx[t].op = "claim" /\ tx[t].phase = "leased"
      /\ GraphInv /\ GraphInv' /\ lease \in [Experiment -> [owner : Lane \cup {NoLane}, live : BOOLEAN]]
  BY DEF RecordInv, GraphInv, TypeOK, LeaseInv, CommitClaim, At
<1>2. PICK e \in Experiment : /\ e = tx[t].id /\ e \in Id /\ e[1] = "E"
                             /\ artifact[e].status # "none"
  BY <1>1 DEF TxOK, Experiment
<1>3. PICK lane \in Lane : lane = tx[t].lane
  BY <1>1 DEF LeaseOK
<1>4. Holders[e] \in {NoLane, lane}
  BY <1>1, <1>2, <1>3, HolderSays DEF LeaseOK, LeaseAvailable
<1>5. Holders' = [Holders EXCEPT ![e] = lane]
  <2>1. lease' = [lease EXCEPT ![e] = [owner |-> lane, live |-> TRUE]]
    BY <1>2, <1>3 DEF CommitClaim
  <2>2. lease'[e] = [owner |-> lane, live |-> TRUE]
        /\ \A i \in Experiment \ {e} : lease'[i] = lease[i]
    BY <1>1, <2>1
  <2>3. HolderOf(lease'[e]) = lane
    BY <2>2 DEF HolderOf
  <2> QED
    BY <2>2, <2>3 DEF Holders
<1>6. observed' = observed /\ (lapses > 0)' = (lapses > 0)
  BY DEF CommitClaim
<1>7. Histories[e] # <<>> /\ Record!Status(e) = artifact[e].status
  BY <1>1, <1>2, RecordSays
<1>8. CASE tx[t].seen.status = "DESIGNED"
  <2>1. /\ Free(t, e) /\ tx[t].seen.version = 1 /\ tx[t].seen.parent = artifact[e].parent
        /\ Write(e, "RUNNING", tx[t].seen.version + 1, tx[t].seen.parent)
    BY <1>1, <1>2, <1>8 DEF CommitClaim, TxOK
  <2>2. artifact[e].version = 1 /\ artifact[e].status = "DESIGNED"
    <3>1. RowOK(e) /\ HistoryOf(e)
      BY <1>1, <1>2 DEF GraphInv
    <3>2. \A r \in revisions : r[1] = e => r[2] # 2
      BY <2>1 DEF Write, RevisionIsNew
    <3>3. artifact[e].version \in 1..3
      BY <1>2, <3>1 DEF RowOK
    <3>4. artifact[e].version = 1
      BY <3>1, <3>2, <3>3 DEF HistoryOf
    <3> QED
      BY <1>2, <3>1, <3>4 DEF RowOK
  <2>3. PICK version : version = tx[t].seen.version + 1
    OBVIOUS
  <2>4. /\ Write(e, "RUNNING", version, artifact[e].parent) /\ "RUNNING" \in Statuses
        /\ version = artifact[e].version + 1
    BY <2>1, <2>2, <2>3 DEF Statuses
  <2>5. /\ Histories' = [Histories EXCEPT ![e] = Append(@, "RUNNING")]
        /\ Parents' = [Parents EXCEPT ![e] = artifact[e].parent]
    BY <1>1, <1>2, <2>4, WriteEnters
  <2>6. Parents' = Parents
    BY <2>5 DEF Parents
  <2> QED
    BY <1>4, <1>5, <1>6, <1>7, <2>2, <2>5, <2>6 DEF Record!Claim, Record!Enter
<1>9. CASE tx[t].seen.status # "DESIGNED"
  <2>1. UNCHANGED <<artifact, revisions>>
    BY <1>2, <1>9 DEF CommitClaim
  <2>2. Histories' = Histories /\ Parents' = Parents
    BY <2>1 DEF Histories, Parents
  <2>3. artifact[e].status \in {"RUNNING", "COMPLETED"}
    BY <1>1, <1>2, <1>9 DEF TxOK
  <2> QED
    BY <1>4, <1>5, <1>6, <1>7, <2>2, <2>3 DEF Record!Claim
<1> QED
  BY <1>8, <1>9

\* What a transaction past the lease check may do
LEMMA WriterMayWrite ==
  ASSUME RecordInv, NEW t \in Tx, tx[t].op \in {"observe", "complete"},
         tx[t].phase \in {"checked", "swapped"}, artifact[tx[t].id].status = "RUNNING"
  PROVE  Record!MayWrite(tx[t].id, tx[t].lane)
<1>1. TxOK(t) /\ LeaseOK(t) /\ lapses \in Nat
  BY DEF RecordInv, GraphInv, LeaseInv, TypeOK
<1>2. tx[t].id \in Experiment /\ tx[t].lane \in Lane
  BY <1>1 DEF TxOK, LeaseOK
<1>3. lapses = 0 => HoldsLease(t)
  BY DEF RecordInv, WriterInv, WriterOK
<1> QED
  BY <1>1, <1>2, <1>3, HolderSays DEF HoldsLease, Record!MayWrite

LEMMA ExperimentObserved ==
  ASSUME RecordInv, NEW t \in Tx, CommitObservation(t)
  PROVE  \E e \in Experiment : \E lane \in Lane : Record!Observe(e, lane)
<1>1. /\ TxOK(t) /\ LeaseOK(t) /\ tx[t].op = "observe" /\ tx[t].phase = "checked" /\ GraphInv
  BY DEF RecordInv, GraphInv, LeaseInv, CommitObservation, At
<1>2. PICK e \in Experiment : /\ e = tx[t].id /\ e \in Id
                             /\ artifact[e].status \in {"RUNNING", "COMPLETED"}
  BY <1>1 DEF TxOK, Experiment
<1>3. PICK lane \in Lane : lane = tx[t].lane
  BY <1>1 DEF LeaseOK
<1>4. artifact[e].status = "RUNNING" => Record!MayWrite(e, lane)
  BY <1>1, <1>2, <1>3, WriterMayWrite
<1>5. Histories[e] # <<>> /\ Record!Status(e) = artifact[e].status
  BY <1>1, <1>2, RecordSays
<1>6. Histories' = Histories /\ Parents' = Parents /\ Holders' = Holders
      /\ (lapses > 0)' = (lapses > 0)
  BY DEF CommitObservation, Histories, Parents, Holders
<1>7. observed' = [observed EXCEPT ![e] = @ + 1]
  BY <1>2 DEF CommitObservation
<1> QED
  BY <1>2, <1>4, <1>5, <1>6, <1>7 DEF Record!Observe

LEMMA ExperimentCompleted ==
  ASSUME RecordInv, RecordInv', NEW t \in Tx, CommitCompletion(t)
  PROVE  \E e \in Experiment : \E lane \in Lane : Record!Complete(e, lane)
<1>1. /\ TxOK(t) /\ LeaseOK(t) /\ tx[t].op = "complete" /\ tx[t].phase = "swapped"
      /\ GraphInv /\ GraphInv' /\ lease \in [Experiment -> [owner : Lane \cup {NoLane}, live : BOOLEAN]]
  BY DEF RecordInv, GraphInv, LeaseInv, TypeOK, CommitCompletion, At
<1>2. PICK e \in Experiment : e = tx[t].id /\ e \in Id /\ artifact[e].status = "RUNNING"
  BY <1>1 DEF TxOK, Experiment
<1>3. PICK lane \in Lane : lane = tx[t].lane
  BY <1>1 DEF LeaseOK
<1>4. Record!MayWrite(e, lane)
  BY <1>1, <1>2, <1>3, WriterMayWrite
<1>5. Histories[e] # <<>> /\ Record!Status(e) = "RUNNING"
  BY <1>1, <1>2, RecordSays
<1>6. PICK version : version = artifact[e].version + 1
  OBVIOUS
<1>7. Write(e, "COMPLETED", version, artifact[e].parent) /\ "COMPLETED" \in Statuses
  BY <1>2, <1>6 DEF CommitCompletion, Statuses
<1>8. /\ Histories' = [Histories EXCEPT ![e] = Append(@, "COMPLETED")]
      /\ Parents' = [Parents EXCEPT ![e] = artifact[e].parent]
  BY <1>1, <1>2, <1>6, <1>7, WriteEnters
<1>9. Parents' = Parents
  BY <1>8 DEF Parents
<1>10. Holders' = [Holders EXCEPT ![e] = IF @ = lane THEN NoLane ELSE @]
  <2>1. lease' = [lease EXCEPT ![e] = IF @.owner = lane THEN NoLease ELSE @]
    BY <1>2, <1>3 DEF CommitCompletion
  <2>2. lease'[e] = (IF lease[e].owner = lane THEN NoLease ELSE lease[e])
        /\ \A i \in Experiment \ {e} : lease'[i] = lease[i]
    BY <1>1, <2>1
  <2>3. Holders[e] = HolderOf(lease[e]) /\ DOMAIN Holders = Experiment
        /\ Holders' = [i \in Experiment |-> HolderOf(lease'[i])]
        /\ Holders = [i \in Experiment |-> HolderOf(lease[i])]
    BY DEF Holders
  <2>4. CASE lease[e].owner = lane
    <3>1. HolderOf(lease'[e]) = NoLane
      BY <2>2, <2>4 DEF HolderOf, NoLease
    <3>2. HolderOf(lease[e]) \in {lane, NoLane}
      BY <2>4 DEF HolderOf
    <3> QED
      BY <2>2, <2>3, <3>1, <3>2
  <2>5. CASE lease[e].owner # lane
    <3>1. HolderOf(lease'[e]) = HolderOf(lease[e]) /\ HolderOf(lease[e]) # lane
      BY <2>2, <2>5, LaneNames DEF HolderOf
    <3> QED
      BY <2>2, <2>3, <3>1
  <2> QED
    BY <2>4, <2>5
<1>11. observed' = observed /\ (lapses > 0)' = (lapses > 0)
  BY DEF CommitCompletion
<1> QED
  BY <1>2, <1>4, <1>5, <1>8, <1>9, <1>10, <1>11 DEF Record!Complete, Record!Enter

LEMMA LeaseLapsed ==
  ASSUME RecordInv, NEW e \in Experiment, LeaseLapses(e)
  PROVE  Record!Lapse(e)
<1>1. lease \in [Experiment -> [owner : Lane \cup {NoLane}, live : BOOLEAN]] /\ lapses \in Nat
  BY DEF RecordInv, GraphInv, TypeOK
<1>2. Holders[e] # NoLane
  BY HolderSays, LaneNames DEF LeaseLapses
<1>3. Holders' = [Holders EXCEPT ![e] = NoLane]
  <2>1. lease' = [lease EXCEPT ![e].live = FALSE]
    BY DEF LeaseLapses
  <2>2. lease'[e].live = FALSE /\ \A i \in Experiment \ {e} : lease'[i] = lease[i]
    BY <1>1, <2>1
  <2>3. HolderOf(lease'[e]) = NoLane
    BY <2>2 DEF HolderOf
  <2> QED
    BY <2>2, <2>3 DEF Holders
<1>4. (lapses > 0)'
  BY <1>1 DEF LeaseLapses
<1>5. Histories' = Histories /\ Parents' = Parents /\ observed' = observed
  BY DEF LeaseLapses, Histories, Parents
<1> QED
  BY <1>2, <1>3, <1>4, <1>5 DEF Record!Lapse

LEMMA RecordInit == Init => Record!RecordInit
<1> SUFFICES ASSUME Init PROVE Record!RecordInit
  OBVIOUS
<1>1. ASSUME NEW id \in Id PROVE Histories[id] = <<>>
  <2>1. GraphInv /\ artifact[id].status = "none"
    BY InitInv DEF Init, Absent
  <2> QED
    BY <2>1, RecordSays
<1>2. Histories = [id \in Id |-> <<>>]
  BY <1>1 DEF Histories
<1>3. Parents = [id \in Id |-> NoId]
  BY DEF Init, Parents, Absent
<1>4. Holders = [e \in Experiment |-> NoLane]
  BY DEF Init, Holders, HolderOf, NoLease
<1>5. observed = [e \in Experiment |-> 0] /\ (lapses > 0) = FALSE
  BY DEF Init
<1> QED
  BY <1>2, <1>3, <1>4, <1>5, KindsOfRecord DEF Record!RecordInit

LEMMA RecordStep ==
  ASSUME RecordInv, RecordInv', [Next]_vars
  PROVE  [Record!RecordNext]_(Record!recordVars)
<1> USE DEF Record!RecordNext
<1>1. ASSUME UNCHANGED <<artifact, revisions, lease, observed, lapses>>
      PROVE  UNCHANGED Record!recordVars
  BY <1>1 DEF Record!recordVars, Histories, Parents, Holders
<1>2. ASSUME NEW t \in Tx, Request(t) PROVE UNCHANGED Record!recordVars
  BY <1>1, <1>2 DEF Request, StartHypothesis, StartDecision, StartExperiment, StartClaim,
     StartFinding, StartWork, Select
<1>3. ASSUME NEW t \in Tx, Statement(t) PROVE UNCHANGED Record!recordVars
  BY <1>1, <1>3 DEF Statement, SwapDecision, TransitionHypothesis, AcceptExperiment,
     AllocateExperiment, AllocateId, UpsertLease, CheckLease, SwapCompletion, AllocateFinding, Advance
<1>4. ASSUME NEW t \in Tx, Commit(t) PROVE Record!RecordNext
  <2>1. CASE CommitHypothesis(t)
    BY <2>1, HypothesisProposed
  <2>2. CASE CommitDecision(t)
    BY <2>2, HypothesisDecided
  <2>3. CASE CommitExperiment(t)
    BY <2>3, ExperimentDesigned
  <2>4. CASE CommitClaim(t)
    BY <2>4, ExperimentClaimed
  <2>5. CASE CommitObservation(t)
    BY <2>5, ExperimentObserved
  <2>6. CASE CommitCompletion(t)
    BY <2>6, ExperimentCompleted
  <2>7. CASE CommitFinding(t)
    BY <2>7, FindingPublished
  <2> QED
    BY <1>4, <2>1, <2>2, <2>3, <2>4, <2>5, <2>6, <2>7 DEF Commit
<1>5. ASSUME NEW t \in Tx, Abort(t) PROVE UNCHANGED Record!recordVars
  BY <1>1, <1>5 DEF Abort
<1>6. ASSUME NEW e \in Experiment, LeaseLapses(e) PROVE Record!RecordNext
  BY <1>6, LeaseLapsed
<1>7. ASSUME UNCHANGED vars PROVE UNCHANGED Record!recordVars
  BY <1>1, <1>7 DEF vars
<1> HIDE DEF Record!RecordNext
<1> QED
  BY <1>2, <1>3, <1>4, <1>5, <1>6, <1>7 DEF Next

\* research_service.py, service.py:544-737: however the statements of the seven
\* operations interleave, the record of revisions, parents, leases and
\* observations moves as if each operation were one atomic step.
THEOREM ImplementsRecord == Spec => RecordContract
<1>1. Init => RecordInv
  BY InitInv DEF Init, RecordInv, RootInv, KindOf, Absent, LeaseInv, LeaseOK, NoLease, WriterInv,
     WriterOK, Idle
<1>2. RecordInv /\ [Next]_vars => RecordInv'
  BY Step, LeaseStep, WriterStep, RootStep DEF RecordInv
<1>3. RecordInv /\ RecordInv' /\ [Next]_vars => [Record!RecordNext]_(Record!recordVars)
  BY RecordStep
<1> QED
  BY <1>1, <1>2, <1>3, RecordInit, PTL DEF Spec, RecordContract, Record!RecordSpec

=============================================================================
