--------------------------- MODULE ResearchGraph ---------------------------
(***************************************************************************)
(* The research knowledge of one project: hypotheses (H), experiments (E)  *)
(* and findings (F), their revisions, the leases of experiments and the    *)
(* observations appended to them, as concurrent agent lanes write them.    *)
(*                                                                         *)
(* Granularity.  An operation is a database transaction of several         *)
(* statements at READ COMMITTED: another transaction can commit between    *)
(* any two of them, a row that a statement wrote stays locked until its    *)
(* transaction ends, and the writes appear when it commits.  A step is a   *)
(* statement whose outcome depends on what others committed; the last one  *)
(* is taken with the commit.                                               *)
(*                                                                         *)
(* Abstractions.  Texts are left out.  Every request has a command id of   *)
(* its own.  A failed guard, a duplicate revision, a deadlock and a lost   *)
(* connection all roll the transaction back: Abort.                        *)
(***************************************************************************)
EXTENDS Naturals, FiniteSets

CONSTANTS
  Tx,           \* database sessions
  Lane,         \* agent lanes, the actors of requests
  MaxPerKind,   \* bound: artifacts of each kind
  MaxVersion,   \* bound: versions of a hypothesis
  MaxObserved,  \* bound: observations of an experiment
  MaxLapses     \* bound: leases that expire

ASSUME GraphConstants == {MaxPerKind, MaxVersion, MaxObserved, MaxLapses} \subseteq Nat

VARIABLES
  artifact,   \* Artifact rows: status, version and parent
  revisions,  \* ArtifactRevision rows: <<artifact, version, status>>
  lease,      \* WorkLease rows of experiments: the owner, and whether it is live
  observed,   \* number of Observation rows of each experiment
  next,       \* IdCounter rows: next_value of each kind
  tx,         \* the transactions: operation, progress and locals
  lapses      \* leases that expired

vars == <<artifact, revisions, lease, observed, next, tx, lapses>>

Kind        == {"H", "E", "F"}
Id          == Kind \X (1..MaxPerKind)
Experiment  == {id \in Id : id[1] = "E"}
NoId        == <<"none", 0>>
NoLane      == "none"
Decisions   == {"CONFIRMED", "REJECTED", "TESTING"}

ASSUME LaneNames == NoLane \notin Lane

Absent  == [status |-> "none", version |-> 0, parent |-> NoId]
NoLease == [owner |-> NoLane, live |-> FALSE]
Idle    == [op |-> "none", phase |-> "idle", lane |-> NoLane, id |-> NoId,
            seen |-> Absent, expected |-> 0, locks |-> {}]

\* The rows a transaction can hold, besides artifacts.
LeaseRow(id)  == <<"lease", id[2]>>
CounterRow(k) == <<k, 0>>

-----------------------------------------------------------------------------
(* Statements *)

\* No other transaction holds the row.
Free(t, r) == \A u \in Tx \ {t} : r \notin tx[u].locks

\* The first SELECT of an operation, with the condition on what it finds.
Select(t, op, lane, id, expected, admitted) ==
  /\ tx[t] = Idle
  /\ artifact[id].status \in admitted
  /\ tx' = [tx EXCEPT ![t] = [op |-> op, phase |-> "read", lane |-> lane, id |-> id,
                              seen |-> artifact[id], expected |-> expected, locks |-> {}]]
  /\ UNCHANGED <<artifact, revisions, lease, observed, next, lapses>>

\* The statement succeeds and leaves the transaction holding a set of rows.
Advance(t, phase, rows) ==
  /\ \A r \in rows : Free(t, r)
  /\ tx' = [tx EXCEPT ![t].phase = phase, ![t].locks = @ \cup rows]
  /\ UNCHANGED <<artifact, revisions, lease, observed, next, lapses>>

At(t, op, phase) == tx[t].op = op /\ tx[t].phase = phase

End(t) == tx' = [tx EXCEPT ![t] = Idle]

\* (defect: a revision is written over another one)
AnyRevision(id, version) == TRUE

\* uq_artifact_revision_version: the artifact has no revision of this version.
RevisionIsNew(id, version) == \A r \in revisions : r[1] = id => r[2] # version

\* An artifact row and the revision of it
Write(id, status, version, parent) ==
  /\ RevisionIsNew(id, version)
  /\ artifact' = [artifact EXCEPT ![id] =
                    [status |-> status, version |-> version, parent |-> parent]]
  /\ revisions' = revisions \cup {<<id, version, status>>}

\* (defect: the lease of another lane can be taken)
LeaseTaken(t) == TRUE

\* _acquire_lease, the condition of the upsert
LeaseAvailable(t) == ~lease[tx[t].id].live \/ lease[tx[t].id].owner = tx[t].lane

\* (defect: the live lease of any lane will do)
SomebodyHolds(t) == lease[tx[t].id].live

\* _require_active_lease
HoldsLease(t) == lease[tx[t].id].live /\ lease[tx[t].id].owner = tx[t].lane

\* (defect: the version is not compared)
VersionIgnored(t) == TRUE

\* _cas_artifact, the condition of the update
VersionMatches(t) == artifact[tx[t].id].version = tx[t].expected

\* _allocate_artifact_id: the next number, with the counter row locked
AllocateId(t, kind) ==
  next[kind] <= MaxPerKind /\ Advance(t, "allocated", {CounterRow(kind)})

\* The new artifact of a transaction that allocated its number
Created(kind) == <<kind, next[kind]>>

-----------------------------------------------------------------------------
(* create_hypothesis *)

StartHypothesis(t, lane) ==
  /\ tx[t] = Idle
  /\ next["H"] <= MaxPerKind /\ Free(t, CounterRow("H"))
  /\ tx' = [tx EXCEPT ![t] = [Idle EXCEPT !.op = "hypothesis", !.phase = "allocated",
                                          !.lane = lane, !.locks = {CounterRow("H")}]]
  /\ UNCHANGED <<artifact, revisions, lease, observed, next, lapses>>

CommitHypothesis(t) ==
  /\ At(t, "hypothesis", "allocated")
  /\ Write(Created("H"), "PROPOSED", 1, NoId)
  /\ next' = [next EXCEPT !["H"] = @ + 1]
  /\ End(t)
  /\ UNCHANGED <<lease, observed, lapses>>

-----------------------------------------------------------------------------
(* decide_hypothesis: any decision, from any status, on the expected version, *)
(* which is one the lane has read.                                            *)

StartDecision(t, lane, id) ==
  /\ id[1] = "H" /\ artifact[id].version < MaxVersion
  /\ \E expected \in 1..artifact[id].version :
       Select(t, "decide", lane, id, expected, Decisions \cup {"PROPOSED"})

SwapDecision(t) ==
  /\ At(t, "decide", "read")
  /\ VersionMatches(t)
  /\ Advance(t, "swapped", {tx[t].id})

CommitDecision(t) ==
  /\ At(t, "decide", "swapped")
  /\ LET id == tx[t].id
     IN \E decision \in Decisions :
          Write(id, decision, artifact[id].version + 1, artifact[id].parent)
  /\ End(t)
  /\ UNCHANGED <<lease, observed, next, lapses>>

-----------------------------------------------------------------------------
(* create_experiment *)

StartExperiment(t, lane, id) ==
  id[1] = "H" /\ Select(t, "experiment", lane, id, 0, Decisions \cup {"PROPOSED"})

\* A PROPOSED hypothesis is updated, and one that is TESTING is locked by an
\* update that changes nothing.
AcceptExperiment(t) == Advance(t, "accepted", {tx[t].id})

TransitionHypothesis(t) ==
  /\ At(t, "experiment", "read")
  /\ artifact[tx[t].id].status \in {"PROPOSED", "TESTING"}
  /\ AcceptExperiment(t)

AllocateExperiment(t) ==
  At(t, "experiment", "accepted") /\ AllocateId(t, "E")

\* The row of a hypothesis that has an experiment
UnderTest(row) ==
  IF row.status = "PROPOSED"
  THEN [row EXCEPT !.status = "TESTING", !.version = @ + 1] ELSE row

CommitExperiment(t) ==
  /\ At(t, "experiment", "allocated")
  /\ LET h == tx[t].id
         e == Created("E")
         proposed == artifact[h].status = "PROPOSED"
     IN /\ RevisionIsNew(e, 1)
        /\ proposed => RevisionIsNew(h, artifact[h].version + 1)
        /\ artifact' = [artifact EXCEPT
             ![h] = UnderTest(@),
             ![e] = [status |-> "DESIGNED", version |-> 1, parent |-> h]]
        /\ revisions' = revisions \cup {<<e, 1, "DESIGNED">>}
             \cup (IF proposed THEN {<<h, artifact[h].version + 1, "TESTING">>} ELSE {})
  /\ next' = [next EXCEPT !["E"] = @ + 1]
  /\ End(t)
  /\ UNCHANGED <<lease, observed, lapses>>

-----------------------------------------------------------------------------
(* claim_experiment: the lease, and for a DESIGNED experiment its start, which *)
(* is computed from the row as the transaction first read it.                  *)

StartClaim(t, lane, id) ==
  id \in Experiment /\ Select(t, "claim", lane, id, 0, {"DESIGNED", "RUNNING"})

UpsertLease(t) ==
  /\ At(t, "claim", "read")
  /\ LeaseAvailable(t)
  /\ Advance(t, "leased", {LeaseRow(tx[t].id)})

CommitClaim(t) ==
  /\ At(t, "claim", "leased")
  /\ LET id == tx[t].id
         seen == tx[t].seen
     IN /\ IF seen.status = "DESIGNED"
           THEN Free(t, id) /\ Write(id, "RUNNING", seen.version + 1, seen.parent)
           ELSE UNCHANGED <<artifact, revisions>>
        /\ lease' = [lease EXCEPT ![id] = [owner |-> tx[t].lane, live |-> TRUE]]
  /\ End(t)
  /\ UNCHANGED <<observed, next, lapses>>

-----------------------------------------------------------------------------
(* append_observation and complete_experiment: a RUNNING experiment, a lease *)

StartWork(t, op, lane, id) ==
  /\ id \in Experiment
  /\ \E expected \in 1..artifact[id].version : Select(t, op, lane, id, expected, {"RUNNING"})

CheckLease(t, op) ==
  At(t, op, "read") /\ HoldsLease(t) /\ Advance(t, "checked", {})

CommitObservation(t) ==
  /\ At(t, "observe", "checked")
  /\ observed[tx[t].id] < MaxObserved
  /\ observed' = [observed EXCEPT ![tx[t].id] = @ + 1]
  /\ End(t)
  /\ UNCHANGED <<artifact, revisions, lease, next, lapses>>

SwapCompletion(t) ==
  /\ At(t, "complete", "checked")
  /\ VersionMatches(t)
  /\ Advance(t, "swapped", {tx[t].id})

\* ... and the lease is deleted if it still belongs to the lane.
CommitCompletion(t) ==
  /\ At(t, "complete", "swapped")
  /\ Free(t, LeaseRow(tx[t].id))
  /\ LET id == tx[t].id
     IN /\ Write(id, "COMPLETED", artifact[id].version + 1, artifact[id].parent)
        /\ lease' = [lease EXCEPT ![id] = IF @.owner = tx[t].lane THEN NoLease ELSE @]
  /\ End(t)
  /\ UNCHANGED <<observed, next, lapses>>

-----------------------------------------------------------------------------
(* publish_finding *)

StartFinding(t, lane, id) ==
  id \in Experiment /\ Select(t, "publish", lane, id, 0, {"COMPLETED"})

AllocateFinding(t) == At(t, "publish", "read") /\ AllocateId(t, "F")

CommitFinding(t) ==
  /\ At(t, "publish", "allocated")
  /\ Write(Created("F"), "PUBLISHED", 1, tx[t].id)
  /\ next' = [next EXCEPT !["F"] = @ + 1]
  /\ End(t)
  /\ UNCHANGED <<lease, observed, lapses>>

-----------------------------------------------------------------------------

\* A transaction is rolled back.
Abort(t) ==
  /\ tx[t] # Idle
  /\ End(t)
  /\ UNCHANGED <<artifact, revisions, lease, observed, next, lapses>>

\* A lease expires.
LeaseLapses(id) ==
  /\ lease[id].live /\ lapses < MaxLapses
  /\ lease' = [lease EXCEPT ![id].live = FALSE]
  /\ lapses' = lapses + 1
  /\ UNCHANGED <<artifact, revisions, observed, next, tx>>

Init ==
  /\ artifact = [id \in Id |-> Absent]
  /\ revisions = {}
  /\ lease = [id \in Experiment |-> NoLease]
  /\ observed = [id \in Experiment |-> 0]
  /\ next = [k \in Kind |-> 1]
  /\ tx = [t \in Tx |-> Idle]
  /\ lapses = 0

Request(t) ==
  \E lane \in Lane :
    \/ StartHypothesis(t, lane)
    \/ \E id \in Id :
         \/ StartDecision(t, lane, id) \/ StartExperiment(t, lane, id)
         \/ StartClaim(t, lane, id) \/ StartFinding(t, lane, id)
         \/ StartWork(t, "observe", lane, id) \/ StartWork(t, "complete", lane, id)

Statement(t) ==
  \/ SwapDecision(t) \/ TransitionHypothesis(t) \/ AllocateExperiment(t)
  \/ UpsertLease(t) \/ CheckLease(t, "observe") \/ CheckLease(t, "complete")
  \/ SwapCompletion(t) \/ AllocateFinding(t)

Commit(t) ==
  \/ CommitHypothesis(t) \/ CommitDecision(t) \/ CommitExperiment(t)
  \/ CommitClaim(t) \/ CommitObservation(t) \/ CommitCompletion(t) \/ CommitFinding(t)

Next ==
  \/ \E t \in Tx : Request(t) \/ Statement(t) \/ Commit(t) \/ Abort(t)
  \/ \E id \in Experiment : LeaseLapses(id)

Spec == Init /\ [][Next]_vars

-----------------------------------------------------------------------------
(* Properties *)

Statuses == Decisions \cup {"none", "PROPOSED", "DESIGNED", "RUNNING", "COMPLETED", "PUBLISHED"}

Operation == {"none", "hypothesis", "decide", "experiment", "claim", "observe", "complete", "publish"}

Phase == {"idle", "read", "accepted", "allocated", "leased", "checked", "swapped"}

RowId == Id \cup {CounterRow(k) : k \in Kind} \cup {LeaseRow(id) : id \in Experiment}

ArtifactType == [status : Statuses, version : Nat, parent : Id \cup {NoId}]

TxType ==
  [op : Operation, phase : Phase, lane : Lane \cup {NoLane}, id : Id \cup {NoId},
   seen : ArtifactType, expected : Nat, locks : SUBSET RowId]

\* Numbers are given out in order, and no two transactions hold the same row.
ConsistentOK ==
  /\ \A id \in Id : artifact[id].status # "none" <=> id[2] < next[id[1]]
  /\ \A t, u \in Tx : t # u => tx[t].locks \cap tx[u].locks = {}

\* Every variable has its type; numbers and locks are consistent.
TypeOK ==
  /\ artifact \in [Id -> ArtifactType]
  /\ revisions \subseteq Id \X Nat \X Statuses
  /\ lease \in [Experiment -> [owner : Lane \cup {NoLane}, live : BOOLEAN]]
  /\ observed \in [Experiment -> Nat]
  /\ next \in [Kind -> Nat]
  /\ tx \in [Tx -> TxType]
  /\ lapses \in Nat
  /\ ConsistentOK

\* The audit trail is complete: an artifact has one revision for each of its
\* versions and the last one says what the artifact is, whichever of the seven
\* operations, by compare-and-swap or from a stale read, wrote it.
HistoryComplete ==
  \A id \in Id :
    LET history == {r \in revisions : r[1] = id}
    IN /\ {r[2] : r \in history} = 1..artifact[id].version
       /\ \A r, s \in history : r[2] = s[2] => r = s
       /\ artifact[id].version > 0
            => <<id, artifact[id].version, artifact[id].status>> \in history

\* Completed evidence is final: no claim that read the experiment before it
\* ran, no second completion and no retry moves it again.
EvidenceFrozen ==
  [][\A id \in Id : artifact[id].status \in {"COMPLETED", "PUBLISHED"}
                      => artifact'[id] = artifact[id]]_vars

\* A published finding rests on completed evidence for a hypothesis that was
\* put to the test.
FindingsRest ==
  \A id \in Id : artifact[id].status = "PUBLISHED" =>
    LET e == artifact[id].parent
    IN artifact[e].status = "COMPLETED" /\ artifact[artifact[e].parent].status \in Decisions

\* An experiment is added to a hypothesis that is being tested, also when the
\* hypothesis is decided while the experiment is being created.
AddedUnderTest ==
  [][\A e \in Experiment :
       artifact[e].status = "none" /\ artifact'[e].status # "none"
         => artifact'[artifact'[e].parent].status = "TESTING"]_vars

\* One experiment has one writer: until a lease expires, the transactions that
\* passed the lease check of a running experiment belong to one lane.
OneWriter ==
  lapses = 0 =>
    \A t, u \in Tx :
      /\ {tx[t].phase, tx[u].phase} \subseteq {"checked", "swapped"}
      /\ tx[t].id = tx[u].id
      /\ artifact[tx[t].id].status = "RUNNING"
      => tx[t].lane = tx[u].lane

\* The refinement: the record that the rows, the revisions and the leases hold.
KindOf(kind) == {id \in Id : id[1] = kind}

Parents == [id \in Id |-> artifact[id].parent]

StatusAt(id, version, rows) == CHOOSE s \in Statuses : <<id, version, s>> \in rows

RecordOf(id, versions, rows) == [v \in 1..versions |-> StatusAt(id, v, rows)]

Histories == [id \in Id |-> RecordOf(id, artifact[id].version, revisions)]

HolderOf(row) == IF row.live THEN row.owner ELSE NoLane

Holders == [id \in Experiment |-> HolderOf(lease[id])]

Record == INSTANCE ResearchRecord WITH
  Hypothesis <- KindOf("H"), Finding <- KindOf("F"),
  history <- Histories, parent <- Parents, holder <- Holders,
  evidence <- observed, lapsed <- lapses > 0

\* The seven operations, which are transactions of several statements and read
\* rows that others change before they commit, look to a reader of the record as
\* if each happened at once: a revision is only ever added, a lease is taken from
\* no lane that has a live one, and until a lease expires an experiment is written
\* and completed by the lane that holds it at that moment.
RecordContract == Record!RecordSpec

=============================================================================
