------------------------ MODULE CodexAuthGateProofs ------------------------
(***************************************************************************)
(* Theorems about CodexAuthGate, for every finite set of callers and every *)
(* value of its bounds.                                                    *)
(***************************************************************************)
EXTENDS CodexAuthGate, FiniteSetTheorems, SequenceTheorems, TLAPS

-----------------------------------------------------------------------------
(* The inductive invariant *)

\* An attempt whose waiter is being started is nobody else's.
SpawningOK ==
  /\ \A c \in Caller : pc[c] = "spawning" => attempts[about[c]].waiter = "none"
  /\ \A c, d \in Caller :
       pc[c] = "spawning" /\ pc[d] = "spawning" /\ about[c] = about[d] => c = d

\* A waiter that closes its client has finished the attempt.
ClosingOK ==
  \A i \in DOMAIN attempts : attempts[i].waiter = "closing" => attempts[i].status # "PENDING"

FailedOK ==
  spawnFailures = 0 => \A i \in DOMAIN attempts : attempts[i].waiter # "failed"

\* A login that can still be confirmed has not released its writer.
OpenOK ==
  \A i \in DOMAIN attempts :
    attempts[i].flow = "open" =>
      \/ attempts[i].status = "PENDING"
      \/ \E c \in Caller : pc[c] = "closing" /\ about[c] = i

\* A turn that works with a ChatGPT account has the lock.
ChatOK == \A c \in Caller : pc[c] = "working" /\ using[c] = "chatgpt" => chat = c

AttemptsInv == SpawningOK /\ ClosingOK /\ FailedOK /\ OpenOK

GateInv == TypeOK /\ AttemptsInv /\ ChangesExclude /\ TurnKeepsCredential /\ ChatOK

-----------------------------------------------------------------------------
(* The operators of the model *)

\* Changing fields of one attempt keeps the sequence of attempts.
LEMMA UpdateAttempt ==
  ASSUME attempts \in Seq(AttemptType), NEW i \in DOMAIN attempts, NEW e \in AttemptType
  PROVE  /\ [attempts EXCEPT ![i] = e] \in Seq(AttemptType)
         /\ DOMAIN [attempts EXCEPT ![i] = e] = DOMAIN attempts
<1>1. i \in 1..Len(attempts)
  BY LenProperties
<1> QED
  BY <1>1, ExceptSeq, LenProperties

LEMMA AttemptFields ==
  ASSUME attempts \in Seq(AttemptType), NEW i \in DOMAIN attempts
  PROVE  attempts[i] \in AttemptType
  BY ElementOfSeq, LenProperties

\* A new attempt comes last and leaves the others alone.
LEMMA AddAttempt ==
  ASSUME attempts \in Seq(AttemptType), NEW e \in AttemptType
  PROVE  /\ Append(attempts, e) \in Seq(AttemptType)
         /\ DOMAIN Append(attempts, e) = DOMAIN attempts \cup {Len(attempts) + 1}
         /\ Len(attempts) + 1 \notin DOMAIN attempts
         /\ \A i \in DOMAIN attempts : Append(attempts, e)[i] = attempts[i]
         /\ Append(attempts, e)[Len(attempts) + 1] = e
         /\ Len(attempts) + 1 \in Nat
  OBVIOUS

\* The readers the gate has to count when one caller moves.
LEMMA ReadersMove ==
  ASSUME NEW c \in Caller, NEW where, pc \in [Caller -> Place], Goes(c, where)
  PROVE  /\ where \in Reading => Readers' = Readers \cup {c}
         /\ where \notin Reading => Readers' = Readers \ {c}
         /\ c \in Readers <=> pc[c] \in Reading
         /\ IsFiniteSet(Readers)
<1>1. IsFiniteSet(Readers)
  BY GateConstants, FS_Subset DEF Readers
<1> QED
  BY <1>1 DEF Goes, Readers

LEMMA CountReaders ==
  ASSUME NEW c \in Caller, NEW where, pc \in [Caller -> Place], Goes(c, where),
         readers = Cardinality(Readers), readers \in Nat
  PROVE  /\ Enter /\ pc[c] \notin Reading /\ where \in Reading
              => readers' = Cardinality(Readers') /\ readers' \in Nat
         /\ Leave /\ pc[c] \in Reading /\ where \notin Reading
              => readers' = Cardinality(Readers') /\ readers' \in Nat
         /\ readers' = readers /\ (pc[c] \in Reading <=> where \in Reading)
              => readers' = Cardinality(Readers') /\ readers' \in Nat
<1>1. ASSUME Enter, pc[c] \notin Reading, where \in Reading
      PROVE  readers' = Cardinality(Readers') /\ readers' \in Nat
  <2>1. Readers' = Readers \cup {c} /\ c \notin Readers /\ IsFiniteSet(Readers)
    BY <1>1, ReadersMove
  <2>2. Cardinality(Readers') = Cardinality(Readers) + 1
    BY <2>1, FS_AddElement
  <2> QED
    BY <1>1, <2>2 DEF Enter
<1>2. ASSUME Leave, pc[c] \in Reading, where \notin Reading
      PROVE  readers' = Cardinality(Readers') /\ readers' \in Nat
  <2>1. Readers' = Readers \ {c} /\ c \in Readers /\ IsFiniteSet(Readers)
    BY <1>2, ReadersMove
  <2>2. Cardinality(Readers') = Cardinality(Readers) - 1 /\ IsFiniteSet(Readers')
    BY <2>1, FS_RemoveElement
  <2>3. Cardinality(Readers') \in Nat
    BY <2>2, FS_CardinalityType
  <2> QED
    BY <1>2, <2>2, <2>3 DEF Leave
<1>3. ASSUME readers' = readers, pc[c] \in Reading <=> where \in Reading
      PROVE  readers' = Cardinality(Readers') /\ readers' \in Nat
  <2>1. Readers' = Readers
    BY <1>3, ReadersMove
  <2> QED
    BY <1>3, <2>1
<1> QED
  BY <1>1, <1>2, <1>3

\* While a writer is in, nobody reads, and nobody but the writer changes anything.
LEMMA NobodyReads ==
  ASSUME TypeOK, readers = 0
  PROVE  \A c \in Caller : pc[c] \notin Reading
<1>1. IsFiniteSet(Readers)
  BY GateConstants, FS_Subset DEF Readers
<1>2. Readers = {}
  BY <1>1, FS_EmptySet DEF TypeOK
<1> QED
  BY <1>2 DEF Readers

-----------------------------------------------------------------------------
(* Type correctness *)

LEMMA InitType == Init => TypeOK
<1> SUFFICES ASSUME Init PROVE TypeOK
  OBVIOUS
<1>1. DataOK
  <2>1. attempts \in Seq(AttemptType)
    BY EmptySeq DEF Init
  <2>2. pc \in [Caller -> Place] /\ account \in Credential /\ config \in Config
    BY GateConstants DEF Init, Place
  <2> QED
    BY <2>1, <2>2 DEF Init, DataOK
<1>2. AboutOK
  BY DEF Init, AboutOK
<1>3. Readers = {} /\ Cardinality({}) = 0
  BY FS_EmptySet DEF Init, Readers, Reading
<1> QED
  BY <1>1, <1>2, <1>3 DEF Init, TypeOK

\* Turns, logins and logouts leave the device logins alone.
LEMMA TurnType ==
  ASSUME TypeOK, NEW c \in Caller,
         \/ BeginTurn(c) \/ EnterCheck(c) \/ FinishCheck(c) \/ AwaitWrite(c) \/ EnterWrite(c) \/ EnsureReady(c)
         \/ EnterTurn(c) \/ AdmitTurn(c) \/ TakeChatgptTurn(c) \/ EndTurn(c)
         \/ RequestChange(c) \/ ChangeEnds(c)
  PROVE  TypeOK'
<1> USE DEF TypeOK, DataOK
<1>1. PICK where \in Place : 
        /\ Goes(c, where)
        /\ where \notin {"spawning", "cancelling", "cancelled", "closing"}
        /\ \/ readers' = readers /\ (pc[c] \in Reading <=> where \in Reading)
           \/ Enter /\ pc[c] \notin Reading /\ where \in Reading
           \/ Leave /\ pc[c] \in Reading /\ where \notin Reading
        /\ pc[c] = "working" => EndTurn(c)
  <2>1. CASE BeginTurn(c)
    BY <2>1 DEF BeginTurn, Request, Goes, Place, Reading, Changing, Enter, Leave, BeginWrite, EndWrite, gate
  <2>2. CASE EnterCheck(c)
    BY <2>2 DEF EnterCheck, Request, Goes, Place, Reading, Changing, Enter, Leave, BeginWrite, EndWrite, gate
  <2>3. CASE FinishCheck(c)
    BY <2>3 DEF FinishCheck, Request, Goes, Place, Reading, Changing, Enter, Leave, BeginWrite, EndWrite, gate
  <2>4. CASE EnterWrite(c)
    BY <2>4 DEF EnterWrite, Request, Goes, Place, Reading, Changing, Enter, Leave, BeginWrite, EndWrite, gate
  <2>5. CASE EnsureReady(c)
    BY <2>5 DEF EnsureReady, Request, Goes, Place, Reading, Changing, Enter, Leave, BeginWrite, EndWrite, gate
  <2>6. CASE EnterTurn(c)
    BY <2>6 DEF EnterTurn, Request, Goes, Place, Reading, Changing, Enter, Leave, BeginWrite, EndWrite, gate
  <2>7. CASE AdmitTurn(c)
    BY <2>7 DEF AdmitTurn, Request, Goes, Place, Reading, Changing, Enter, Leave, BeginWrite, EndWrite, gate
  <2>8. CASE TakeChatgptTurn(c)
    BY <2>8 DEF TakeChatgptTurn, Request, Goes, Place, Reading, Changing, Enter, Leave, BeginWrite, EndWrite, gate
  <2>9. CASE EndTurn(c)
    BY <2>9 DEF EndTurn, Request, Goes, Place, Reading, Changing, Enter, Leave, BeginWrite, EndWrite, gate
  <2>10. CASE RequestChange(c)
    BY <2>10 DEF RequestChange, Request, Goes, Place, Reading, Changing, Enter, Leave, BeginWrite, EndWrite, gate
  <2>11. CASE ChangeEnds(c)
    BY <2>11 DEF ChangeEnds, Request, Goes, Place, Reading, Changing, Enter, Leave, BeginWrite, EndWrite, gate
  <2>12. CASE AwaitWrite(c)
    BY <2>12 DEF AwaitWrite, Request, Goes, Place, Reading, Changing, Enter, Leave, BeginWrite, EndWrite, gate
  <2> QED
    BY <2>1, <2>2, <2>3, <2>4, <2>5, <2>6, <2>7, <2>8, <2>9, <2>10, <2>11, <2>12
<1>2. readers' = Cardinality(Readers') /\ readers' \in Nat
  BY <1>1, CountReaders
<1>3. pc' \in [Caller -> Place]
  BY <1>1 DEF Goes
<1>4. AboutOK'
  <2>1. attempts' = attempts /\ about' = about
    BY DEF BeginTurn, EnterCheck, FinishCheck, AwaitWrite, EnterWrite, EnsureReady, EnterTurn, AdmitTurn,
           TakeChatgptTurn, EndTurn, RequestChange, ChangeEnds, device
  <2> QED
    BY <1>1, <2>1 DEF AboutOK, Goes
<1>5. chat' \in Caller \cup {Nobody} /\ (chat' # Nobody => pc'[chat'] = "working")
  <2>1. CASE TakeChatgptTurn(c)
    BY <2>1 DEF TakeChatgptTurn, Goes
  <2>2. CASE EndTurn(c)
    BY <2>2 DEF EndTurn, Goes
  <2>3. CASE chat' = chat /\ pc[c] # "working"
    BY <1>1, <2>3 DEF Goes
  <2> QED
    BY <1>1, <2>1, <2>2, <2>3 DEF BeginTurn, EnterCheck, FinishCheck, AwaitWrite, EnterWrite, EnsureReady,
       EnterTurn, AdmitTurn, RequestChange, ChangeEnds
<1>6. /\ config' = config /\ writer' \in BOOLEAN
      /\ account' \in Credential /\ materialized' \in BOOLEAN
      /\ using' \in [Caller -> {"none", "chatgpt", "api-key"}]
      /\ spent' \in Nat /\ unavailable' \in Nat /\ spawnFailures' \in Nat /\ restarts' \in Nat
      /\ about' = about /\ attempts' = attempts
  <2>1. CASE BeginTurn(c)
    BY <2>1 DEF BeginTurn, Request, Enter, Leave, BeginWrite, EndWrite, gate, device, counts, ReadStatus,
       LogIn, CanLogin, Credential, ActiveMethod, Configured
  <2>2. CASE EnterCheck(c)
    BY <2>2 DEF EnterCheck, Request, Enter, Leave, BeginWrite, EndWrite, gate, device, counts, ReadStatus,
       LogIn, CanLogin, Credential, ActiveMethod, Configured
  <2>3. CASE FinishCheck(c)
    BY <2>3 DEF FinishCheck, Request, Enter, Leave, BeginWrite, EndWrite, gate, device, counts, ReadStatus,
       LogIn, CanLogin, Credential, ActiveMethod, Configured
  <2>4. CASE EnterWrite(c)
    BY <2>4 DEF EnterWrite, Request, Enter, Leave, BeginWrite, EndWrite, gate, device, counts, ReadStatus,
       LogIn, CanLogin, Credential, ActiveMethod, Configured
  <2>5. CASE EnsureReady(c)
    <3>1. \/ account' = account /\ materialized' = materialized
          \/ \E what : LogIn(what)
      BY <2>5 DEF EnsureReady
    <3>2. account' \in Credential /\ materialized' \in BOOLEAN
      BY <3>1 DEF LogIn, CanLogin, Credential
    <3>3. unavailable' \in Nat
      BY <2>5 DEF EnsureReady, ReadStatus
    <3> QED
      BY <2>5, <3>2, <3>3 DEF EnsureReady, EndWrite, device
  <2>6. CASE EnterTurn(c)
    BY <2>6 DEF EnterTurn, Request, Enter, Leave, BeginWrite, EndWrite, gate, device, counts, ReadStatus,
       LogIn, CanLogin, Credential, ActiveMethod, Configured
  <2>7. CASE AdmitTurn(c)
    BY <2>7 DEF AdmitTurn, Request, Enter, Leave, BeginWrite, EndWrite, gate, device, counts, ReadStatus,
       LogIn, CanLogin, Credential, ActiveMethod, Configured
  <2>8. CASE TakeChatgptTurn(c)
    BY <2>8 DEF TakeChatgptTurn, Request, Enter, Leave, BeginWrite, EndWrite, gate, device, counts, ReadStatus,
       LogIn, CanLogin, Credential, ActiveMethod, Configured
  <2>9. CASE EndTurn(c)
    BY <2>9 DEF EndTurn, Request, Enter, Leave, BeginWrite, EndWrite, gate, device, counts, ReadStatus,
       LogIn, CanLogin, Credential, ActiveMethod, Configured
  <2>10. CASE RequestChange(c)
    BY <2>10 DEF RequestChange, Request, Enter, Leave, BeginWrite, EndWrite, gate, device, counts, ReadStatus,
       LogIn, CanLogin, Credential, ActiveMethod, Configured
  <2>11. CASE ChangeEnds(c)
    BY <2>11 DEF ChangeEnds, Request, Enter, Leave, BeginWrite, EndWrite, gate, device, counts, ReadStatus,
       LogIn, CanLogin, Credential, ActiveMethod, Configured
  <2>12. CASE AwaitWrite(c)
    BY <2>12 DEF AwaitWrite, Request, Enter, Leave, BeginWrite, EndWrite, gate, device, counts, ReadStatus,
       LogIn, CanLogin, Credential, ActiveMethod, Configured
  <2> QED
    BY <2>1, <2>2, <2>3, <2>4, <2>5, <2>6, <2>7, <2>8, <2>9, <2>10, <2>11, <2>12
<1> QED
  BY <1>2, <1>3, <1>4, <1>5, <1>6

\* What a step changes in an attempt is one of these.
LEMMA AttemptChanges ==
  ASSUME attempts \in Seq(AttemptType), NEW i \in DOMAIN attempts
  PROVE  /\ \A w \in {"waiting", "closing", "done"} :
              /\ [attempts EXCEPT ![i].waiter = w] \in Seq(AttemptType)
              /\ DOMAIN [attempts EXCEPT ![i].waiter = w] = DOMAIN attempts
         /\ \A fl \in {"succeeded", "failed", "closed"} :
              /\ [attempts EXCEPT ![i].flow = fl] \in Seq(AttemptType)
              /\ DOMAIN [attempts EXCEPT ![i].flow = fl] = DOMAIN attempts
         /\ \A st \in {"CANCELLED"} :
              /\ [attempts EXCEPT ![i].status = st] \in Seq(AttemptType)
              /\ DOMAIN [attempts EXCEPT ![i].status = st] = DOMAIN attempts
         /\ \A st \in {"SUCCEEDED", "FAILED"} :
              /\ [attempts EXCEPT ![i].status = st, ![i].waiter = "closing"] \in Seq(AttemptType)
              /\ DOMAIN [attempts EXCEPT ![i].status = st, ![i].waiter = "closing"] = DOMAIN attempts
         /\ \A w \in {"failed", "done"} :
              /\ [attempts EXCEPT ![i].waiter = w, ![i].flow = "closed"] \in Seq(AttemptType)
              /\ DOMAIN [attempts EXCEPT ![i].waiter = w, ![i].flow = "closed"] = DOMAIN attempts
<1> DEFINE a == attempts[i]
<1>1. a \in AttemptType
  BY AttemptFields
<1>2. ASSUME NEW w \in {"waiting", "closing", "done"}
      PROVE  /\ [attempts EXCEPT ![i].waiter = w] \in Seq(AttemptType)
             /\ DOMAIN [attempts EXCEPT ![i].waiter = w] = DOMAIN attempts
  <2>1. [a EXCEPT !.waiter = w] \in AttemptType
    BY <1>1 DEF AttemptType
  <2> QED
    BY <2>1, UpdateAttempt
<1>3. ASSUME NEW fl \in {"succeeded", "failed", "closed"}
      PROVE  /\ [attempts EXCEPT ![i].flow = fl] \in Seq(AttemptType)
             /\ DOMAIN [attempts EXCEPT ![i].flow = fl] = DOMAIN attempts
  <2>1. [a EXCEPT !.flow = fl] \in AttemptType
    BY <1>1 DEF AttemptType
  <2> QED
    BY <2>1, UpdateAttempt
<1>4. ASSUME NEW st \in {"CANCELLED"}
      PROVE  /\ [attempts EXCEPT ![i].status = st] \in Seq(AttemptType)
             /\ DOMAIN [attempts EXCEPT ![i].status = st] = DOMAIN attempts
  <2>1. [a EXCEPT !.status = st] \in AttemptType
    BY <1>1 DEF AttemptType
  <2> QED
    BY <2>1, UpdateAttempt
<1>5. ASSUME NEW st \in {"SUCCEEDED", "FAILED"}
      PROVE  /\ [attempts EXCEPT ![i].status = st, ![i].waiter = "closing"] \in Seq(AttemptType)
             /\ DOMAIN [attempts EXCEPT ![i].status = st, ![i].waiter = "closing"] = DOMAIN attempts
  <2>1. [a EXCEPT !.status = st, !.waiter = "closing"] \in AttemptType
    BY <1>1 DEF AttemptType
  <2>2. [attempts EXCEPT ![i].status = st, ![i].waiter = "closing"]
          = [attempts EXCEPT ![i] = [a EXCEPT !.status = st, !.waiter = "closing"]]
    OBVIOUS
  <2> QED
    BY <2>1, <2>2, UpdateAttempt
<1>6. ASSUME NEW w \in {"failed", "done"}
      PROVE  /\ [attempts EXCEPT ![i].waiter = w, ![i].flow = "closed"] \in Seq(AttemptType)
             /\ DOMAIN [attempts EXCEPT ![i].waiter = w, ![i].flow = "closed"] = DOMAIN attempts
  <2>1. [a EXCEPT !.waiter = w, !.flow = "closed"] \in AttemptType
    BY <1>1 DEF AttemptType
  <2>2. [attempts EXCEPT ![i].waiter = w, ![i].flow = "closed"]
          = [attempts EXCEPT ![i] = [a EXCEPT !.waiter = w, !.flow = "closed"]]
    OBVIOUS
  <2> QED
    BY <2>1, <2>2, UpdateAttempt
<1> QED
  BY <1>2, <1>3, <1>4, <1>5, <1>6

\* A device request keeps its attempt, or is done with it.
LEMMA AboutStep ==
  ASSUME NEW c \in Caller, NEW where, Goes(c, where), AboutOK,
         pc \in [Caller -> Place], about \in [Caller -> Nat],
         about[c] \in DOMAIN attempts, DOMAIN attempts' = DOMAIN attempts,
         about' = about \/ (where = "idle" /\ about' = [about EXCEPT ![c] = 0])
  PROVE  about' \in [Caller -> Nat] /\ AboutOK'
<1>1. about' \in [Caller -> Nat]
  OBVIOUS
<1>2. ASSUME NEW d \in Caller, pc'[d] \in {"spawning", "cancelling", "cancelled", "closing"}
      PROVE  about'[d] \in DOMAIN attempts'
  <2>1. CASE d = c
    BY <1>2, <2>1 DEF Goes
  <2>2. CASE d # c
    BY <1>2, <2>2 DEF Goes, AboutOK
  <2> QED
    BY <2>1, <2>2
<1> QED
  BY <1>1, <1>2 DEF AboutOK

\* The attempt a device login registers.
LEMMA OpenedAttempt ==
  ASSUME NEW c \in Caller, about \in [Caller -> Nat]
  PROVE  [command |-> about[c], status |-> "PENDING", flow |-> "open", waiter |-> "none"]
           \in AttemptType
  BY DEF AttemptType

LEMMA DeviceType ==
  ASSUME TypeOK, NEW c \in Caller,
         \/ \E k \in Command : StartDevice(c, k)
         \/ BeginDevice(c) \/ OpenDevice(c) \/ SpawnWaiter(c) \/ RequestCancel(c)
         \/ CancelHandle(c) \/ FinishCancel(c) \/ CloseCancelled(c)
  PROVE  TypeOK'
<1> USE DEF TypeOK, DataOK
<1>1. PICK where \in Place :
        /\ Goes(c, where)
        /\ readers' = readers
        /\ pc[c] \notin Reading /\ where \notin Reading
  <2>1. CASE \E k \in Command : StartDevice(c, k)
    BY <2>1 DEF StartDevice, Request, Done, Goes, Place, Reading, Changing, BeginWrite, EndWrite, ReleaseAttempt, gate
  <2>2. CASE BeginDevice(c)
    BY <2>2 DEF BeginDevice, Request, Done, Goes, Place, Reading, Changing, BeginWrite, EndWrite, ReleaseAttempt, gate
  <2>3. CASE OpenDevice(c)
    BY <2>3 DEF OpenDevice, Request, Done, Goes, Place, Reading, Changing, BeginWrite, EndWrite, ReleaseAttempt, gate
  <2>4. CASE SpawnWaiter(c)
    BY <2>4 DEF SpawnWaiter, Request, Done, Goes, Place, Reading, Changing, BeginWrite, EndWrite, ReleaseAttempt, gate
  <2>5. CASE RequestCancel(c)
    BY <2>5 DEF RequestCancel, Request, Done, Goes, Place, Reading, Changing, BeginWrite, EndWrite, ReleaseAttempt, gate
  <2>6. CASE CancelHandle(c)
    BY <2>6 DEF CancelHandle, Request, Done, Goes, Place, Reading, Changing, BeginWrite, EndWrite, ReleaseAttempt, gate
  <2>7. CASE FinishCancel(c)
    BY <2>7 DEF FinishCancel, Request, Done, Goes, Place, Reading, Changing, BeginWrite, EndWrite, ReleaseAttempt, gate
  <2>8. CASE CloseCancelled(c)
    BY <2>8 DEF CloseCancelled, Request, Done, Goes, Place, Reading, Changing, BeginWrite, EndWrite, ReleaseAttempt, gate
  <2> QED
    BY <2>1, <2>2, <2>3, <2>4, <2>5, <2>6, <2>7, <2>8
<1>2. readers' = Cardinality(Readers') /\ readers' \in Nat
  BY <1>1, CountReaders
<1>3. pc' \in [Caller -> Place]
  BY <1>1 DEF Goes
<1>4. about' \in [Caller -> Nat] /\ attempts' \in Seq(AttemptType) /\ AboutOK'
  <2>1. CASE \E k \in Command : StartDevice(c, k)
    BY <2>1, GateConstants, <1>1 DEF StartDevice, AboutOK, Request, Done, Goes
  <2>2. CASE BeginDevice(c)
    BY <2>2, <1>1 DEF BeginDevice, AboutOK, Request, Done, Goes
  <2>3. CASE OpenDevice(c)
    <3>1. CASE attempts' = attempts
      BY <2>3, <3>1, <1>1 DEF OpenDevice, Done, Goes, AboutOK, EndWrite
    <3>2. CASE attempts' # attempts
      <4> DEFINE e == [command |-> about[c], status |-> "PENDING", flow |-> "open", waiter |-> "none"]
      <4>1. attempts' = Append(attempts, e) /\ about' = [about EXCEPT ![c] = Len(attempts) + 1]
        BY <2>3, <3>2 DEF OpenDevice
      <4>2. attempts' \in Seq(AttemptType) /\ DOMAIN attempts' = DOMAIN attempts \cup {Len(attempts) + 1}
        BY <4>1, AddAttempt, OpenedAttempt
      <4> QED
        BY <4>1, <4>2, <1>1 DEF AboutOK, Goes
    <3> QED
      BY <3>1, <3>2
  <2>4. CASE SpawnWaiter(c)
    <3>1. about[c] \in DOMAIN attempts
      BY <2>4 DEF SpawnWaiter, AboutOK
    <3>2. attempts' \in Seq(AttemptType) /\ DOMAIN attempts' = DOMAIN attempts
      <4>1. CASE attempts' = [attempts EXCEPT ![about[c]].waiter = "waiting"]
        BY <3>1, <4>1, AttemptChanges
      <4>2. CASE attempts' = [attempts EXCEPT ![about[c]].waiter = "failed", ![about[c]].flow = "closed"]
        BY <3>1, <4>2, AttemptChanges
      <4> QED
        BY <2>4, <4>1, <4>2 DEF SpawnWaiter
    <3>3. PICK to : Goes(c, to) /\ (about' = about \/ (to = "idle" /\ about' = [about EXCEPT ![c] = 0]))
      BY <2>4 DEF SpawnWaiter, Done
    <3> QED
      BY <3>1, <3>2, <3>3, AboutStep
  <2>5. CASE RequestCancel(c)
    BY <2>5, LenProperties, <1>1 DEF RequestCancel, AboutOK, Request, Done, Goes
  <2>6. CASE CancelHandle(c)
    <3>1. about[c] \in DOMAIN attempts
      BY <2>6 DEF CancelHandle, AboutOK
    <3>2. attempts' \in Seq(AttemptType) /\ DOMAIN attempts' = DOMAIN attempts
      BY <2>6, <3>1, AttemptChanges DEF CancelHandle
    <3>3. PICK to : Goes(c, to) /\ (about' = about \/ (to = "idle" /\ about' = [about EXCEPT ![c] = 0]))
      BY <2>6 DEF CancelHandle, Done
    <3> QED
      BY <3>1, <3>2, <3>3, AboutStep
  <2>7. CASE FinishCancel(c)
    <3>1. about[c] \in DOMAIN attempts
      BY <2>7 DEF FinishCancel, AboutOK
    <3>2. attempts' \in Seq(AttemptType) /\ DOMAIN attempts' = DOMAIN attempts
      <4>1. CASE attempts' = [attempts EXCEPT ![about[c]].status = "CANCELLED"]
        BY <3>1, <4>1, AttemptChanges
      <4>2. CASE attempts' = attempts
        BY <4>2
      <4> QED
        BY <2>7, <4>1, <4>2 DEF FinishCancel
    <3>3. PICK to : Goes(c, to) /\ (about' = about \/ (to = "idle" /\ about' = [about EXCEPT ![c] = 0]))
      BY <2>7 DEF FinishCancel, Done
    <3> QED
      BY <3>1, <3>2, <3>3, AboutStep
  <2>8. CASE CloseCancelled(c)
    <3>1. about[c] \in DOMAIN attempts
      BY <2>8 DEF CloseCancelled, AboutOK
    <3>2. attempts' \in Seq(AttemptType) /\ DOMAIN attempts' = DOMAIN attempts
      BY <2>8, <3>1, AttemptChanges DEF CloseCancelled
    <3>3. PICK to : Goes(c, to) /\ (about' = about \/ (to = "idle" /\ about' = [about EXCEPT ![c] = 0]))
      BY <2>8 DEF CloseCancelled, Done
    <3> QED
      BY <3>1, <3>2, <3>3, AboutStep
  <2> QED
    BY <2>1, <2>2, <2>3, <2>4, <2>5, <2>6, <2>7, <2>8
<1>5. /\ chat' = chat /\ pc[c] # "working"
      /\ config' = config /\ writer' \in BOOLEAN
      /\ account' = account /\ materialized' = materialized /\ using' = using
      /\ spent' \in Nat /\ unavailable' \in Nat /\ spawnFailures' \in Nat /\ restarts' \in Nat
  <2>1. CASE \E k \in Command : StartDevice(c, k)
    BY <2>1 DEF StartDevice, Request, BeginWrite, EndWrite, ReleaseAttempt, gate, counts
  <2>2. CASE BeginDevice(c)
    BY <2>2 DEF BeginDevice, Request, BeginWrite, EndWrite, ReleaseAttempt, gate, counts
  <2>3. CASE OpenDevice(c)
    BY <2>3 DEF OpenDevice, Request, BeginWrite, EndWrite, ReleaseAttempt, gate, counts
  <2>4. CASE SpawnWaiter(c)
    <3>1. spawnFailures' = spawnFailures \/ spawnFailures' = spawnFailures + 1
      BY <2>4 DEF SpawnWaiter
    <3>2. writer' \in BOOLEAN
      BY <2>4 DEF SpawnWaiter, EndWrite, gate
    <3>3. /\ pc[c] = "spawning"
          /\ UNCHANGED <<config, account, materialized, chat, using, spent, unavailable, restarts>>
      BY <2>4 DEF SpawnWaiter
    <3> QED
      BY <3>1, <3>2, <3>3
  <2>5. CASE RequestCancel(c)
    BY <2>5 DEF RequestCancel, Request, BeginWrite, EndWrite, ReleaseAttempt, gate, counts
  <2>6. CASE CancelHandle(c)
    BY <2>6 DEF CancelHandle, Request, BeginWrite, EndWrite, ReleaseAttempt, gate, counts
  <2>7. CASE FinishCancel(c)
    BY <2>7 DEF FinishCancel, Request, BeginWrite, EndWrite, ReleaseAttempt, gate, counts
  <2>8. CASE CloseCancelled(c)
    BY <2>8 DEF CloseCancelled, Request, BeginWrite, EndWrite, ReleaseAttempt, gate, counts
  <2> QED
    BY <2>1, <2>2, <2>3, <2>4, <2>5, <2>6, <2>7, <2>8
<1>6. chat' # Nobody => pc'[chat'] = "working"
  BY <1>1, <1>5 DEF Goes
<1> QED
  BY <1>2, <1>3, <1>4, <1>5, <1>6

LEMMA WaiterType ==
  ASSUME TypeOK, NEW i \in Nat, DeviceAnswers(i) \/ WaiterReturns(i) \/ CloseAttempt(i)
  PROVE  TypeOK'
<1> USE DEF TypeOK, DataOK
<1>1. i \in DOMAIN attempts
  BY DEF DeviceAnswers, WaiterReturns, CloseAttempt
<1>2. attempts' \in Seq(AttemptType) /\ DOMAIN attempts' = DOMAIN attempts
  <2>1. CASE DeviceAnswers(i)
    BY <1>1, <2>1, AttemptChanges DEF DeviceAnswers
  <2>2. CASE WaiterReturns(i)
    BY <1>1, <2>2, AttemptChanges DEF WaiterReturns
  <2>3. CASE CloseAttempt(i)
    BY <1>1, <2>3, AttemptChanges DEF CloseAttempt
  <2> QED
    BY <2>1, <2>2, <2>3
<1>3. /\ pc' = pc /\ readers' = readers /\ about' = about /\ chat' = chat /\ using' = using
      /\ config' = config /\ account' \in Credential /\ materialized' = materialized
      /\ writer' \in BOOLEAN
      /\ spent' = spent /\ UNCHANGED counts
  BY DEF DeviceAnswers, WaiterReturns, CloseAttempt, ReleaseAttempt, EndWrite, gate, Credential
<1>4. AboutOK' /\ Readers' = Readers
  BY <1>2, <1>3 DEF AboutOK, Readers
<1> QED
  BY <1>2, <1>3, <1>4 DEF counts

LEMMA RestartType == TypeOK /\ Restart => TypeOK'
<1> SUFFICES ASSUME TypeOK, Restart PROVE TypeOK'
  OBVIOUS
<1>1. DataOK'
  <2>1. attempts' \in Seq(AttemptType)
    BY EmptySeq DEF Restart
  <2>2. pc' \in [Caller -> Place]
    BY DEF Restart, Place
  <2>3. using' \in [Caller -> {"none", "chatgpt", "api-key"}] /\ about' \in [Caller -> Nat]
    BY DEF Restart
  <2>4. /\ restarts' = restarts + 1 /\ materialized' \in BOOLEAN /\ chat' = Nobody
        /\ readers' = 0 /\ writer' \in BOOLEAN
        /\ UNCHANGED <<config, account, spent, unavailable, spawnFailures>>
    BY DEF Restart
  <2> QED
    BY <2>1, <2>2, <2>3, <2>4 DEF DataOK, TypeOK
<1>2. AboutOK'
  BY DEF Restart, AboutOK
<1>3. Readers' = {} /\ Cardinality({}) = 0
  BY FS_EmptySet DEF Restart, Readers, Reading
<1> QED
  BY <1>1, <1>2, <1>3 DEF Restart, TypeOK

LEMMA TypeStep == TypeOK /\ [Next]_vars => TypeOK'
<1> SUFFICES ASSUME TypeOK, [Next]_vars PROVE TypeOK'
  OBVIOUS
<1>1. ASSUME NEW c \in Caller,
             \/ BeginTurn(c) \/ RequestChange(c) \/ RequestCancel(c)
             \/ \E k \in Command : StartDevice(c, k)
             \/ CallerStep(c)
             \/ EndTurn(c)
      PROVE  TypeOK'
  BY <1>1, TurnType, DeviceType DEF CallerStep
<1>2. ASSUME NEW i \in 1..MaxAttempts, DeviceAnswers(i) \/ WaiterStep(i) PROVE TypeOK'
  BY <1>2, WaiterType DEF WaiterStep
<1>3. CASE Restart
  BY <1>3, RestartType
<1>4. CASE UNCHANGED vars
  BY <1>4 DEF vars, gate, device, counts, TypeOK, DataOK, AboutOK, Readers
<1> QED
  BY <1>1, <1>2, <1>3, <1>4 DEF Next

-----------------------------------------------------------------------------
(* Device logins *)

\* Turns, logins and logouts do not concern device logins.
LEMMA TurnLeavesAttempts ==
  ASSUME NEW c \in Caller, pc \in [Caller -> Place],
         \/ BeginTurn(c) \/ EnterCheck(c) \/ FinishCheck(c) \/ AwaitWrite(c) \/ EnterWrite(c) \/ EnsureReady(c)
         \/ EnterTurn(c) \/ AdmitTurn(c) \/ TakeChatgptTurn(c) \/ EndTurn(c)
         \/ RequestChange(c) \/ ChangeEnds(c)
  PROVE  /\ UNCHANGED <<attempts, about, spawnFailures>>
         /\ pc[c] \notin {"spawning", "closing"}
         /\ \E where \in Place \ {"spawning", "closing"} : Goes(c, where)
<1>1. CASE BeginTurn(c)
  BY <1>1 DEF BeginTurn, Request, Goes, Place, Reading, Changing, device, counts
<1>2. CASE EnterCheck(c)
  BY <1>2 DEF EnterCheck, Request, Goes, Place, Reading, Changing, device, counts
<1>3. CASE FinishCheck(c)
  BY <1>3 DEF FinishCheck, Request, Goes, Place, Reading, Changing, device, counts
<1>4. CASE EnterWrite(c)
  BY <1>4 DEF EnterWrite, Request, Goes, Place, Reading, Changing, device, counts
<1>5. CASE EnsureReady(c)
  BY <1>5 DEF EnsureReady, Request, Goes, Place, Reading, Changing, device, counts
<1>6. CASE EnterTurn(c)
  BY <1>6 DEF EnterTurn, Request, Goes, Place, Reading, Changing, device, counts
<1>7. CASE AdmitTurn(c)
  BY <1>7 DEF AdmitTurn, Request, Goes, Place, Reading, Changing, device, counts
<1>8. CASE TakeChatgptTurn(c)
  BY <1>8 DEF TakeChatgptTurn, Request, Goes, Place, Reading, Changing, device, counts
<1>9. CASE EndTurn(c)
  BY <1>9 DEF EndTurn, Request, Goes, Place, Reading, Changing, device, counts
<1>10. CASE RequestChange(c)
  BY <1>10 DEF RequestChange, Request, Goes, Place, Reading, Changing, device, counts
<1>11. CASE ChangeEnds(c)
  BY <1>11 DEF ChangeEnds, Request, Goes, Place, Reading, Changing, device, counts
<1>12. CASE AwaitWrite(c)
  BY <1>12 DEF AwaitWrite, Request, Goes, Place, Reading, Changing, device, counts
<1> QED
  BY <1>1, <1>2, <1>3, <1>4, <1>5, <1>6, <1>7, <1>8, <1>9, <1>10, <1>11, <1>12

LEMMA TurnAttemptsStep ==
  ASSUME TypeOK, AttemptsInv, NEW c \in Caller, NEW where,
         UNCHANGED <<attempts, about, spawnFailures>>,
         pc[c] \notin {"spawning", "closing"}, where \notin {"spawning", "closing"},
         Goes(c, where)
  PROVE  AttemptsInv'
<1> USE DEF TypeOK, DataOK, AttemptsInv
<1>1. \A d \in Caller : /\ pc'[d] = "spawning" <=> pc[d] = "spawning"
                        /\ pc'[d] = "closing" <=> pc[d] = "closing"
  BY DEF Goes
<1>2. SpawningOK'
  BY <1>1 DEF SpawningOK
<1>3. ClosingOK' /\ FailedOK'
  BY DEF ClosingOK, FailedOK
<1>4. OpenOK'
  BY <1>1 DEF OpenOK
<1> QED
  BY <1>2, <1>3, <1>4

\* A device request moves on and changes its own attempt.
LEMMA OneAttemptMoves ==
  ASSUME TypeOK, AttemptsInv, NEW c \in Caller, NEW i, NEW where,
         i = about[c], i \in DOMAIN attempts, Goes(c, where),
         about' = about \/ (where = "idle" /\ about' = [about EXCEPT ![c] = 0]),
         DOMAIN attempts' = DOMAIN attempts,
         \A j \in DOMAIN attempts \ {i} : attempts'[j] = attempts[j],
         where # "spawning",
         attempts'[i].waiter # attempts[i].waiter => pc[c] = "spawning",
         attempts'[i].waiter # "closing" \/ attempts'[i].status = attempts[i].status,
         attempts'[i].waiter = "closing" => attempts[i].waiter = "closing",
         spawnFailures' = 0 =>
           spawnFailures = 0 /\ (attempts'[i].waiter = "failed" => attempts[i].waiter = "failed"),
         attempts'[i].flow = "open" =>
           /\ attempts[i].flow = "open" /\ pc[c] # "closing"
           /\ \/ attempts'[i].status = attempts[i].status
              \/ where = "closing" /\ about' = about
  PROVE  AttemptsInv'
<1> USE DEF TypeOK, DataOK, AttemptsInv
<1>1. SpawningOK'
  <2>1. ASSUME NEW d \in Caller, pc'[d] = "spawning"
        PROVE  d # c /\ pc[d] = "spawning" /\ about'[d] = about[d] /\ attempts'[about[d]].waiter = "none"
    <3>1. d # c /\ pc[d] = "spawning" /\ about'[d] = about[d]
      BY <2>1 DEF Goes
    <3>2. about[d] \in DOMAIN attempts /\ attempts[about[d]].waiter = "none"
      BY <3>1 DEF SpawningOK, AboutOK
    <3>3. pc[c] = "spawning" => about[d] # i
      BY <3>1 DEF SpawningOK
    <3> QED
      BY <3>1, <3>2, <3>3
  <2> QED
    BY <2>1 DEF SpawningOK
<1>2. ClosingOK'
  BY DEF ClosingOK
<1>3. FailedOK'
  BY DEF FailedOK
<1>4. OpenOK'
  <2>1. ASSUME NEW j \in DOMAIN attempts', attempts'[j].flow = "open", attempts'[j].status # "PENDING"
        PROVE  \E d \in Caller : pc'[d] = "closing" /\ about'[d] = j
    <3>1. CASE j = i /\ where = "closing" /\ about' = about
      BY <3>1 DEF Goes
    <3>2. CASE ~(j = i /\ where = "closing" /\ about' = about)
      <4>1. attempts[j].flow = "open" /\ attempts[j].status # "PENDING" /\ j \in DOMAIN attempts
        BY <2>1, <3>2
      <4>2. PICK d \in Caller : pc[d] = "closing" /\ about[d] = j
        BY <4>1 DEF OpenOK
      <4>3. d # c
        BY <2>1, <4>2
      <4> QED
        BY <4>2, <4>3 DEF Goes
    <3> QED
      BY <3>1, <3>2
  <2> QED
    BY <2>1 DEF OpenOK
<1> QED
  BY <1>1, <1>2, <1>3, <1>4

LEMMA DeviceAttemptsStep ==
  ASSUME TypeOK, TypeOK', AttemptsInv, NEW c \in Caller,
         \/ \E k \in Command : StartDevice(c, k)
         \/ BeginDevice(c) \/ OpenDevice(c) \/ SpawnWaiter(c) \/ RequestCancel(c)
         \/ CancelHandle(c) \/ FinishCancel(c) \/ CloseCancelled(c)
  PROVE  AttemptsInv'
<1> USE DEF TypeOK, DataOK, AttemptsInv
<1>1. ASSUME \/ \E k \in Command : StartDevice(c, k)
             \/ BeginDevice(c)
             \/ RequestCancel(c)
      PROVE  AttemptsInv'
  <2>1. /\ UNCHANGED <<attempts, spawnFailures>>
        /\ \A d \in Caller : /\ pc'[d] = "spawning" <=> pc[d] = "spawning"
                             /\ pc'[d] = "closing" <=> pc[d] = "closing"
                             /\ pc[d] \in {"spawning", "closing"} => about'[d] = about[d]
    BY <1>1 DEF StartDevice, BeginDevice, RequestCancel, Request, Done, Goes, counts
  <2>2. SpawningOK'
    BY <2>1 DEF SpawningOK
  <2>3. ClosingOK' /\ FailedOK'
    BY <2>1 DEF ClosingOK, FailedOK
  <2>4. OpenOK'
    BY <2>1 DEF OpenOK
  <2> QED
    BY <2>2, <2>3, <2>4
<1>2. CASE OpenDevice(c) /\ attempts' = attempts
  <2>1. /\ spawnFailures' = spawnFailures
        /\ \A d \in Caller : /\ pc'[d] = "spawning" <=> pc[d] = "spawning"
                             /\ pc'[d] = "closing" <=> pc[d] = "closing"
                             /\ pc[d] \in {"spawning", "closing"} => about'[d] = about[d]
    BY <1>2 DEF OpenDevice, Done, Goes, counts
  <2>2. SpawningOK'
    BY <1>2, <2>1 DEF SpawningOK
  <2>3. ClosingOK' /\ FailedOK'
    BY <1>2, <2>1 DEF ClosingOK, FailedOK
  <2>4. OpenOK'
    BY <1>2, <2>1 DEF OpenOK
  <2> QED
    BY <2>2, <2>3, <2>4
<1>3. CASE OpenDevice(c) /\ attempts' # attempts
  <2> DEFINE n == Len(attempts) + 1
             e == [command |-> about[c], status |-> "PENDING", flow |-> "open", waiter |-> "none"]
  <2>1. /\ attempts' = Append(attempts, e)
        /\ about' = [about EXCEPT ![c] = n]
        /\ pc' = [pc EXCEPT ![c] = "spawning"]
        /\ pc[c] = "opening" /\ spawnFailures' = spawnFailures
    BY <1>3 DEF OpenDevice, Goes, counts
  <2>2. /\ DOMAIN attempts' = DOMAIN attempts \cup {n} /\ n \notin DOMAIN attempts
        /\ \A j \in DOMAIN attempts : attempts'[j] = attempts[j]
        /\ attempts'[n] = e
    BY <2>1, AddAttempt, OpenedAttempt
  <2>3. \A d \in Caller \ {c} : pc[d] = "spawning" => about[d] \in DOMAIN attempts
    BY DEF AboutOK
  <2>4. SpawningOK'
    BY <2>1, <2>2, <2>3 DEF SpawningOK
  <2>5. ClosingOK' /\ FailedOK'
    BY <2>1, <2>2 DEF ClosingOK, FailedOK
  <2>6. OpenOK'
    <3>1. ASSUME NEW j \in DOMAIN attempts, attempts[j].flow = "open", attempts[j].status # "PENDING"
          PROVE  \E d \in Caller : pc'[d] = "closing" /\ about'[d] = j
      <4>1. PICK d \in Caller : pc[d] = "closing" /\ about[d] = j
        BY <3>1 DEF OpenOK
      <4> QED
        BY <2>1, <4>1
    <3> QED
      BY <2>2, <3>1 DEF OpenOK
  <2> QED
    BY <2>4, <2>5, <2>6
<1> DEFINE i == about[c]
           a == attempts[i]
<1>4. ASSUME SpawnWaiter(c) \/ CancelHandle(c) \/ FinishCancel(c) \/ CloseCancelled(c)
      PROVE  i \in DOMAIN attempts /\ a \in AttemptType
  BY <1>4, AttemptFields DEF SpawnWaiter, CancelHandle, FinishCancel, CloseCancelled, AboutOK
<1>5. CASE SpawnWaiter(c)
  <2>1. /\ pc[c] = "spawning" /\ Goes(c, "idle") /\ about' = [about EXCEPT ![c] = 0]
        /\ a.waiter = "none"
    BY <1>5 DEF SpawnWaiter, Done, SpawningOK
  <2>2. \/ attempts' = [attempts EXCEPT ![i].waiter = "waiting"] /\ spawnFailures' = spawnFailures
        \/ /\ attempts' = [attempts EXCEPT ![i].waiter = "failed", ![i].flow = "closed"]
           /\ spawnFailures' # 0
    <3>1. spawnFailures + 1 # 0
      OBVIOUS
    <3> QED
      BY <1>5, <3>1, Zenon DEF SpawnWaiter
  <2>3. /\ DOMAIN attempts' = DOMAIN attempts
        /\ \A j \in DOMAIN attempts \ {i} : attempts'[j] = attempts[j]
        /\ attempts'[i].status = a.status /\ attempts'[i].waiter \in {"waiting", "failed"}
        /\ attempts'[i].flow = "open" => a.flow = "open"
        /\ spawnFailures' = 0 => spawnFailures = 0 /\ attempts'[i].waiter = "waiting"
    <3>1. CASE /\ attempts' = [attempts EXCEPT ![i].waiter = "waiting"]
               /\ spawnFailures' = spawnFailures
      <4>1. attempts'[i] = [a EXCEPT !.waiter = "waiting"]
        BY <1>4, <1>5, <3>1
      <4>2. /\ attempts'[i].status = a.status /\ attempts'[i].waiter = "waiting"
            /\ attempts'[i].flow = a.flow
        BY <1>4, <1>5, <4>1 DEF AttemptType
      <4> QED
        BY <3>1, <4>2
    <3>2. CASE /\ attempts' = [attempts EXCEPT ![i].waiter = "failed", ![i].flow = "closed"]
               /\ spawnFailures' # 0
      <4>1. attempts'[i] = [a EXCEPT !.waiter = "failed", !.flow = "closed"]
        BY <1>4, <1>5, <3>2
      <4>2. /\ attempts'[i].status = a.status /\ attempts'[i].waiter = "failed"
            /\ attempts'[i].flow = "closed"
        BY <1>4, <1>5, <4>1 DEF AttemptType
      <4> QED
        BY <3>2, <4>2
    <3> QED
      BY <2>2, <3>1, <3>2
  <2> QED
    BY <1>4, <1>5, <2>1, <2>3, OneAttemptMoves
<1>6. CASE CancelHandle(c)
  <2>1. /\ pc[c] = "cancelling" /\ Goes(c, "cancelled") /\ about' = about
        /\ spawnFailures' = spawnFailures
    BY <1>6 DEF CancelHandle, counts
  <2>2. attempts' = attempts \/ attempts' = [attempts EXCEPT ![i].flow = "failed"]
    BY <1>6 DEF CancelHandle
  <2>3. /\ DOMAIN attempts' = DOMAIN attempts
        /\ \A j \in DOMAIN attempts \ {i} : attempts'[j] = attempts[j]
        /\ attempts'[i].status = a.status /\ attempts'[i].waiter = a.waiter
        /\ attempts'[i].flow = "open" => a.flow = "open"
    <3>1. CASE attempts' = attempts
      BY <3>1
    <3>2. CASE attempts' = [attempts EXCEPT ![i].flow = "failed"]
      BY <1>4, <1>6, <3>2 DEF AttemptType
    <3> QED
      BY <2>2, <3>1, <3>2
  <2> QED
    BY <1>4, <1>6, <2>1, <2>3, OneAttemptMoves
<1>7. CASE FinishCancel(c)
  <2>1. CASE a.status # "PENDING"
    <3>1. /\ pc[c] = "cancelled" /\ Goes(c, "idle") /\ about' = [about EXCEPT ![c] = 0]
          /\ attempts' = attempts /\ spawnFailures' = spawnFailures
      BY <1>7, <2>1 DEF FinishCancel, Finishable, Done, counts
    <3> QED
      BY <1>4, <1>7, <3>1, OneAttemptMoves
  <2>2. CASE a.status = "PENDING"
    <3>1. /\ pc[c] = "cancelled" /\ Goes(c, "closing") /\ about' = about
          /\ attempts' = [attempts EXCEPT ![i].status = "CANCELLED"]
          /\ spawnFailures' = spawnFailures
      BY <1>7, <2>2 DEF FinishCancel, Finishable, counts
    <3>2. /\ DOMAIN attempts' = DOMAIN attempts
          /\ \A j \in DOMAIN attempts \ {i} : attempts'[j] = attempts[j]
          /\ attempts'[i].waiter = a.waiter /\ attempts'[i].flow = a.flow
      BY <1>4, <1>7, <3>1 DEF AttemptType
    <3>3. a.waiter # "closing"
      BY <1>4, <1>7, <2>2 DEF ClosingOK
    <3> QED
      BY <1>4, <1>7, <3>1, <3>2, <3>3, OneAttemptMoves
  <2> QED
    BY <2>1, <2>2
<1>8. CASE CloseCancelled(c)
  <2>1. /\ pc[c] = "closing" /\ Goes(c, "idle") /\ about' = [about EXCEPT ![c] = 0]
        /\ attempts' = [attempts EXCEPT ![i].flow = "closed"] /\ spawnFailures' = spawnFailures
    BY <1>8 DEF CloseCancelled, Done, counts
  <2>2. /\ DOMAIN attempts' = DOMAIN attempts
        /\ \A j \in DOMAIN attempts \ {i} : attempts'[j] = attempts[j]
        /\ attempts'[i].status = a.status /\ attempts'[i].waiter = a.waiter
        /\ attempts'[i].flow = "closed"
    BY <1>4, <1>8, <2>1 DEF AttemptType
  <2> QED
    BY <1>4, <1>8, <2>1, <2>2, OneAttemptMoves
<1> QED
  BY <1>1, <1>2, <1>3, <1>5, <1>6, <1>7, <1>8

LEMMA WaiterAttemptsStep ==
  ASSUME TypeOK, AttemptsInv, NEW i, DeviceAnswers(i) \/ WaiterReturns(i) \/ CloseAttempt(i)
  PROVE  AttemptsInv'
<1> USE DEF TypeOK, DataOK, AttemptsInv
<1> DEFINE a == attempts[i]
<1>1. i \in DOMAIN attempts /\ a \in AttemptType
  BY AttemptFields DEF DeviceAnswers, WaiterReturns, CloseAttempt
<1>2. pc' = pc /\ about' = about /\ spawnFailures' = spawnFailures
  BY DEF DeviceAnswers, WaiterReturns, CloseAttempt, counts
<1>3. /\ DOMAIN attempts' = DOMAIN attempts
      /\ \A j \in DOMAIN attempts \ {i} : attempts'[j] = attempts[j]
      /\ attempts'[i].waiter = a.waiter \/ a.waiter # "none"
      /\ attempts'[i].waiter \in {a.waiter, "closing", "done"}
      /\ attempts'[i].waiter = "closing" => attempts'[i].status # "PENDING"
      /\ attempts'[i].flow = "open" => a.flow = "open" /\ attempts'[i].status = a.status
  <2>1. CASE DeviceAnswers(i)
    <3>1. PICK fl \in {"succeeded", "failed"} : attempts' = [attempts EXCEPT ![i].flow = fl]
      BY <2>1 DEF DeviceAnswers
    <3> QED
      BY <1>1, <3>1 DEF AttemptType, ClosingOK
  <2>2. CASE WaiterReturns(i) /\ Finishable(i)
    <3>1. PICK st \in {"SUCCEEDED", "FAILED"} :
            attempts' = [attempts EXCEPT ![i].status = st, ![i].waiter = "closing"]
      BY <2>2 DEF WaiterReturns
    <3>2. a.waiter = "waiting" /\ a.flow # "open"
      BY <2>2 DEF WaiterReturns
    <3> QED
      BY <1>1, <3>1, <3>2 DEF AttemptType
  <2>3. CASE WaiterReturns(i) /\ ~Finishable(i)
    BY <1>1, <2>3 DEF WaiterReturns, AttemptType
  <2>4. CASE CloseAttempt(i)
    BY <1>1, <2>4 DEF CloseAttempt, AttemptType
  <2> QED
    BY <2>1, <2>2, <2>3, <2>4
<1>4. SpawningOK'
  <2>1. ASSUME NEW c \in Caller, pc[c] = "spawning"
        PROVE  attempts'[about[c]].waiter = "none"
    BY <1>3, <2>1 DEF SpawningOK, AboutOK
  <2> QED
    BY <1>2, <2>1 DEF SpawningOK
<1>5. ClosingOK'
  BY <1>3 DEF ClosingOK
<1>6. FailedOK'
  BY <1>1, <1>2, <1>3 DEF FailedOK
<1>7. OpenOK'
  BY <1>1, <1>2, <1>3 DEF OpenOK
<1> QED
  BY <1>4, <1>5, <1>6, <1>7

LEMMA AttemptsStep == TypeOK /\ TypeOK' /\ AttemptsInv /\ [Next]_vars => AttemptsInv'
<1> SUFFICES ASSUME TypeOK, TypeOK', AttemptsInv, [Next]_vars PROVE AttemptsInv'
  OBVIOUS
<1>1. ASSUME NEW c \in Caller,
             \/ BeginTurn(c) \/ RequestChange(c) \/ RequestCancel(c)
             \/ \E k \in Command : StartDevice(c, k)
             \/ CallerStep(c)
             \/ EndTurn(c)
      PROVE  AttemptsInv'
  <2>1. pc \in [Caller -> Place]
    BY DEF TypeOK, DataOK
  <2>2. CASE \/ BeginTurn(c) \/ EnterCheck(c) \/ FinishCheck(c) \/ AwaitWrite(c) \/ EnterWrite(c) \/ EnsureReady(c)
             \/ EnterTurn(c) \/ AdmitTurn(c) \/ TakeChatgptTurn(c) \/ EndTurn(c)
             \/ RequestChange(c) \/ ChangeEnds(c)
    BY <2>1, <2>2, TurnLeavesAttempts, TurnAttemptsStep
  <2>3. CASE \/ \E k \in Command : StartDevice(c, k)
             \/ BeginDevice(c) \/ OpenDevice(c) \/ SpawnWaiter(c) \/ RequestCancel(c)
             \/ CancelHandle(c) \/ FinishCancel(c) \/ CloseCancelled(c)
    BY <2>3, DeviceAttemptsStep
  <2> QED
    BY <1>1, <2>2, <2>3 DEF CallerStep
<1>2. ASSUME NEW i \in 1..MaxAttempts, DeviceAnswers(i) \/ WaiterStep(i) PROVE AttemptsInv'
  BY <1>2, WaiterAttemptsStep DEF WaiterStep
<1>3. CASE Restart
  BY <1>3 DEF Restart, AttemptsInv, SpawningOK, ClosingOK, FailedOK, OpenOK
<1>4. CASE UNCHANGED vars
  BY <1>4 DEF vars, gate, device, counts, AttemptsInv, SpawningOK, ClosingOK, FailedOK, OpenOK
<1> QED
  BY <1>1, <1>2, <1>3, <1>4 DEF Next

-----------------------------------------------------------------------------
(* One writer, and no readers beside it *)

\* What a step of one caller does to the set of writers.
LEMMA CallerWrites ==
  ASSUME NEW c \in Caller, NEW where, pc \in [Caller -> Place], Goes(c, where)
  PROVE  /\ <<"caller", c>> \in Writers <=> pc[c] \in Changing
         /\ attempts' = attempts /\ (where \in Changing <=> pc[c] \in Changing)
              => Writers' = Writers
         /\ attempts' = attempts /\ where \in Changing
              => Writers' = Writers \cup {<<"caller", c>>}
         /\ attempts' = attempts /\ where \notin Changing
              => Writers' = Writers \ {<<"caller", c>>}
  BY DEF Writers, Goes

\* What a step of a device login does to it.
LEMMA LoginWrites ==
  ASSUME NEW i \in DOMAIN attempts, DOMAIN attempts' = DOMAIN attempts,
         \A j \in DOMAIN attempts \ {i} : attempts'[j] = attempts[j]
  PROVE  /\ <<"login", i>> \in Writers <=> OwnsWriter(attempts[i])
         /\ pc' = pc /\ (OwnsWriter(attempts'[i]) <=> OwnsWriter(attempts[i]))
              => Writers' = Writers
         /\ pc' = pc /\ ~OwnsWriter(attempts'[i])
              => Writers' = Writers \ {<<"login", i>>}
  BY DEF Writers

\* The gate after a step, by what the step does with the writer.
WriterKept ==
  /\ Writers' = Writers /\ writer' = writer
  /\ readers' = readers \/ CanRead \/ \E c \in Caller : pc[c] \in Reading

WriterTaken ==
  /\ CanWrite /\ writer' = TRUE /\ readers' = readers
  /\ \E y : Writers' = Writers \cup {y}

WriterReleased ==
  /\ writer' = FALSE
  /\ \E x \in Writers : Writers' = Writers \ {x}

WriterHandedOver ==
  /\ writer' = writer /\ readers' = readers
  /\ \E x \in Writers : \E y : Writers' = (Writers \ {x}) \cup {y}

LEMMA WriterStep ==
  ASSUME TypeOK, ChangesExclude, spawnFailures' = 0 => spawnFailures = 0,
         WriterKept \/ WriterTaken \/ WriterReleased \/ WriterHandedOver
  PROVE  ChangesExclude'
<1> SUFFICES ASSUME spawnFailures' = 0
             PROVE  /\ writer' <=> Writers' # {}
                    /\ \A v, w \in Writers' : v = w
                    /\ writer' => readers' = 0
  BY DEF ChangesExclude
<1>1. /\ writer <=> Writers # {}
      /\ \A v, w \in Writers : v = w
      /\ writer => readers = 0
  BY DEF ChangesExclude
<1>2. CASE WriterKept
  BY <1>1, <1>2, NobodyReads DEF WriterKept, CanRead
<1>3. CASE WriterTaken
  BY <1>1, <1>3 DEF WriterTaken, CanWrite
<1>4. CASE WriterReleased
  BY <1>1, <1>4 DEF WriterReleased
<1>5. CASE WriterHandedOver
  BY <1>1, <1>5 DEF WriterHandedOver
<1> QED
  BY <1>2, <1>3, <1>4, <1>5

LEMMA TurnExcludes ==
  ASSUME TypeOK, NEW c \in Caller,
         \/ BeginTurn(c) \/ EnterCheck(c) \/ FinishCheck(c) \/ AwaitWrite(c) \/ EnterWrite(c) \/ EnsureReady(c)
         \/ EnterTurn(c) \/ AdmitTurn(c) \/ TakeChatgptTurn(c) \/ EndTurn(c)
         \/ RequestChange(c) \/ ChangeEnds(c)
  PROVE  WriterKept \/ WriterTaken \/ WriterReleased
<1>1. pc \in [Caller -> Place] /\ attempts' = attempts
  BY TurnLeavesAttempts DEF TypeOK, DataOK
<1>2. CASE \/ BeginTurn(c) \/ EnterCheck(c) \/ FinishCheck(c) \/ AwaitWrite(c)
           \/ EnterTurn(c) \/ AdmitTurn(c) \/ TakeChatgptTurn(c) \/ EndTurn(c)
  <2>1. PICK where : /\ Goes(c, where) /\ where \notin Changing /\ pc[c] \notin Changing
                     /\ writer' = writer
                     /\ readers' = readers \/ CanRead \/ pc[c] \in Reading
    <3>1. CASE BeginTurn(c)
      BY <3>1 DEF BeginTurn, Request, Changing, Reading, Enter, Leave, gate
    <3>2. CASE EnterCheck(c)
      BY <3>2 DEF EnterCheck, Request, Changing, Reading, Enter, Leave, gate
    <3>3. CASE FinishCheck(c)
      BY <3>3 DEF FinishCheck, Request, Changing, Reading, Enter, Leave, gate
    <3>4. CASE EnterTurn(c)
      BY <3>4 DEF EnterTurn, Request, Changing, Reading, Enter, Leave, gate
    <3>5. CASE AdmitTurn(c)
      BY <3>5 DEF AdmitTurn, Request, Changing, Reading, Enter, Leave, gate
    <3>6. CASE TakeChatgptTurn(c)
      BY <3>6 DEF TakeChatgptTurn, Request, Changing, Reading, Enter, Leave, gate
    <3>7. CASE EndTurn(c)
      BY <3>7 DEF EndTurn, Request, Changing, Reading, Enter, Leave, gate
    <3>8. CASE AwaitWrite(c)
      BY <3>8 DEF AwaitWrite, Changing, gate
    <3> QED
      BY <1>2, <3>1, <3>2, <3>3, <3>4, <3>5, <3>6, <3>7, <3>8
  <2> QED
    BY <1>1, <2>1, CallerWrites DEF WriterKept
<1>3. CASE EnterWrite(c) \/ RequestChange(c)
  <2>1. PICK where : Goes(c, where) /\ where \in Changing /\ BeginWrite
    BY <1>3 DEF EnterWrite, RequestChange, Request, Changing
  <2> QED
    BY <1>1, <2>1, CallerWrites DEF WriterTaken, BeginWrite
<1>4. CASE EnsureReady(c) \/ ChangeEnds(c)
  <2>1. PICK where : Goes(c, where) /\ where \notin Changing /\ pc[c] \in Changing /\ EndWrite
    BY <1>4 DEF EnsureReady, ChangeEnds, Changing
  <2> QED
    BY <1>1, <2>1, CallerWrites DEF WriterReleased, EndWrite
<1> QED
  BY <1>2, <1>3, <1>4

LEMMA DeviceExcludes ==
  ASSUME TypeOK, AttemptsInv, NEW c \in Caller,
         \/ \E k \in Command : StartDevice(c, k)
         \/ BeginDevice(c) \/ OpenDevice(c) \/ SpawnWaiter(c) \/ RequestCancel(c)
         \/ CancelHandle(c) \/ FinishCancel(c) \/ CloseCancelled(c)
  PROVE  /\ spawnFailures' = 0 => spawnFailures = 0
         /\ spawnFailures' = 0 =>
              WriterKept \/ WriterTaken \/ WriterReleased \/ WriterHandedOver
<1> USE DEF TypeOK, DataOK, AttemptsInv
<1> DEFINE i == about[c]
           a == attempts[i]
<1>1. CASE (\E k \in Command : StartDevice(c, k)) \/ RequestCancel(c)
  <2>1. PICK where : /\ Goes(c, where) /\ where \notin Changing /\ pc[c] \notin Changing
                     /\ UNCHANGED <<attempts, writer, readers, spawnFailures>>
    BY <1>1 DEF StartDevice, RequestCancel, Request, Changing, gate, counts
  <2> QED
    BY <2>1, CallerWrites DEF WriterKept
<1>2. CASE BeginDevice(c)
  <2>1. pc[c] \notin Changing /\ attempts' = attempts /\ spawnFailures' = spawnFailures
    BY <1>2 DEF BeginDevice, Changing, counts
  <2>2. CASE CanWrite
    <3>1. Goes(c, "opening") /\ "opening" \in Changing /\ BeginWrite
      BY <1>2, <2>2 DEF BeginDevice, Changing
    <3> QED
      BY <2>1, <3>1, CallerWrites DEF WriterTaken, BeginWrite
  <2>3. CASE ~CanWrite
    <3>1. Goes(c, "idle") /\ "idle" \notin Changing /\ writer' = writer /\ readers' = readers
      BY <1>2, <2>3 DEF BeginDevice, Done, Changing, gate
    <3> QED
      BY <2>1, <3>1, CallerWrites DEF WriterKept
  <2> QED
    BY <2>2, <2>3
<1>3. CASE OpenDevice(c)
  <2>1. pc[c] \in Changing /\ spawnFailures' = spawnFailures
    BY <1>3 DEF OpenDevice, Changing, counts
  <2>2. CASE attempts' = attempts
    <3>1. Goes(c, "idle") /\ "idle" \notin Changing /\ EndWrite
      BY <1>3, <2>2, AddAttempt, OpenedAttempt DEF OpenDevice, Done, Changing
    <3> QED
      BY <2>1, <2>2, <3>1, CallerWrites DEF WriterReleased, EndWrite
  <2>3. CASE attempts' # attempts
    <3> DEFINE n == Len(attempts) + 1
               e == [command |-> about[c], status |-> "PENDING", flow |-> "open", waiter |-> "none"]
    <3>1. /\ attempts' = Append(attempts, e) /\ Goes(c, "spawning")
          /\ writer' = writer /\ readers' = readers
      BY <1>3, <2>3 DEF OpenDevice, gate
    <3>2. /\ DOMAIN attempts' = DOMAIN attempts \cup {n} /\ n \notin DOMAIN attempts
          /\ \A j \in DOMAIN attempts : attempts'[j] = attempts[j]
          /\ OwnsWriter(attempts'[n])
      BY <3>1, AddAttempt, OpenedAttempt DEF OwnsWriter
    <3>3. <<"caller", c>> \in Writers
      BY <2>1 DEF Writers
    <3>4. Writers' = (Writers \ {<<"caller", c>>}) \cup {<<"login", n>>}
      BY <3>1, <3>2 DEF Writers, Goes, Changing
    <3> QED
      BY <2>1, <3>1, <3>3, <3>4 DEF WriterHandedOver
  <2> QED
    BY <2>2, <2>3
<1>4. ASSUME SpawnWaiter(c) \/ CancelHandle(c) \/ FinishCancel(c) \/ CloseCancelled(c)
      PROVE  i \in DOMAIN attempts /\ a \in AttemptType
  BY <1>4, AttemptFields DEF SpawnWaiter, CancelHandle, FinishCancel, CloseCancelled, AboutOK
<1>5. ASSUME i \in DOMAIN attempts, a \in AttemptType, NEW where, Goes(c, where),
             where \in Changing <=> pc[c] \in Changing,
             DOMAIN attempts' = DOMAIN attempts,
             \A j \in DOMAIN attempts \ {i} : attempts'[j] = attempts[j],
             OwnsWriter(attempts'[i]) <=> OwnsWriter(a)
      PROVE  Writers' = Writers
  BY <1>5 DEF Writers, Goes
<1>6. CASE SpawnWaiter(c)
  <2>1. /\ pc[c] = "spawning" /\ Goes(c, "idle") /\ a.waiter = "none"
        /\ "spawning" \notin Changing /\ "idle" \notin Changing
        /\ spawnFailures' = 0 => spawnFailures = 0
    BY <1>6 DEF SpawnWaiter, Done, SpawningOK, Changing
  <2>2. CASE spawnFailures' = 0
    <3>1. /\ attempts' = [attempts EXCEPT ![i].waiter = "waiting"]
          /\ writer' = writer /\ readers' = readers
      <4>1. spawnFailures + 1 # 0
        OBVIOUS
      <4> QED
        BY <1>6, <2>2, <4>1, Zenon DEF SpawnWaiter, gate
    <3>2. OwnsWriter(attempts'[i]) <=> OwnsWriter(a)
      BY <1>4, <1>6, <2>1, <3>1 DEF OwnsWriter, AttemptType
    <3>3. Writers' = Writers
      BY <1>4, <1>5, <1>6, <2>1, <3>1, <3>2
    <3> QED
      BY <2>1, <3>1, <3>3 DEF WriterKept
  <2> QED
    BY <2>1, <2>2
<1>7. CASE CancelHandle(c)
  <2>1. /\ pc[c] = "cancelling" /\ Goes(c, "cancelled")
        /\ "cancelling" \notin Changing /\ "cancelled" \notin Changing
        /\ writer' = writer /\ readers' = readers /\ spawnFailures' = spawnFailures
        /\ attempts' = attempts \/ attempts' = [attempts EXCEPT ![i].flow = "failed"]
    BY <1>7 DEF CancelHandle, Changing, gate, counts
  <2>2. OwnsWriter(attempts'[i]) <=> OwnsWriter(a)
    <3>1. CASE attempts' = attempts
      BY <3>1
    <3>2. CASE attempts' = [attempts EXCEPT ![i].flow = "failed"]
      BY <1>4, <1>7, <3>2 DEF OwnsWriter, AttemptType
    <3> QED
      BY <2>1, <3>1, <3>2
  <2>3. Writers' = Writers
    BY <1>4, <1>5, <1>7, <2>1, <2>2
  <2> QED
    BY <2>1, <2>3 DEF WriterKept
<1>8. CASE FinishCancel(c)
  <2>1. /\ pc[c] = "cancelled" /\ "cancelled" \notin Changing
        /\ writer' = writer /\ readers' = readers /\ spawnFailures' = spawnFailures
    BY <1>8 DEF FinishCancel, Changing, gate, counts
  <2>2. CASE a.status # "PENDING"
    <3>1. Goes(c, "idle") /\ "idle" \notin Changing /\ attempts' = attempts
      BY <1>8, <2>2 DEF FinishCancel, Finishable, Done, Changing
    <3>2. Writers' = Writers
      BY <2>1, <3>1, CallerWrites
    <3> QED
      BY <2>1, <3>2 DEF WriterKept
  <2>3. CASE a.status = "PENDING" /\ spawnFailures' = 0
    <3>1. Goes(c, "closing") /\ attempts' = [attempts EXCEPT ![i].status = "CANCELLED"]
      BY <1>8, <2>3 DEF FinishCancel, Finishable
    <3>2. a.waiter # "closing" /\ a.waiter # "failed"
      BY <1>4, <1>8, <2>1, <2>3 DEF ClosingOK, FailedOK
    <3>3. OwnsWriter(a) /\ ~OwnsWriter(attempts'[i])
      BY <1>4, <1>8, <2>3, <3>1, <3>2 DEF OwnsWriter, AttemptType
    <3>4. <<"login", i>> \in Writers
      BY <1>4, <1>8, <3>3 DEF Writers
    <3>5. "closing" \in Changing
      BY DEF Changing
    <3>6. /\ DOMAIN attempts' = DOMAIN attempts
          /\ \A j \in DOMAIN attempts \ {i} : attempts'[j] = attempts[j]
      BY <3>1
    <3>7. Writers' = (Writers \ {<<"login", i>>}) \cup {<<"caller", c>>}
      BY <1>4, <1>8, <3>1, <3>3, <3>5, <3>6 DEF Writers, Goes
    <3> QED
      BY <2>1, <3>4, <3>7 DEF WriterHandedOver
  <2> QED
    BY <2>1, <2>2, <2>3
<1>9. CASE CloseCancelled(c)
  <2>1. /\ pc[c] = "closing" /\ Goes(c, "idle") /\ "closing" \in Changing /\ "idle" \notin Changing
        /\ writer' = FALSE /\ spawnFailures' = spawnFailures
        /\ attempts' = [attempts EXCEPT ![i].flow = "closed"]
    BY <1>9 DEF CloseCancelled, Done, ReleaseAttempt, EndWrite, Changing, counts
  <2>2. OwnsWriter(attempts'[i]) <=> OwnsWriter(a)
    BY <1>4, <1>9, <2>1 DEF OwnsWriter, AttemptType
  <2>3. <<"caller", c>> \in Writers /\ Writers' = Writers \ {<<"caller", c>>}
    <3>1. /\ DOMAIN attempts' = DOMAIN attempts
          /\ \A j \in DOMAIN attempts : OwnsWriter(attempts'[j]) <=> OwnsWriter(attempts[j])
      BY <2>1, <2>2
    <3>2. {j \in DOMAIN attempts' : OwnsWriter(attempts'[j])}
            = {j \in DOMAIN attempts : OwnsWriter(attempts[j])}
      BY <3>1
    <3>3. {d \in Caller : pc'[d] \in Changing} = {d \in Caller : pc[d] \in Changing} \ {c}
      BY <2>1 DEF Goes
    <3>4. <<"caller", c>> \in Writers
      BY <2>1 DEF Writers
    <3>5. Writers' = Writers \ {<<"caller", c>>}
      <4> DEFINE L == {<<"login", j>> : j \in {k \in DOMAIN attempts : OwnsWriter(attempts[k])}}
      <4>1. Writers = {<<"caller", d>> : d \in {e \in Caller : pc[e] \in Changing}} \cup L
        BY DEF Writers
      <4>2. Writers' = {<<"caller", d>> : d \in {e \in Caller : pc[e] \in Changing} \ {c}} \cup L
        BY <3>2, <3>3 DEF Writers
      <4>3. <<"caller", c>> \notin L
        OBVIOUS
      <4> QED
        BY <4>1, <4>2, <4>3
    <3> QED
      BY <3>4, <3>5
  <2> QED
    BY <2>1, <2>3 DEF WriterReleased
<1> QED
  BY <1>1, <1>2, <1>3, <1>6, <1>7, <1>8, <1>9

LEMMA WaiterExcludes ==
  ASSUME TypeOK, AttemptsInv, NEW i \in Nat,
         DeviceAnswers(i) \/ WaiterReturns(i) \/ CloseAttempt(i)
  PROVE  WriterKept \/ WriterReleased
<1> USE DEF TypeOK, DataOK, AttemptsInv
<1> DEFINE a == attempts[i]
<1>1. i \in DOMAIN attempts /\ a \in AttemptType /\ pc' = pc
  BY AttemptFields DEF DeviceAnswers, WaiterReturns, CloseAttempt
<1>2. ASSUME UNCHANGED gate, DOMAIN attempts' = DOMAIN attempts,
             \A j \in DOMAIN attempts \ {i} : attempts'[j] = attempts[j],
             OwnsWriter(attempts'[i]) <=> OwnsWriter(a)
      PROVE  WriterKept
  <2>1. Writers' = Writers
    BY <1>1, <1>2, LoginWrites
  <2> QED
    BY <1>2, <2>1 DEF WriterKept, gate
<1>3. CASE DeviceAnswers(i)
  <2>1. /\ UNCHANGED gate
        /\ \/ attempts' = [attempts EXCEPT ![i].flow = "succeeded"]
           \/ attempts' = [attempts EXCEPT ![i].flow = "failed"]
    BY <1>3 DEF DeviceAnswers
  <2>2. OwnsWriter(attempts'[i]) <=> OwnsWriter(a)
    BY <1>1, <2>1 DEF OwnsWriter, AttemptType
  <2> QED
    BY <1>2, <2>1, <2>2
<1>4. CASE WaiterReturns(i) /\ Finishable(i)
  <2>1. PICK st \in {"SUCCEEDED", "FAILED"} :
          attempts' = [attempts EXCEPT ![i].status = st, ![i].waiter = "closing"]
    BY <1>4 DEF WaiterReturns
  <2>2. a.status = "PENDING" /\ a.waiter = "waiting" /\ UNCHANGED gate
    BY <1>4 DEF WaiterReturns, Finishable
  <2>3. OwnsWriter(a)
    BY <2>2 DEF OwnsWriter
  <2>4. OwnsWriter(attempts'[i])
    BY <1>1, <2>1 DEF OwnsWriter, AttemptType
  <2> QED
    BY <1>2, <2>1, <2>2, <2>3, <2>4
<1>5. CASE WaiterReturns(i) /\ ~Finishable(i)
  <2>1. attempts' = [attempts EXCEPT ![i].waiter = "done"] /\ UNCHANGED gate
    BY <1>5 DEF WaiterReturns
  <2>2. ~OwnsWriter(attempts'[i]) /\ ~OwnsWriter(a)
    BY <1>1, <1>5, <2>1 DEF WaiterReturns, Finishable, OwnsWriter, AttemptType
  <2> QED
    BY <1>2, <2>1, <2>2
<1>6. CASE CloseAttempt(i)
  <2>1. /\ attempts' = [attempts EXCEPT ![i].waiter = "done", ![i].flow = "closed"]
        /\ a.waiter = "closing" /\ writer' = FALSE
    BY <1>6 DEF CloseAttempt, ReleaseAttempt, EndWrite
  <2>2. OwnsWriter(a) /\ ~OwnsWriter(attempts'[i])
    BY <1>1, <2>1 DEF OwnsWriter, AttemptType, ClosingOK
  <2>3. <<"login", i>> \in Writers /\ Writers' = Writers \ {<<"login", i>>}
    BY <1>1, <2>1, <2>2, LoginWrites
  <2> QED
    BY <2>1, <2>3 DEF WriterReleased
<1> QED
  BY <1>3, <1>4, <1>5, <1>6

\* What Next may do, by whose step it is.
LEMMA NextCases ==
  ASSUME Next
  PROVE  \/ \E c \in Caller :
              \/ BeginTurn(c) \/ EnterCheck(c) \/ FinishCheck(c) \/ AwaitWrite(c) \/ EnterWrite(c) \/ EnsureReady(c)
              \/ EnterTurn(c) \/ AdmitTurn(c) \/ TakeChatgptTurn(c) \/ EndTurn(c)
              \/ RequestChange(c) \/ ChangeEnds(c)
         \/ \E c \in Caller :
              \/ \E k \in Command : StartDevice(c, k)
              \/ BeginDevice(c) \/ OpenDevice(c) \/ SpawnWaiter(c) \/ RequestCancel(c)
              \/ CancelHandle(c) \/ FinishCancel(c) \/ CloseCancelled(c)
         \/ \E i \in Nat : DeviceAnswers(i) \/ WaiterReturns(i) \/ CloseAttempt(i)
         \/ Restart
<1>1. 1..MaxAttempts \subseteq Nat
  BY GateConstants
<1> QED
  BY <1>1, Zenon DEF Next, CallerStep, WaiterStep

\* A waiter thread that could not be started is never forgotten.
LEMMA FailuresStay ==
  ASSUME TypeOK, AttemptsInv, [Next]_vars, spawnFailures' = 0
  PROVE  spawnFailures = 0
<1>1. ASSUME NEW c \in Caller,
             \/ BeginTurn(c) \/ EnterCheck(c) \/ FinishCheck(c) \/ AwaitWrite(c) \/ EnterWrite(c) \/ EnsureReady(c)
             \/ EnterTurn(c) \/ AdmitTurn(c) \/ TakeChatgptTurn(c) \/ EndTurn(c)
             \/ RequestChange(c) \/ ChangeEnds(c)
      PROVE  spawnFailures' = spawnFailures
  BY <1>1 DEF BeginTurn, EnterCheck, FinishCheck, AwaitWrite, EnterWrite, EnsureReady, EnterTurn, AdmitTurn,
              TakeChatgptTurn, EndTurn, RequestChange, ChangeEnds, counts
<1>2. ASSUME NEW i \in Nat, DeviceAnswers(i) \/ WaiterReturns(i) \/ CloseAttempt(i)
      PROVE  spawnFailures' = spawnFailures
  BY <1>2 DEF DeviceAnswers, WaiterReturns, CloseAttempt, counts
<1>3. Restart \/ UNCHANGED vars => spawnFailures' = spawnFailures
  BY DEF Restart, vars, counts
<1> QED
  BY <1>1, <1>2, <1>3, DeviceExcludes, NextCases

LEMMA ExclusionStep ==
  TypeOK /\ AttemptsInv /\ ChangesExclude /\ [Next]_vars => ChangesExclude'
<1> SUFFICES ASSUME TypeOK, AttemptsInv, ChangesExclude, [Next]_vars, spawnFailures' = 0
             PROVE  ChangesExclude'
  BY DEF ChangesExclude
<1>1. ASSUME NEW c \in Caller,
             \/ BeginTurn(c) \/ EnterCheck(c) \/ FinishCheck(c) \/ AwaitWrite(c) \/ EnterWrite(c) \/ EnsureReady(c)
             \/ EnterTurn(c) \/ AdmitTurn(c) \/ TakeChatgptTurn(c) \/ EndTurn(c)
             \/ RequestChange(c) \/ ChangeEnds(c)
      PROVE  ChangesExclude'
  BY <1>1, TurnExcludes, FailuresStay, WriterStep
<1>2. ASSUME NEW c \in Caller,
             \/ \E k \in Command : StartDevice(c, k)
             \/ BeginDevice(c) \/ OpenDevice(c) \/ SpawnWaiter(c) \/ RequestCancel(c)
             \/ CancelHandle(c) \/ FinishCancel(c) \/ CloseCancelled(c)
      PROVE  ChangesExclude'
  BY <1>2, DeviceExcludes, WriterStep
<1>3. ASSUME NEW i \in Nat, DeviceAnswers(i) \/ WaiterReturns(i) \/ CloseAttempt(i)
      PROVE  ChangesExclude'
  BY <1>3, WaiterExcludes, FailuresStay, WriterStep
<1>4. CASE Restart
  <2>1. Writers' = {} /\ writer' = FALSE
    BY <1>4 DEF Restart, Writers, Changing
  <2> QED
    BY <2>1 DEF ChangesExclude
<1>5. CASE UNCHANGED vars
  BY <1>5 DEF vars, gate, device, counts, ChangesExclude, Writers
<1> QED
  BY <1>1, <1>2, <1>3, <1>4, <1>5, NextCases

-----------------------------------------------------------------------------
(* Turns and the credential *)

\* The credential is changed by a writer.
LEMMA AccountMoves ==
  ASSUME TypeOK, AttemptsInv, spawnFailures = 0, [Next]_vars, account' # account
  PROVE  Writers # {}
<1>1. ASSUME NEW c \in Caller, pc[c] \in Changing PROVE Writers # {}
  BY <1>1 DEF Writers
<1>2. ASSUME NEW c \in Caller,
             \/ BeginTurn(c) \/ EnterCheck(c) \/ FinishCheck(c) \/ AwaitWrite(c) \/ EnterWrite(c) \/ EnsureReady(c)
             \/ EnterTurn(c) \/ AdmitTurn(c) \/ TakeChatgptTurn(c) \/ EndTurn(c)
             \/ RequestChange(c) \/ ChangeEnds(c)
      PROVE  Writers # {}
  <2>1. pc[c] \in Changing
    BY <1>2 DEF BeginTurn, EnterCheck, FinishCheck, AwaitWrite, EnterWrite, EnsureReady, EnterTurn, AdmitTurn,
                TakeChatgptTurn, EndTurn, RequestChange, ChangeEnds, Changing
  <2> QED
    BY <1>1, <2>1
<1>3. ASSUME NEW c \in Caller,
             \/ \E k \in Command : StartDevice(c, k)
             \/ BeginDevice(c) \/ OpenDevice(c) \/ SpawnWaiter(c) \/ RequestCancel(c)
             \/ CancelHandle(c) \/ FinishCancel(c) \/ CloseCancelled(c)
      PROVE  FALSE
  BY <1>3 DEF StartDevice, BeginDevice, OpenDevice, SpawnWaiter, RequestCancel, CancelHandle,
              FinishCancel, CloseCancelled
<1>4. ASSUME NEW i \in Nat, DeviceAnswers(i) \/ WaiterReturns(i) \/ CloseAttempt(i)
      PROVE  Writers # {}
  <2>1. i \in DOMAIN attempts /\ attempts[i].flow = "open"
    BY <1>4 DEF DeviceAnswers, WaiterReturns, CloseAttempt
  <2>2. CASE attempts[i].status = "PENDING"
    <3>1. OwnsWriter(attempts[i])
      BY <2>1, <2>2 DEF OwnsWriter, AttemptsInv, FailedOK
    <3> QED
      BY <2>1, <3>1 DEF Writers
  <2>3. CASE \E c \in Caller : pc[c] = "closing"
    BY <1>1, <2>3 DEF Changing
  <2> QED
    BY <2>1, <2>2, <2>3 DEF AttemptsInv, OpenOK
<1>5. Restart \/ UNCHANGED vars => account' = account
  BY DEF Restart, vars
<1> QED
  BY <1>2, <1>3, <1>4, <1>5, NextCases

\* A turn at work or in the queue was there before, or is admitted with the
\* credential there is.
LEMMA TurnsMove ==
  ASSUME TypeOK, [Next]_vars, NEW d \in Caller, pc'[d] \in {"queue", "working"}
  PROVE  /\ pc[d] \in Reading
         /\ \/ using'[d] = ActiveMethod(account)
            \/ pc[d] \in {"queue", "working"} /\ using'[d] = using[d]
<1> USE DEF TypeOK, DataOK
<1>1. ASSUME NEW c \in Caller, AdmitTurn(c)
      PROVE  \/ d # c /\ pc'[d] = pc[d] /\ using'[d] = using[d]
             \/ d = c /\ pc[c] = "entering" /\ using'[c] = ActiveMethod(account)
  <2>1. CASE d # c
    BY <1>1, <2>1 DEF AdmitTurn, Goes
  <2>2. CASE d = c
    <3>1. PICK status \in Credential \cup {"unavailable"} :
            /\ ReadStatus(status) /\ Configured(status)
            /\ using' = [using EXCEPT ![c] = ActiveMethod(status)]
      BY <1>1, <2>2 DEF AdmitTurn, Goes
    <3>2. status = account
      BY <3>1 DEF ReadStatus, Configured, ActiveMethod
    <3> QED
      BY <1>1, <2>2, <3>1, <3>2 DEF AdmitTurn
  <2> QED
    BY <2>1, <2>2
<1>2. ASSUME NEW c \in Caller,
             \/ BeginTurn(c) \/ EnterCheck(c) \/ FinishCheck(c) \/ AwaitWrite(c) \/ EnterWrite(c) \/ EnsureReady(c)
             \/ EnterTurn(c) \/ TakeChatgptTurn(c) \/ EndTurn(c)
             \/ RequestChange(c) \/ ChangeEnds(c)
      PROVE  /\ pc[d] \in {"queue", "working"}
             /\ using'[d] = using[d]
  BY <1>2 DEF BeginTurn, EnterCheck, FinishCheck, AwaitWrite, EnterWrite, EnsureReady, EnterTurn,
              TakeChatgptTurn, EndTurn, RequestChange, ChangeEnds, Request, Goes
<1>3. ASSUME NEW c \in Caller,
             \/ \E k \in Command : StartDevice(c, k)
             \/ BeginDevice(c) \/ OpenDevice(c) \/ SpawnWaiter(c) \/ RequestCancel(c)
             \/ CancelHandle(c) \/ FinishCancel(c) \/ CloseCancelled(c)
      PROVE  pc[d] \in {"queue", "working"} /\ using'[d] = using[d]
  BY <1>3 DEF StartDevice, BeginDevice, OpenDevice, SpawnWaiter, RequestCancel, CancelHandle,
              FinishCancel, CloseCancelled, Request, Done, Goes
<1>4. ASSUME NEW i \in Nat, DeviceAnswers(i) \/ WaiterReturns(i) \/ CloseAttempt(i)
      PROVE  pc' = pc /\ using' = using
  BY <1>4 DEF DeviceAnswers, WaiterReturns, CloseAttempt
<1>5. ~Restart
  BY DEF Restart
<1>6. UNCHANGED vars => pc' = pc /\ using' = using
  BY DEF vars
<1> QED
  BY <1>1, <1>2, <1>3, <1>4, <1>5, <1>6, NextCases DEF Reading

LEMMA CredentialStep ==
  /\ TypeOK /\ AttemptsInv /\ ChangesExclude /\ TurnKeepsCredential /\ [Next]_vars
  => TurnKeepsCredential'
<1> SUFFICES ASSUME TypeOK, AttemptsInv, ChangesExclude, TurnKeepsCredential, [Next]_vars,
                    spawnFailures' = 0, NEW d \in Caller, pc'[d] \in {"queue", "working"}
             PROVE  using'[d] = ActiveMethod(account')
  BY DEF TurnKeepsCredential, ActiveMethod
<1>1. spawnFailures = 0
  BY FailuresStay
<1>2. pc[d] \in Reading
  BY TurnsMove
<1>3. account' = account
  <2>1. ASSUME account' # account PROVE FALSE
    <3>1. Writers # {}
      BY <1>1, <2>1, AccountMoves
    <3>2. readers = 0
      BY <1>1, <3>1 DEF ChangesExclude
    <3> QED
      BY <1>2, <3>2, NobodyReads
  <2> QED
    BY <2>1
<1>4. CASE using'[d] = ActiveMethod(account)
  BY <1>3, <1>4
<1>5. CASE pc[d] \in {"queue", "working"} /\ using'[d] = using[d]
  <2>1. using[d] = ActiveMethod(account)
    BY <1>1, <1>5 DEF TurnKeepsCredential
  <2> QED
    BY <1>3, <1>5, <2>1
<1> QED
  BY <1>4, <1>5, TurnsMove

LEMMA ChatStep == TypeOK /\ ChatOK /\ [Next]_vars => ChatOK'
<1> SUFFICES ASSUME TypeOK, ChatOK, [Next]_vars, NEW d \in Caller,
                    pc'[d] = "working", using'[d] = "chatgpt"
             PROVE  chat' = d
  BY DEF ChatOK
<1> USE DEF TypeOK, DataOK
<1>1. ASSUME pc[d] = "working", using'[d] = using[d], chat' = chat PROVE chat' = d
  BY <1>1 DEF ChatOK
<1>2. ASSUME NEW c \in Caller, AdmitTurn(c) PROVE chat' = d
  <2>1. CASE d # c
    BY <1>1, <1>2, <2>1 DEF AdmitTurn, Goes
  <2>2. CASE d = c
    BY <1>2, <2>2 DEF AdmitTurn, Goes, Queues, Configured
  <2> QED
    BY <2>1, <2>2
<1>3. ASSUME NEW c \in Caller, TakeChatgptTurn(c) PROVE chat' = d
  BY <1>3, GateConstants DEF TakeChatgptTurn, Goes, ChatOK
<1>4. ASSUME NEW c \in Caller, EndTurn(c) PROVE chat' = d
  BY <1>4 DEF EndTurn, Goes, ChatOK
<1>5. ASSUME NEW c \in Caller,
             \/ BeginTurn(c) \/ EnterCheck(c) \/ FinishCheck(c) \/ AwaitWrite(c) \/ EnterWrite(c) \/ EnsureReady(c)
             \/ EnterTurn(c) \/ RequestChange(c) \/ ChangeEnds(c)
      PROVE  chat' = d
  <2>1. pc[d] = "working" /\ using' = using /\ chat' = chat
    BY <1>5 DEF BeginTurn, EnterCheck, FinishCheck, AwaitWrite, EnterWrite, EnsureReady, EnterTurn,
                RequestChange, ChangeEnds, Request, Goes
  <2> QED
    BY <1>1, <2>1
<1>6. ASSUME NEW c \in Caller,
             \/ \E k \in Command : StartDevice(c, k)
             \/ BeginDevice(c) \/ OpenDevice(c) \/ SpawnWaiter(c) \/ RequestCancel(c)
             \/ CancelHandle(c) \/ FinishCancel(c) \/ CloseCancelled(c)
      PROVE  chat' = d
  <2>1. pc[d] = "working" /\ using' = using /\ chat' = chat
    BY <1>6 DEF StartDevice, BeginDevice, OpenDevice, SpawnWaiter, RequestCancel, CancelHandle,
                FinishCancel, CloseCancelled, Request, Done, Goes
  <2> QED
    BY <1>1, <2>1
<1>7. ASSUME NEW i \in Nat, DeviceAnswers(i) \/ WaiterReturns(i) \/ CloseAttempt(i)
      PROVE  chat' = d
  BY <1>1, <1>7 DEF DeviceAnswers, WaiterReturns, CloseAttempt
<1>8. ~Restart
  BY DEF Restart
<1>9. UNCHANGED vars => chat' = d
  BY <1>1 DEF vars
<1> QED
  BY <1>2, <1>3, <1>4, <1>5, <1>6, <1>7, <1>8, <1>9, NextCases

-----------------------------------------------------------------------------
(* The refinement: who has the credential *)

\* Who queues was admitted under a ChatGPT account.
QueueOK == \A c \in Caller : pc[c] = "queue" => using[c] = "chatgpt"

LEMMA QueueStep == TypeOK /\ QueueOK /\ [Next]_vars => QueueOK'
<1> SUFFICES ASSUME TypeOK, QueueOK, [Next]_vars, NEW d \in Caller, pc'[d] = "queue"
             PROVE  using'[d] = "chatgpt"
  BY DEF QueueOK
<1> USE DEF TypeOK, DataOK
<1>1. ASSUME pc[d] = "queue", using'[d] = using[d] PROVE using'[d] = "chatgpt"
  BY <1>1 DEF QueueOK
<1>2. ASSUME NEW c \in Caller, AdmitTurn(c) PROVE using'[d] = "chatgpt"
  <2>1. CASE d # c
    BY <1>1, <1>2, <2>1 DEF AdmitTurn, Goes
  <2>2. CASE d = c
    BY <1>2, <2>2 DEF AdmitTurn, Goes, Queues
  <2> QED
    BY <2>1, <2>2
<1>3. ASSUME NEW c \in Caller,
             \/ BeginTurn(c) \/ EnterCheck(c) \/ FinishCheck(c) \/ AwaitWrite(c) \/ EnterWrite(c) \/ EnsureReady(c)
             \/ EnterTurn(c) \/ TakeChatgptTurn(c) \/ EndTurn(c) \/ RequestChange(c) \/ ChangeEnds(c)
      PROVE  using'[d] = "chatgpt"
  <2>1. pc[d] = "queue" /\ using'[d] = using[d]
    BY <1>3 DEF BeginTurn, EnterCheck, FinishCheck, AwaitWrite, EnterWrite, EnsureReady, EnterTurn,
                TakeChatgptTurn, EndTurn, RequestChange, ChangeEnds, Request, Goes
  <2> QED
    BY <1>1, <2>1
<1>4. ASSUME NEW c \in Caller,
             \/ \E k \in Command : StartDevice(c, k)
             \/ BeginDevice(c) \/ OpenDevice(c) \/ SpawnWaiter(c) \/ RequestCancel(c)
             \/ CancelHandle(c) \/ FinishCancel(c) \/ CloseCancelled(c)
      PROVE  using'[d] = "chatgpt"
  <2>1. pc[d] = "queue" /\ using'[d] = using[d]
    BY <1>4 DEF StartDevice, BeginDevice, OpenDevice, SpawnWaiter, RequestCancel, CancelHandle,
                FinishCancel, CloseCancelled, Request, Done, Goes
  <2> QED
    BY <1>1, <2>1
<1>5. ASSUME NEW i \in Nat, DeviceAnswers(i) \/ WaiterReturns(i) \/ CloseAttempt(i)
      PROVE  using'[d] = "chatgpt"
  BY <1>1, <1>5 DEF DeviceAnswers, WaiterReturns, CloseAttempt
<1>6. ~Restart
  BY DEF Restart
<1>7. UNCHANGED vars => using'[d] = "chatgpt"
  BY <1>1 DEF vars
<1> QED
  BY <1>2, <1>3, <1>4, <1>5, <1>6, <1>7, NextCases

\* A step that touches no turn: the credential changes, if at all, under nobody.
LEMMA ChangeStep ==
  ASSUME GateInv, [Next]_vars, spawnFailures' = 0, Admitted' = Admitted, AtWork' = AtWork
  PROVE  Pool!PoolNext \/ account' = account
<1>1. spawnFailures = 0
  BY FailuresStay DEF GateInv
<1>2. ASSUME account' # account PROVE Pool!PoolNext
  <2>1. Writers # {}
    BY <1>1, <1>2, AccountMoves DEF GateInv
  <2>2. readers = 0
    BY <1>1, <2>1 DEF GateInv, ChangesExclude
  <2>3. Admitted = {}
    BY <2>2, NobodyReads DEF GateInv, Admitted, Reading
  <2>4. Pool!Change
    BY <2>3 DEF Pool!Change
  <2> QED
    BY <1>1, <2>4 DEF Pool!PoolNext
<1> QED
  BY <1>2

PoolStep == [Pool!PoolNext]_<<account, Admitted, AtWork, spawnFailures = 0>>

\* A caller that is not in a turn, before or after, is no concern of the others.
LEMMA TurnsUntouched ==
  ASSUME GateInv, [Next]_vars,
         \A d \in Caller : pc'[d] = pc[d] \/ {pc[d], pc'[d]} \cap {"queue", "working"} = {}
  PROVE  PoolStep
<1>1. Admitted' = Admitted /\ AtWork' = AtWork
  BY Zenon DEF Admitted, AtWork
<1>2. CASE spawnFailures' = 0
  <2>1. spawnFailures = 0
    BY <1>2, FailuresStay DEF GateInv
  <2> QED
    BY <1>1, <1>2, <2>1, ChangeStep DEF PoolStep
<1>3. CASE spawnFailures' # 0
  BY <1>3 DEF PoolStep, Pool!PoolNext
<1> QED
  BY <1>2, <1>3

\* A turn is admitted with the credential there is.
LEMMA AdmitStep ==
  ASSUME GateInv, NEW c \in Caller, AdmitTurn(c)
  PROVE  PoolStep
<1> USE DEF TypeOK, DataOK, GateInv
<1>1. PICK status \in Credential \cup {"unavailable"} :
        /\ ReadStatus(status)
        /\ IF Configured(status)
           THEN Goes(c, IF Queues(status) THEN "queue" ELSE "working")
           ELSE Goes(c, "idle")
  BY DEF AdmitTurn
<1>2. pc[c] = "entering" /\ account' = account /\ spawnFailures' = spawnFailures
  BY DEF AdmitTurn
<1>3. CASE ~Configured(status)
  <2>1. pc' = [pc EXCEPT ![c] = "idle"]
    BY <1>1, <1>3 DEF Goes
  <2>2. \A d \in Caller : pc'[d] = pc[d] \/ {pc[d], pc'[d]} \cap {"queue", "working"} = {}
    BY <1>2, <2>1
  <2>3. Admitted' = Admitted /\ AtWork' = AtWork
    BY <2>2 DEF Admitted, AtWork
  <2> QED
    BY <1>2, <2>3 DEF PoolStep
<1>4. CASE Configured(status)
  <2>1. status = account /\ account # "none"
    BY <1>1, <1>4 DEF ReadStatus, Configured, ActiveMethod
  <2>2. pc' = [pc EXCEPT ![c] = IF ActiveMethod(account) = "chatgpt" THEN "queue" ELSE "working"]
    BY <1>1, <1>4, <2>1 DEF Goes, Queues
  <2>3. Admitted' = Admitted \cup {c} /\ c \notin Admitted
    BY <1>2, <2>2 DEF Admitted
  <2>4. AtWork' = IF account \in {m \in Credential : ActiveMethod(m) = "chatgpt"} THEN AtWork ELSE AtWork \cup {c}
    BY <1>2, <2>2 DEF AtWork
  <2>5. Pool!Admit(c)
    BY <1>2, <2>1, <2>3, <2>4 DEF Pool!Admit
  <2> QED
    BY <1>2, <2>5 DEF PoolStep, Pool!PoolNext
<1> QED
  BY <1>3, <1>4

LEMMA TakeStep ==
  ASSUME GateInv, QueueOK, NEW c \in Caller, TakeChatgptTurn(c)
  PROVE  PoolStep
<1> USE DEF TypeOK, DataOK, GateInv
<1>1. /\ pc[c] = "queue" /\ chat = Nobody /\ pc' = [pc EXCEPT ![c] = "working"]
      /\ account' = account /\ spawnFailures' = spawnFailures
  BY DEF TakeChatgptTurn, Goes, counts
<1>2. Admitted' = Admitted /\ c \in Admitted /\ AtWork' = AtWork \cup {c}
  BY <1>1 DEF Admitted, AtWork
<1>3. CASE spawnFailures = 0
  <2>1. ActiveMethod(account) = "chatgpt"
    BY <1>1, <1>3 DEF QueueOK, TurnKeepsCredential
  <2>2. AtWork = {}
    <3> SUFFICES ASSUME NEW d \in Caller, pc[d] = "working" PROVE FALSE
      BY DEF AtWork
    <3>1. chat = d
      BY <1>3, <2>1 DEF TurnKeepsCredential, ChatOK
    <3> QED
      BY <1>1, <3>1, GateConstants
  <2>3. Pool!Begin(c)
    BY <1>1, <1>2, <2>1, <2>2 DEF Pool!Begin
  <2> QED
    BY <1>1, <2>3 DEF PoolStep, Pool!PoolNext
<1>4. CASE spawnFailures # 0
  BY <1>1, <1>4 DEF PoolStep, Pool!PoolNext
<1> QED
  BY <1>3, <1>4

LEMMA EndStep ==
  ASSUME GateInv, NEW c \in Caller, EndTurn(c)
  PROVE  PoolStep
<1> USE DEF TypeOK, DataOK, GateInv
<1>1. /\ pc[c] = "working" /\ pc' = [pc EXCEPT ![c] = "idle"]
      /\ account' = account /\ spawnFailures' = spawnFailures
  BY DEF EndTurn, Goes, counts
<1>2. Admitted' = Admitted \ {c} /\ AtWork' = AtWork \ {c} /\ c \in AtWork
  BY <1>1 DEF Admitted, AtWork
<1>3. Pool!Finish(c)
  BY <1>1, <1>2 DEF Pool!Finish
<1> QED
  BY <1>1, <1>3 DEF PoolStep, Pool!PoolNext

LEMMA StepsPool ==
  ASSUME GateInv, QueueOK, [Next]_vars
  PROVE  PoolStep
<1> USE DEF TypeOK, DataOK, GateInv
<1>1. ASSUME NEW c \in Caller,
             \/ BeginTurn(c) \/ EnterCheck(c) \/ FinishCheck(c) \/ AwaitWrite(c) \/ EnterWrite(c) \/ EnsureReady(c)
             \/ EnterTurn(c) \/ RequestChange(c) \/ ChangeEnds(c)
      PROVE  PoolStep
  <2>1. \A d \in Caller : pc'[d] = pc[d] \/ {pc[d], pc'[d]} \cap {"queue", "working"} = {}
    BY <1>1 DEF BeginTurn, EnterCheck, FinishCheck, AwaitWrite, EnterWrite, EnsureReady, EnterTurn,
                RequestChange, ChangeEnds, Request, Goes
  <2> QED
    BY <2>1, TurnsUntouched
<1>2. ASSUME NEW c \in Caller,
             \/ \E k \in Command : StartDevice(c, k)
             \/ BeginDevice(c) \/ OpenDevice(c) \/ SpawnWaiter(c) \/ RequestCancel(c)
             \/ CancelHandle(c) \/ FinishCancel(c) \/ CloseCancelled(c)
      PROVE  PoolStep
  <2>1. \A d \in Caller : pc'[d] = pc[d] \/ {pc[d], pc'[d]} \cap {"queue", "working"} = {}
    BY <1>2 DEF StartDevice, BeginDevice, OpenDevice, SpawnWaiter, RequestCancel, CancelHandle,
                FinishCancel, CloseCancelled, Request, Done, Goes
  <2> QED
    BY <2>1, TurnsUntouched
<1>3. ASSUME NEW i \in Nat, DeviceAnswers(i) \/ WaiterReturns(i) \/ CloseAttempt(i)
      PROVE  PoolStep
  <2>1. pc' = pc
    BY <1>3 DEF DeviceAnswers, WaiterReturns, CloseAttempt
  <2> QED
    BY <2>1, TurnsUntouched
<1>4. CASE Restart
  <2>1. Admitted' = {} /\ AtWork' = {} /\ account' = account /\ spawnFailures' = spawnFailures
    BY <1>4 DEF Restart, Admitted, AtWork
  <2>2. Pool!StopAll
    BY <2>1 DEF Pool!StopAll
  <2> QED
    BY <2>1, <2>2 DEF PoolStep, Pool!PoolNext
<1>5. CASE UNCHANGED vars
  BY <1>5 DEF vars, counts, PoolStep, Admitted, AtWork
<1> QED
  BY <1>1, <1>2, <1>3, <1>4, <1>5, AdmitStep, TakeStep, EndStep, NextCases

-----------------------------------------------------------------------------
(* Theorems *)

\* Every variable has its type, the gate counts its readers, and a turn with
\* the ChatGPT lock is at work.
THEOREM TypeCorrect == Spec => []TypeOK
<1>1. Init => TypeOK
  BY InitType
<1>2. TypeOK /\ [Next]_vars => TypeOK'
  BY TypeStep
<1> QED
  BY <1>1, <1>2, PTL DEF Spec

\* The inductive invariant behind the theorems below.
LEMMA GateInvariant == Spec => []GateInv
<1>1. Init => GateInv
  <2> SUFFICES ASSUME Init PROVE GateInv
    OBVIOUS
  <2>1. Writers = {} /\ writer = FALSE
    BY DEF Init, Writers, Changing
  <2>2. AttemptsInv /\ ChatOK /\ TurnKeepsCredential
    BY DEF Init, AttemptsInv, SpawningOK, ClosingOK, FailedOK, OpenOK, ChatOK, TurnKeepsCredential
  <2> QED
    BY <2>1, <2>2, InitType DEF GateInv, ChangesExclude
<1>2. GateInv /\ [Next]_vars => GateInv'
  BY TypeStep, AttemptsStep, ExclusionStep, CredentialStep, ChatStep DEF GateInv
<1> QED
  BY <1>1, <1>2, PTL DEF Spec

\* Login and logout are exclusive, of each other and of turns, and the gate's
\* writer is held exactly while somebody changes the credential.
THEOREM ChangesAreExclusive == Spec => []ChangesExclude
<1>1. GateInv => ChangesExclude
  BY DEF GateInv
<1> QED
  BY <1>1, GateInvariant, PTL

\* The credential a turn was admitted with is there until the turn ends.
THEOREM CredentialStable == Spec => []TurnKeepsCredential
<1>1. GateInv => TurnKeepsCredential
  BY DEF GateInv
<1> QED
  BY <1>1, GateInvariant, PTL

\* ChatGPT-backed turns are serialized: those at work hold the one lock.
THEOREM ChatgptTurnsSerialized == Spec => []OneChatgptTurn
<1>1. GateInv => OneChatgptTurn
  BY DEF GateInv, TurnKeepsCredential, ChatOK, OneChatgptTurn
<1> QED
  BY <1>1, GateInvariant, PTL

\* While account reads succeed, auto mode never replaces a ChatGPT login.
THEOREM LoginPreserved == Spec => PreservesLoginWhenRead
<1>1. TypeOK /\ [Next]_vars
        => [config.mode = "auto" /\ account = "chatgpt" /\ account' # "chatgpt"
              => unavailable' > 0 \/ \E c \in Caller : pc[c] \in {"key", "token", "logout"}]_vars
  <2> SUFFICES ASSUME TypeOK, Next, config.mode = "auto", account = "chatgpt", account' # "chatgpt"
               PROVE  unavailable' > 0 \/ \E c \in Caller : pc[c] \in {"key", "token", "logout"}
    OBVIOUS
  <2>1. ASSUME NEW c \in Caller, EnsureReady(c) PROVE unavailable' > 0
    <3>1. PICK status : ReadStatus(status) /\ LogIn(LoginNeeded(status))
      BY <2>1 DEF EnsureReady
    <3>2. CASE status = account
      <4>1. LoginNeeded(status) = "keep"
        BY <3>2 DEF LoginNeeded, CachedChatgpt, Configured, ActiveMethod, TypeOK, DataOK
      <4> QED
        BY <3>1, <4>1 DEF LogIn, CanLogin
    <3>3. CASE unavailable' = unavailable + 1
      BY <3>3 DEF TypeOK, DataOK
    <3> QED
      BY <3>1, <3>2, <3>3 DEF ReadStatus
  <2>2. ASSUME NEW c \in Caller, ChangeEnds(c) PROVE pc[c] \in {"key", "token", "logout"}
    BY <2>2 DEF ChangeEnds
  <2>3. ASSUME NEW c \in Caller,
               \/ BeginTurn(c) \/ EnterCheck(c) \/ FinishCheck(c) \/ AwaitWrite(c) \/ EnterWrite(c)
               \/ EnterTurn(c) \/ AdmitTurn(c) \/ TakeChatgptTurn(c) \/ EndTurn(c)
               \/ RequestChange(c)
        PROVE  FALSE
    BY <2>3 DEF BeginTurn, EnterCheck, FinishCheck, AwaitWrite, EnterWrite, EnterTurn, AdmitTurn,
                TakeChatgptTurn, EndTurn, RequestChange
  <2>4. ASSUME NEW c \in Caller,
               \/ \E k \in Command : StartDevice(c, k)
               \/ BeginDevice(c) \/ OpenDevice(c) \/ SpawnWaiter(c) \/ RequestCancel(c)
               \/ CancelHandle(c) \/ FinishCancel(c) \/ CloseCancelled(c)
        PROVE  FALSE
    BY <2>4 DEF StartDevice, BeginDevice, OpenDevice, SpawnWaiter, RequestCancel, CancelHandle,
                FinishCancel, CloseCancelled
  <2>5. ASSUME NEW i \in Nat, DeviceAnswers(i) \/ WaiterReturns(i) \/ CloseAttempt(i)
        PROVE  FALSE
    BY <2>5 DEF DeviceAnswers, WaiterReturns, CloseAttempt
  <2>6. ~Restart
    BY DEF Restart
  <2> QED
    BY <2>1, <2>2, <2>3, <2>4, <2>5, <2>6, NextCases
<1> QED
  BY <1>1, TypeCorrect, PTL DEF Spec, PreservesLoginWhenRead

\* Turns can trust their credential: it is there when they are admitted, theirs
\* alone if it serves one turn at a time, and changed under nobody.
THEOREM ImplementsSharedCredential == Spec => CredentialContract
<1>1. Init => Pool!PoolInit /\ QueueOK
  BY DEF Init, Pool!PoolInit, QueueOK, Admitted, AtWork
<1>2. GateInv /\ QueueOK /\ [Next]_vars => QueueOK'
  BY QueueStep DEF GateInv
<1>3. GateInv /\ QueueOK /\ [Next]_vars => [Pool!PoolNext]_(Pool!poolVars)
  BY StepsPool DEF PoolStep, Pool!poolVars
<1> QED
  BY <1>1, <1>2, <1>3, GateInvariant, PTL DEF Spec, CredentialContract, Pool!PoolSpec

=============================================================================
