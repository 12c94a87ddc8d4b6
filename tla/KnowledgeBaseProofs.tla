------------------------- MODULE KnowledgeBaseProofs -------------------------
(* What holds of the file knowledge base for any number of runs, kinds, slugs and
   ids: types, the chain of parents, the links of a note, unique ids, and that what
   the creator makes satisfies the validator. Files are never removed, so a parent
   that was found stays; the danger is in the older copies of notes that runs write
   back, about which BufferOK says what NotesOK says of the files. *)
EXTENDS KnowledgeBase, SequenceTheorems, TLAPS

(* Types *)

FilesType  == DOMAIN files \subseteq Path /\ \A p \in DOMAIN files : files[p] \in Note
BufferType == [path : Path, note : Note] \cup {NoBuffer}
RunsType ==
  /\ pc \in [Writer -> {"idle", "write", "read", "edit"}]
  /\ req \in [Writer -> Request \cup {NoRequest}]
  /\ id \in [Writer -> Name \cup {NoName}]
  /\ todo \in [Writer -> Seq(Name)]
  /\ buffer \in [Writer -> BufferType]
HistoryType ==
  /\ conflict \in BOOLEAN /\ crashed \in BOOLEAN
  /\ loose \in Nat /\ created \in Nat /\ hand \subseteq Path

\* What a run has at each of its steps.
Equipped(w) ==
  /\ pc[w] = "write" =>
       /\ req[w] \in Request
       /\ id[w] \in Kind \X (1..MaxId) /\ id[w][1] = req[w].kind
  /\ pc[w] \in {"read", "edit"} => id[w] \in Name /\ todo[w] # <<>>
  /\ pc[w] = "edit" => buffer[w] \in [path : Path, note : Note]

TypeInv == FilesType /\ RunsType /\ HistoryType /\ \A w \in Writer : Equipped(w)

LEMMA TypeInvTypes == TypeInv <=> TypeOK /\ \A w \in Writer : Equipped(w)
  BY DEF TypeInv, TypeOK, FilesType, RunsType, HistoryType, BufferType

\* The targets of a request are a sequence of notes.
LEMMA TargetsType ==
  ASSUME NEW r \in Request
  PROVE  BacklinkTargets(r) \in Seq(Name)
<1> DEFINE one(n) == IF n = NoName THEN <<>> ELSE <<n>>
<1>1. \A n \in Name \cup {NoName} : one(n) \in Seq(Name)
  OBVIOUS
<1>2. /\ r.kind \in Kinds /\ r.extra \in Name \cup {NoName}
      /\ \A f \in Field : r.refs[f] \in Name \cup {NoName}
  BY DEF Request
<1>3. \A s, t \in Seq(Name) : s \o t \in Seq(Name)
  OBVIOUS
<1> DEFINE parents ==
      CASE r.kind = "E"  -> one(r.refs["hypothesis"])
        [] r.kind = "F"  -> one(r.refs["hypothesis"]) \o one(r.refs["experiment"])
        [] r.kind = "CR" -> one(r.refs["target"])
        [] r.kind = "SR" -> one(r.refs["review"])
        [] OTHER         -> <<>>
<1>4. /\ one(r.refs["hypothesis"]) \in Seq(Name) /\ one(r.refs["experiment"]) \in Seq(Name)
      /\ one(r.refs["target"]) \in Seq(Name) /\ one(r.refs["review"]) \in Seq(Name)
      /\ one(r.extra) \in Seq(Name) /\ <<>> \in Seq(Name)
  BY <1>1, <1>2 DEF Field
<1> HIDE DEF one
<1>5. parents \in Seq(Name)
  BY <1>3, <1>4
<1> HIDE DEF parents
<1>6. parents \o one(r.extra) \in Seq(Name)
  BY <1>3, <1>4, <1>5
<1>. QED  BY <1>6 DEF BacklinkTargets, one, parents

\* A new note and an extended one are notes.
LEMMA LinksType ==
  ASSUME NEW kind \in Kind, NEW refs \in [Field -> Name \cup {NoName}],
         NEW extra \in Name \cup {NoName}
  PROVE  LinksOf(kind, refs, extra) \subseteq Name
<1>1. ParentFields(kind) \subseteq Field
  BY DEF ParentFields, Field, Kind
<1>2. Parents(kind, refs) \subseteq Name
  BY <1>1 DEF Parents
<1>. QED  BY <1>2 DEF LinksOf, Name, SpecialNotes, Active, Challenge

LEMMA NewNoteType ==
  ASSUME KnowledgeBaseAssumption, NEW r \in Request
  PROVE  NewNote(r) \in Note
<1>1. r.kind \in Kind /\ r.refs \in [Field -> Name \cup {NoName}] /\ r.extra \in Name \cup {NoName}
  BY DEF Request, KnowledgeBaseAssumption
<1>. QED  BY <1>1, LinksType DEF NewNote, Note

LEMMA WithLinkType ==
  ASSUME NEW note \in Note, NEW name \in Name
  PROVE  WithLink(note, name) \in Note
  BY DEF WithLink, Note

\* The rest of a run, whatever it had to do before.
LEMMA DoneKeepsRuns ==
  ASSUME RunsType, NEW w \in Writer, NEW rest \in Seq(Name), Done(w, rest),
         id[w] \in Name \/ rest = <<>>,
         buffer' = buffer \/ buffer' = [buffer EXCEPT ![w] = NoBuffer],
         \A v \in Writer : Equipped(v)
  PROVE  RunsType' /\ \A v \in Writer : Equipped(v)'
<1> USE DEF RunsType, Done
<1>1. /\ todo' \in [Writer -> Seq(Name)]
      /\ pc' \in [Writer -> {"idle", "write", "read", "edit"}]
      /\ req' \in [Writer -> Request \cup {NoRequest}]
      /\ id' \in [Writer -> Name \cup {NoName}]
  OBVIOUS
<1>2. buffer' \in [Writer -> BufferType]
  BY DEF BufferType
<1>3. ASSUME NEW v \in Writer, v # w PROVE Equipped(v)'
  <2>1. /\ pc'[v] = pc[v] /\ req'[v] = req[v] /\ id'[v] = id[v] /\ todo'[v] = todo[v]
        /\ buffer'[v] = buffer[v]
    BY <1>3
  <2>2. Equipped(v)
    BY <1>3
  <2>. QED  BY <2>1, <2>2 DEF Equipped
<1>4. Equipped(w)'
  <2>1. CASE rest = <<>>
    BY <2>1 DEF Equipped
  <2>2. CASE rest # <<>>
    <3>1. pc'[w] = "read" /\ id'[w] = id[w] /\ todo'[w] = rest
      BY <2>2
    <3>. QED  BY <3>1, <2>2 DEF Equipped
  <2>. QED  BY <2>1, <2>2
<1>. QED  BY <1>1, <1>2, <1>3, <1>4

LEMMA BeginType ==
  ASSUME KnowledgeBaseAssumption, TypeInv, NEW w \in Writer, NEW r \in Request, Begin(w, r)
  PROVE  TypeInv'
<1> USE DEF TypeInv
<1>1. PICK n \in 1..MaxId : id' = [id EXCEPT ![w] = <<r.kind, n>>]
  BY DEF Begin
<1>2. r.kind \in Kind
  BY DEF Request, KnowledgeBaseAssumption
<1>3. <<r.kind, n>> \in Kind \X (1..MaxId) /\ <<r.kind, n>> \in Name
  BY <1>2 DEF Name
<1>4. RunsType'
  BY <1>1, <1>3, TargetsType DEF Begin, RunsType
<1>5. HistoryType'
  <2>1. conflict' \in BOOLEAN
    BY DEF Begin, Conflicts, HistoryType
  <2>2. loose' \in Nat /\ created' \in Nat
    BY DEF Begin, HistoryType
  <2>. QED  BY <2>1, <2>2 DEF Begin, HistoryType
<1>6. ASSUME NEW v \in Writer PROVE Equipped(v)'
  <2>1. CASE v = w
    BY <2>1, <1>1, <1>3 DEF Begin, RunsType, Equipped
  <2>2. CASE v # w
    BY <2>2, <1>1 DEF Begin, RunsType, Equipped
  <2>. QED  BY <2>1, <2>2
<1>. QED  BY <1>4, <1>5, <1>6 DEF Begin, FilesType

LEMMA CreateType ==
  ASSUME KnowledgeBaseAssumption, TypeInv, NEW w \in Writer, Create(w)
  PROVE  TypeInv'
<1>1. PICK k \in Kinds, s \in Slug, x \in (Related \cap Known) \cup {NoName} :
        \E refs \in RefsOver(k, Known) :
          Begin(w, [kind |-> k, slug |-> s, refs |-> refs, extra |-> x])
  BY DEF Create
<1>2. PICK refs \in RefsOver(k, Known) :
        Begin(w, [kind |-> k, slug |-> s, refs |-> refs, extra |-> x])
  BY <1>1
<1>3. Known \subseteq Name
  BY DEF TypeInv, FilesType, Known, Path, Name
<1>4. refs \in [Field -> Name \cup {NoName}]
  BY <1>2, <1>3 DEF RefsOver
<1>5. [kind |-> k, slug |-> s, refs |-> refs, extra |-> x] \in Request
  BY <1>3, <1>4 DEF Request
<1>. QED  BY <1>2, <1>5, BeginType

\* A write of a note keeps the types of the files.
LEMMA WriteNoteType ==
  ASSUME FilesType, NEW path \in Path, NEW note \in Note,
         files' = [p \in DOMAIN files \cup {path} |-> IF p = path THEN note ELSE files[p]]
  PROVE  FilesType'
  BY DEF FilesType

LEMMA WriteArtifactType ==
  ASSUME KnowledgeBaseAssumption, TypeInv, NEW w \in Writer, WriteArtifact(w)
  PROVE  TypeInv'
<1> USE DEF TypeInv
<1>1. /\ pc[w] = "write" /\ req[w] \in Request /\ id[w] \in Kind \X (1..MaxId)
      /\ Done(w, todo[w]) /\ todo[w] \in Seq(Name)
  BY DEF WriteArtifact, Equipped, RunsType
<1>2. RunsType' /\ \A v \in Writer : Equipped(v)'
  <2>1. id[w] \in Name
    BY <1>1 DEF Name
  <2>. QED  BY <1>1, <2>1, DoneKeepsRuns DEF WriteArtifact
<1>3. <<id[w], req[w].slug>> \in Path
  BY <1>1 DEF Path, Request
<1>4. FilesType'
  BY <1>1, <1>3, NewNoteType, WriteNoteType DEF WriteArtifact
<1>. QED  BY <1>2, <1>4 DEF WriteArtifact, HistoryType

LEMMA ReadParentType ==
  ASSUME TypeInv, NEW w \in Writer, ReadParent(w)
  PROVE  TypeInv'
<1> USE DEF TypeInv
<1>1. pc[w] = "read" /\ id[w] \in Name /\ todo[w] \in Seq(Name) /\ todo[w] # <<>>
  BY DEF ReadParent, Equipped, RunsType
<1>2. PICK p \in PathsOf(Head(todo[w])) :
        /\ IsFirst(p)
        /\ IF id[w] \in files[p].links
           THEN Done(w, Tail(todo[w])) /\ UNCHANGED buffer
           ELSE /\ buffer' = [buffer EXCEPT ![w] = [path |-> p, note |-> files[p]]]
                /\ pc' = [pc EXCEPT ![w] = "edit"]
                /\ UNCHANGED <<todo, req, id>>
  BY DEF ReadParent
<1>3. RunsType' /\ \A v \in Writer : Equipped(v)'
  <2>1. CASE id[w] \in files[p].links
    <3>1. Done(w, Tail(todo[w])) /\ buffer' = buffer
      BY <2>1, <1>2
    <3>2. Tail(todo[w]) \in Seq(Name)
      BY <1>1
    <3>. QED  BY <3>1, <3>2, <1>1, DoneKeepsRuns
  <2>2. CASE id[w] \notin files[p].links
    <3>1. [path |-> p, note |-> files[p]] \in [path : Path, note : Note]
      BY <1>2 DEF PathsOf, FilesType
    <3>2. RunsType'
      BY <2>2, <1>2, <3>1 DEF RunsType, BufferType
    <3>3. ASSUME NEW v \in Writer PROVE Equipped(v)'
      BY <2>2, <1>1, <1>2, <3>1 DEF RunsType, Equipped
    <3>. QED  BY <3>2, <3>3
  <2>. QED  BY <2>1, <2>2
<1>. QED  BY <1>3 DEF ReadParent, FilesType, HistoryType

LEMMA WriteParentType ==
  ASSUME TypeInv, NEW w \in Writer, WriteParent(w)
  PROVE  TypeInv'
<1> USE DEF TypeInv
<1>1. /\ id[w] \in Name /\ todo[w] \in Seq(Name) /\ todo[w] # <<>>
      /\ buffer[w] \in [path : Path, note : Note]
  BY DEF WriteParent, Equipped, RunsType
<1>2. Tail(todo[w]) \in Seq(Name)
  BY <1>1
<1>3. RunsType' /\ \A v \in Writer : Equipped(v)'
  BY <1>1, <1>2, DoneKeepsRuns DEF WriteParent
<1>4. WithLink(buffer[w].note, id[w]) \in Note
  BY <1>1, WithLinkType
<1>5. FilesType'
  BY <1>4 DEF WriteParent, FilesType
<1>. QED  BY <1>3, <1>5 DEF WriteParent, HistoryType

LEMMA CrashType ==
  ASSUME TypeInv, NEW w \in Writer, Crash(w)
  PROVE  TypeInv'
<1> USE DEF TypeInv
<1>1. RunsType' /\ \A v \in Writer : Equipped(v)'
  <2>1. <<>> \in Seq(Name)
    OBVIOUS
  <2>. QED  BY <2>1, DoneKeepsRuns DEF Crash
<1>. QED  BY <1>1 DEF Crash, FilesType, HistoryType

LEMMA AgentWritesType ==
  ASSUME KnowledgeBaseAssumption, TypeInv, AgentWrites
  PROVE  TypeInv'
<1> USE DEF TypeInv
<1>1. PICK k \in Kinds \cap {"E", "F"}, n \in 1..MaxId, s \in Slug :
        \E refs \in RefsOver(k, {"H", "E"} \X (1..MaxId)) : WriteByHand(<<<<k, n>>, s>>, refs)
  BY DEF AgentWrites
<1>2. PICK refs \in RefsOver(k, {"H", "E"} \X (1..MaxId)) : WriteByHand(<<<<k, n>>, s>>, refs)
  BY <1>1
<1> DEFINE path == <<<<k, n>>, s>>
           note == [refs |-> refs, plain |-> TRUE, links |-> LinksOf(path[1][1], refs, NoName)]
<1>3. k \in Kind /\ path \in Path /\ path[1][1] = k
  BY DEF Path, Kind
<1>4. refs \in [Field -> Name \cup {NoName}]
  BY DEF RefsOver, Name, Kind
<1>5. note \in Note
  BY <1>3, <1>4, LinksType DEF Note
<1>6. files' = [p \in DOMAIN files \cup {path} |-> IF p = path THEN note ELSE files[p]]
  BY <1>2 DEF WriteByHand
<1> HIDE DEF note
<1>7. FilesType'
  BY <1>3, <1>5, <1>6, WriteNoteType
<1>8. HistoryType'
  BY <1>2, <1>3 DEF WriteByHand, HistoryType
<1>. QED  BY <1>2, <1>7, <1>8 DEF WriteByHand, RunsType, Equipped

LEMMA InitType == ASSUME KnowledgeBaseAssumption, Init PROVE TypeInv
<1>1. FilesType
  <2>1. SpecialNotes \X {0} \subseteq Path
    BY DEF Path
  <2>2. ASSUME NEW p \in SpecialNotes \X {0}
        PROVE  [NoNote EXCEPT !.links = SpecialNotes \ {p[1]}] \in Note
    BY DEF NoNote, Note, NoRefs, Name
  <2>. QED  BY <2>1, <2>2 DEF Init, FilesType
<1>2. RunsType
  <2>1. todo \in [Writer -> Seq(Name)]
    <3>1. <<>> \in Seq(Name)
      OBVIOUS
    <3>. QED  BY <3>1 DEF Init
  <2>2. buffer \in [Writer -> BufferType]
    BY DEF Init, BufferType
  <2>3. pc \in [Writer -> {"idle", "write", "read", "edit"}]
    BY DEF Init
  <2>4. req \in [Writer -> Request \cup {NoRequest}] /\ id \in [Writer -> Name \cup {NoName}]
    BY DEF Init
  <2>. QED  BY <2>1, <2>2, <2>3, <2>4 DEF RunsType
<1>3. HistoryType
  <2>1. conflict \in BOOLEAN /\ crashed \in BOOLEAN
    BY DEF Init
  <2>2. loose \in Nat /\ created \in Nat
    BY DEF Init
  <2>3. hand \subseteq Path
    BY DEF Init
  <2>. QED  BY <2>1, <2>2, <2>3 DEF HistoryType
<1>4. \A w \in Writer : Equipped(w)
  BY DEF Init, Equipped
<1>. QED  BY <1>1, <1>2, <1>3, <1>4 DEF TypeInv

LEMMA NextType == ASSUME KnowledgeBaseAssumption, TypeInv, [Next]_vars PROVE TypeInv'
<1>1. CASE AgentWrites
  BY <1>1, AgentWritesType
<1>2. ASSUME NEW w \in Writer, Create(w) PROVE TypeInv'
  BY <1>2, CreateType
<1>3. ASSUME NEW w \in Writer, WriteArtifact(w) PROVE TypeInv'
  BY <1>3, WriteArtifactType
<1>4. ASSUME NEW w \in Writer, ReadParent(w) PROVE TypeInv'
  BY <1>4, ReadParentType
<1>5. ASSUME NEW w \in Writer, WriteParent(w) PROVE TypeInv'
  BY <1>5, WriteParentType
<1>6. ASSUME NEW w \in Writer, Crash(w) PROVE TypeInv'
  BY <1>6, CrashType
<1>7. CASE UNCHANGED vars
  BY <1>7 DEF vars, TypeInv, FilesType, RunsType, HistoryType, BufferType, Equipped
<1>. QED  BY <1>1, <1>2, <1>3, <1>4, <1>5, <1>6, <1>7 DEF Next

\* Every variable has its type, and a run at each of its steps what it needs there.
THEOREM TypeCorrect == Spec => []TypeOK
<1>1. Init => TypeInv
  BY KnowledgeBaseAssumption, InitType
<1>2. TypeInv /\ [Next]_vars => TypeInv'
  BY KnowledgeBaseAssumption, NextType
<1>3. TypeInv => TypeOK
  BY TypeInvTypes
<1>. QED  BY <1>1, <1>2, <1>3, PTL DEF Spec

(* The chain and the links *)

\* What both gatekeepers and build_links give a note at a path.
ChainedNote(p, note) ==
  /\ p[1][1] = "E" => Exists(note.refs["hypothesis"])
  /\ p[1][1] = "F" => Exists(note.refs["experiment"])
LinkedNote(p, note) ==
  p[1] \notin SpecialNotes => LinksOf(p[1][1], note.refs, NoName) \subseteq note.links

NotesOK  == \A p \in DOMAIN files : ChainedNote(p, files[p]) /\ LinkedNote(p, files[p])
BufferOK ==
  \A w \in Writer : pc[w] = "edit" =>
    ChainedNote(buffer[w].path, buffer[w].note) /\ LinkedNote(buffer[w].path, buffer[w].note)
RequestOK ==
  \A w \in Writer : pc[w] = "write" =>
    \A f \in Mandatory(req[w].kind) : Exists(req[w].refs[f])

GraphInv == TypeInv /\ NotesOK /\ BufferOK /\ RequestOK

\* Notes are never removed.
LEMMA FilesStay ==
  ASSUME TypeInv, [Next]_vars
  PROVE  DOMAIN files \subseteq DOMAIN files'
<1>1. ASSUME NEW path, NEW refs, WriteByHand(path, refs) PROVE DOMAIN files \subseteq DOMAIN files'
  BY <1>1 DEF WriteByHand
<1>2. CASE AgentWrites
  BY <1>1, <1>2 DEF AgentWrites
<1>3. ASSUME NEW w \in Writer, Create(w) PROVE files' = files
  <2>1. ASSUME NEW r, Begin(w, r) PROVE files' = files
    BY <2>1 DEF Begin
  <2>. QED  BY <1>3, <2>1 DEF Create
<1>4. ASSUME NEW w \in Writer, WriteArtifact(w) PROVE DOMAIN files \subseteq DOMAIN files'
  BY <1>4 DEF WriteArtifact
<1>5. ASSUME NEW w \in Writer, ReadParent(w) \/ Crash(w) PROVE files' = files
  BY <1>5 DEF ReadParent, Crash
<1>6. ASSUME NEW w \in Writer, WriteParent(w) PROVE DOMAIN files \subseteq DOMAIN files'
  BY <1>6 DEF WriteParent
<1>. QED  BY <1>2, <1>3, <1>4, <1>5, <1>6 DEF Next, vars

LEMMA ExistsStays ==
  ASSUME DOMAIN files \subseteq DOMAIN files', NEW name, Exists(name)
  PROVE  Exists(name)'
  BY DEF Exists, PathsOf

LEMMA ChainStays ==
  ASSUME DOMAIN files \subseteq DOMAIN files', NEW p, NEW note, ChainedNote(p, note)
  PROVE  ChainedNote(p, note)'
<1>1. \A name : Exists(name) => Exists(name)'
  BY ExistsStays
<1>. QED  BY <1>1 DEF ChainedNote

LEMMA BeginGraph ==
  ASSUME KnowledgeBaseAssumption, GraphInv, NEW w \in Writer, Create(w)
  PROVE  NotesOK' /\ BufferOK' /\ RequestOK'
<1>1. PICK r : Begin(w, r)
  BY DEF Create
<1>2. /\ files' = files /\ buffer' = buffer
      /\ pc' = [pc EXCEPT ![w] = "write"] /\ req' = [req EXCEPT ![w] = r]
      /\ Accepted(r)
  BY <1>1 DEF Begin
<1>3. pc \in [Writer -> {"idle", "write", "read", "edit"}] /\ DOMAIN req = Writer
  BY DEF GraphInv, TypeInv, RunsType
<1>4. NotesOK'
  BY <1>2 DEF GraphInv, NotesOK, ChainedNote, LinkedNote, Exists, PathsOf
<1>5. BufferOK'
  BY <1>2, <1>3 DEF GraphInv, BufferOK, ChainedNote, LinkedNote, Exists, PathsOf
<1>6. \A f \in Mandatory(r.kind) : Exists(r.refs[f])
  <2>1. Mandatory(r.kind) \subseteq ParentFields(r.kind)
    BY DEF Mandatory
  <2>2. \A f \in Mandatory(r.kind) : r.refs[f] \in ParentSet(r)
    BY <1>2, <2>1 DEF Accepted, ParentSet, Parents
  <2>. QED  BY <1>2, <2>2 DEF Accepted
<1>7. RequestOK'
  BY <1>2, <1>3, <1>6 DEF GraphInv, RequestOK, Exists, PathsOf
<1>. QED  BY <1>4, <1>5, <1>7

\* A note that is written where its kind belongs.
LEMMA WriteNoteGraph ==
  ASSUME NotesOK, DOMAIN files \subseteq DOMAIN files', NEW path, NEW note,
         files' = [p \in DOMAIN files \cup {path} |-> IF p = path THEN note ELSE files[p]],
         ChainedNote(path, note), LinkedNote(path, note)
  PROVE  NotesOK'
<1>1. \A p \in DOMAIN files : ChainedNote(p, files[p])' \/ p = path
  BY ChainStays DEF NotesOK, ChainedNote
<1>2. ASSUME NEW p \in DOMAIN files' PROVE ChainedNote(p, files[p])' /\ LinkedNote(p, files[p])'
  <2>1. CASE p = path
    <3>1. files'[p] = note
      BY <2>1
    <3>2. ChainedNote(path, note)'
      BY ChainStays
    <3>. QED  BY <2>1, <3>1, <3>2 DEF ChainedNote, LinkedNote
  <2>2. CASE p # path
    <3>1. p \in DOMAIN files /\ files'[p] = files[p]
      BY <2>2
    <3>2. ChainedNote(p, files[p])
      BY <3>1 DEF NotesOK
    <3>. QED  BY <2>2, <3>1, <1>1 DEF NotesOK, LinkedNote
  <2>. QED  BY <2>1, <2>2
<1>. QED  BY <1>2 DEF NotesOK

\* Runs that go on keep what they know of notes that stay.
LEMMA RunsKnow ==
  ASSUME BufferOK, RequestOK, DOMAIN files \subseteq DOMAIN files',
         \A v \in Writer : pc'[v] = "edit" => pc[v] = "edit" /\ buffer'[v] = buffer[v],
         \A v \in Writer : pc'[v] = "write" => pc[v] = "write" /\ req'[v] = req[v]
  PROVE  BufferOK' /\ RequestOK'
<1>1. ASSUME NEW v \in Writer, pc'[v] = "edit"
      PROVE  ChainedNote(buffer[v].path, buffer[v].note)' /\ LinkedNote(buffer[v].path, buffer[v].note)'
  <2>1. ChainedNote(buffer[v].path, buffer[v].note) /\ LinkedNote(buffer[v].path, buffer[v].note)
    BY <1>1 DEF BufferOK
  <2>2. buffer'[v] = buffer[v]
    BY <1>1
  <2> DEFINE q == buffer[v].path
             n == buffer[v].note
  <2>3. \A name : Exists(name) => Exists(name)'
    BY ExistsStays
  <2>. QED  BY <2>1, <2>2, <2>3 DEF ChainedNote, LinkedNote
<1>2. ASSUME NEW v \in Writer, pc'[v] = "write"
      PROVE  \A f \in Mandatory(req'[v].kind) : Exists(req[v].refs[f])'
  BY <1>2, ExistsStays DEF RequestOK, Exists, PathsOf
<1>. QED  BY <1>1, <1>2 DEF BufferOK, RequestOK

\* What Done leaves of a run.
LEMMA DoneRuns ==
  ASSUME RunsType, NEW w \in Writer, NEW rest, Done(w, rest),
         buffer' = buffer \/ buffer' = [buffer EXCEPT ![w] = NoBuffer]
  PROVE  /\ \A v \in Writer : pc'[v] = "edit" => pc[v] = "edit" /\ buffer'[v] = buffer[v]
         /\ \A v \in Writer : pc'[v] = "write" => pc[v] = "write" /\ req'[v] = req[v]
<1>1. pc'[w] \in {"idle", "read"}
  BY DEF Done, RunsType
<1>2. \A v \in Writer \ {w} : pc'[v] = pc[v] /\ req'[v] = req[v] /\ buffer'[v] = buffer[v]
  BY DEF Done, RunsType
<1>. QED  BY <1>1, <1>2

LEMMA WriteArtifactGraph ==
  ASSUME KnowledgeBaseAssumption, GraphInv, NEW w \in Writer, WriteArtifact(w),
         DOMAIN files \subseteq DOMAIN files'
  PROVE  NotesOK' /\ BufferOK' /\ RequestOK'
<1> DEFINE r == req[w]
           path == <<id[w], r.slug>>
           note == NewNote(r)
<1>1. /\ pc[w] = "write" /\ r \in Request /\ id[w][1] = r.kind
      /\ \A f \in Mandatory(r.kind) : Exists(r.refs[f])
  BY DEF GraphInv, TypeInv, Equipped, WriteArtifact, RequestOK
<1>2. /\ path[1][1] = r.kind /\ note.refs = r.refs
      /\ note.links = LinksOf(r.kind, r.refs, r.extra)
  BY <1>1 DEF NewNote
<1>3. ChainedNote(path, note)
  <2>1. r.kind = "E" => "hypothesis" \in Mandatory(r.kind)
    BY DEF Mandatory, ParentFields
  <2>2. r.kind = "F" => "experiment" \in Mandatory(r.kind)
    BY DEF Mandatory, ParentFields
  <2>. QED  BY <1>1, <1>2, <2>1, <2>2 DEF ChainedNote
<1>4. LinkedNote(path, note)
  BY <1>2 DEF LinkedNote, LinksOf
<1>5. files' = [p \in DOMAIN files \cup {path} |-> IF p = path THEN note ELSE files[p]]
  BY DEF WriteArtifact
<1> HIDE DEF path, note, r
<1>6. NotesOK'
  BY <1>3, <1>4, <1>5, WriteNoteGraph DEF GraphInv
<1>. QED  BY <1>6, DoneRuns, RunsKnow DEF GraphInv, TypeInv, WriteArtifact

LEMMA ReadParentGraph ==
  ASSUME GraphInv, NEW w \in Writer, ReadParent(w)
  PROVE  NotesOK' /\ BufferOK' /\ RequestOK'
<1>1. files' = files /\ RunsType
  BY DEF ReadParent, GraphInv, TypeInv
<1>2. NotesOK'
  BY <1>1 DEF GraphInv, NotesOK, ChainedNote, LinkedNote, Exists, PathsOf
<1>3. PICK p \in PathsOf(Head(todo[w])) :
        \/ Done(w, Tail(todo[w])) /\ buffer' = buffer
        \/ /\ buffer' = [buffer EXCEPT ![w] = [path |-> p, note |-> files[p]]]
           /\ pc' = [pc EXCEPT ![w] = "edit"] /\ req' = req
  BY DEF ReadParent
<1>4. CASE Done(w, Tail(todo[w])) /\ buffer' = buffer
  BY <1>1, <1>2, <1>4, DoneRuns, RunsKnow DEF GraphInv
<1>5. CASE /\ buffer' = [buffer EXCEPT ![w] = [path |-> p, note |-> files[p]]]
           /\ pc' = [pc EXCEPT ![w] = "edit"] /\ req' = req
  <2>1. buffer'[w].path = p /\ buffer'[w].note = files[p]
    BY <1>1, <1>5 DEF RunsType
  <2>2. ChainedNote(p, files[p]) /\ LinkedNote(p, files[p])
    BY DEF GraphInv, NotesOK, PathsOf
  <2>3. \A v \in Writer \ {w} : pc'[v] = pc[v] /\ buffer'[v] = buffer[v]
    BY <1>1, <1>5 DEF RunsType
  <2>4. BufferOK'
    BY <1>1, <2>1, <2>2, <2>3 DEF GraphInv, BufferOK, ChainedNote, LinkedNote, Exists, PathsOf
  <2>5. ASSUME NEW v \in Writer, pc'[v] = "write"
        PROVE  \A f \in Mandatory(req'[v].kind) : Exists(req[v].refs[f])'
    <3>1. pc[v] = "write" /\ req'[v] = req[v]
      BY <1>1, <1>5, <2>5 DEF RunsType
    <3>2. \A f \in Mandatory(req[v].kind) : Exists(req[v].refs[f])
      BY <3>1 DEF GraphInv, RequestOK
    <3>. QED  BY <1>1, <3>1, <3>2 DEF Exists, PathsOf
  <2>. QED  BY <1>2, <2>4, <2>5 DEF RequestOK
<1>. QED  BY <1>3, <1>4, <1>5

\* An older copy of a note, with one more link, is chained and linked as before.
LEMMA WriteParentGraph ==
  ASSUME GraphInv, NEW w \in Writer, WriteParent(w)
  PROVE  NotesOK' /\ BufferOK' /\ RequestOK'
<1> DEFINE path == buffer[w].path
           note == WithLink(buffer[w].note, id[w])
<1>1. /\ pc[w] = "edit" /\ files' = [files EXCEPT ![path] = note]
      /\ DOMAIN files \subseteq DOMAIN files'
  BY DEF WriteParent
<1>2. buffer[w].note \in Note
  BY <1>1 DEF GraphInv, TypeInv, Equipped
<1>3. note.refs = buffer[w].note.refs /\ buffer[w].note.links \subseteq note.links
  BY <1>2 DEF WithLink, Note
<1>4. ChainedNote(path, note) /\ LinkedNote(path, note)
  BY <1>1, <1>3 DEF GraphInv, BufferOK, ChainedNote, LinkedNote
<1> HIDE DEF path, note
<1>5. NotesOK'
  <2>1. CASE path \in DOMAIN files
    <3>1. files' = [p \in DOMAIN files \cup {path} |-> IF p = path THEN note ELSE files[p]]
      BY <1>1, <2>1
    <3>. QED  BY <1>1, <1>4, <3>1, WriteNoteGraph DEF GraphInv
  <2>2. CASE path \notin DOMAIN files
    <3>1. DOMAIN files' = DOMAIN files /\ \A p \in DOMAIN files : files'[p] = files[p]
      BY <1>1, <2>2
    <3>. QED  BY <3>1 DEF GraphInv, NotesOK, ChainedNote, LinkedNote, Exists, PathsOf
  <2>. QED  BY <2>1, <2>2
<1>. QED  BY <1>1, <1>5, DoneRuns, RunsKnow DEF GraphInv, TypeInv, WriteParent

LEMMA AgentGraph ==
  ASSUME GraphInv, AgentWrites, DOMAIN files \subseteq DOMAIN files'
  PROVE  NotesOK' /\ BufferOK' /\ RequestOK'
<1>1. PICK path, refs : WriteByHand(path, refs)
  BY DEF AgentWrites
<1> DEFINE note == [refs |-> refs, plain |-> TRUE, links |-> LinksOf(path[1][1], refs, NoName)]
<1>2. files' = [p \in DOMAIN files \cup {path} |-> IF p = path THEN note ELSE files[p]]
  BY <1>1 DEF WriteByHand
<1>3. ChainedNote(path, note)
  BY <1>1 DEF WriteByHand, HookAllows, ChainedNote
<1>4. LinkedNote(path, note)
  BY DEF LinkedNote
<1> HIDE DEF note
<1>5. NotesOK'
  BY <1>2, <1>3, <1>4, WriteNoteGraph DEF GraphInv
<1>. QED  BY <1>1, <1>5, RunsKnow DEF GraphInv, WriteByHand

LEMMA CrashGraph ==
  ASSUME GraphInv, NEW w \in Writer, Crash(w)
  PROVE  NotesOK' /\ BufferOK' /\ RequestOK'
<1>1. files' = files
  BY DEF Crash
<1>2. NotesOK'
  BY <1>1 DEF GraphInv, NotesOK, ChainedNote, LinkedNote, Exists, PathsOf
<1>. QED  BY <1>1, <1>2, DoneRuns, RunsKnow DEF GraphInv, TypeInv, Crash

LEMMA NextGraph ==
  ASSUME KnowledgeBaseAssumption, GraphInv, [Next]_vars
  PROVE  GraphInv'
<1>1. TypeInv' /\ DOMAIN files \subseteq DOMAIN files'
  BY NextType, FilesStay DEF GraphInv
<1>2. CASE AgentWrites
  BY <1>1, <1>2, AgentGraph DEF GraphInv
<1>3. ASSUME NEW w \in Writer, Create(w) PROVE GraphInv'
  BY <1>1, <1>3, BeginGraph DEF GraphInv
<1>4. ASSUME NEW w \in Writer, WriteArtifact(w) PROVE GraphInv'
  BY <1>1, <1>4, WriteArtifactGraph DEF GraphInv
<1>5. ASSUME NEW w \in Writer, ReadParent(w) PROVE GraphInv'
  BY <1>1, <1>5, ReadParentGraph DEF GraphInv
<1>6. ASSUME NEW w \in Writer, WriteParent(w) PROVE GraphInv'
  BY <1>1, <1>6, WriteParentGraph DEF GraphInv
<1>7. ASSUME NEW w \in Writer, Crash(w) PROVE GraphInv'
  BY <1>1, <1>7, CrashGraph DEF GraphInv
<1>8. CASE UNCHANGED vars
  <2>1. NotesOK' /\ BufferOK' /\ RequestOK'
    BY <1>8 DEF vars, GraphInv, NotesOK, BufferOK, RequestOK, ChainedNote, LinkedNote, Exists, PathsOf
  <2>. QED  BY <1>1, <2>1 DEF GraphInv
<1>. QED  BY <1>2, <1>3, <1>4, <1>5, <1>6, <1>7, <1>8 DEF Next

LEMMA InitGraph == ASSUME KnowledgeBaseAssumption, Init PROVE GraphInv
<1>1. TypeInv
  BY InitType
<1>2. NotesOK
  <2>1. ASSUME NEW p \in DOMAIN files PROVE p[1] \in SpecialNotes /\ p[1][1] \notin {"E", "F"}
    BY DEF Init, SpecialNotes, Active, Challenge, Dashboard
  <2>. QED  BY <2>1 DEF NotesOK, ChainedNote, LinkedNote
<1>3. BufferOK /\ RequestOK
  BY DEF Init, BufferOK, RequestOK
<1>. QED  BY <1>1, <1>2, <1>3 DEF GraphInv

LEMMA GraphHolds == Spec => []GraphInv
<1>1. Init => GraphInv
  BY KnowledgeBaseAssumption, InitGraph
<1>2. GraphInv /\ [Next]_vars => GraphInv'
  BY KnowledgeBaseAssumption, NextGraph
<1>. QED  BY <1>1, <1>2, PTL DEF Spec

\* Every experiment has its hypothesis and every finding its experiment, however
\* many runs of the creator overlap, are killed or write back older copies, and
\* whatever the agent writes past the hook.
THEOREM ChainUnbroken == Spec => []ChainHolds
<1>1. GraphInv => ChainHolds
  BY DEF GraphInv, NotesOK, ChainedNote, ChainHolds
<1>. QED  BY <1>1, GraphHolds, PTL

\* No note loses the links it was made with.
THEOREM LinksSurvive == Spec => []OwnLinksKept
<1>1. GraphInv => OwnLinksKept
  BY DEF GraphInv, NotesOK, LinkedNote, OwnLinksKept
<1>. QED  BY <1>1, GraphHolds, PTL

(* Ids *)

\* Without a conflict, an id that was taken is still free when its note is written,
\* and no other run has taken it.
OnePath == \A p, q \in DOMAIN files : p[1] = q[1] => p = q
FreshIds ==
  /\ \A w \in Writer : pc[w] = "write" => ~Exists(id[w])
  /\ \A v, w \in Writer : v # w /\ pc[v] = "write" /\ pc[w] = "write" => req[v].kind # req[w].kind
IdsInv == ~conflict /\ hand = {} => OnePath /\ FreshIds

LEMMA NextIsFree ==
  ASSUME TypeInv, NEW kind, NEW n \in 1..MaxId, MaxId \in Nat, IsNext(kind, n)
  PROVE  ~Exists(<<kind, n>>)
<1> SUFFICES ASSUME NEW p \in DOMAIN files, p[1] = <<kind, n>> PROVE FALSE
  BY DEF Exists, PathsOf
<1>1. n \in Serials(kind)
  BY DEF Serials
<1>. QED  BY <1>1 DEF IsNext

LEMMA BeginIds ==
  ASSUME KnowledgeBaseAssumption, TypeInv, IdsInv, NEW w \in Writer, Create(w)
  PROVE  IdsInv'
<1>1. PICK r : Begin(w, r)
  BY DEF Create
<1>2. PICK n \in 1..MaxId : IsNext(r.kind, n) /\ id' = [id EXCEPT ![w] = <<r.kind, n>>]
  BY <1>1 DEF Begin
<1>3. /\ files' = files /\ hand' = hand
      /\ pc' = [pc EXCEPT ![w] = "write"] /\ req' = [req EXCEPT ![w] = r]
      /\ conflict' = (conflict \/ Conflicts(w, r))
  BY <1>1 DEF Begin
<1>4. RunsType /\ MaxId \in Nat
  BY DEF TypeInv, KnowledgeBaseAssumption
<1> SUFFICES ASSUME ~conflict', hand' = {} PROVE OnePath' /\ FreshIds'
  BY DEF IdsInv
<1>5. OnePath /\ FreshIds /\ ~Conflicts(w, r)
  BY <1>3 DEF IdsInv
<1>6. ~Exists(<<r.kind, n>>)
  BY <1>2, <1>4, NextIsFree
<1>7. OnePath'
  BY <1>3, <1>5 DEF OnePath
<1>8. \A v \in Writer \ {w} :
        pc'[v] = pc[v] /\ id'[v] = id[v] /\ req'[v] = req[v] /\ (pc[v] = "write" => req[v].kind # r.kind)
  BY <1>2, <1>3, <1>4, <1>5 DEF RunsType, Conflicts
<1>9. id'[w] = <<r.kind, n>> /\ req'[w] = r
  BY <1>2, <1>3, <1>4 DEF RunsType
<1>10. \A v \in Writer : pc'[v] = "write" => ~Exists(id[v])'
  BY <1>3, <1>5, <1>6, <1>8, <1>9 DEF FreshIds, Exists, PathsOf
<1>11. \A u, v \in Writer : u # v /\ pc'[u] = "write" /\ pc'[v] = "write" => req'[u].kind # req'[v].kind
  BY <1>5, <1>8, <1>9 DEF FreshIds
<1>. QED  BY <1>7, <1>10, <1>11 DEF FreshIds

LEMMA WriteArtifactIds ==
  ASSUME TypeInv, IdsInv, NEW w \in Writer, WriteArtifact(w)
  PROVE  IdsInv'
<1> SUFFICES ASSUME ~conflict', hand' = {} PROVE OnePath' /\ FreshIds'
  BY DEF IdsInv
<1>1. OnePath /\ FreshIds
  BY DEF IdsInv, WriteArtifact
<1>2. /\ pc[w] = "write" /\ ~Exists(id[w]) /\ id[w][1] = req[w].kind
      /\ DOMAIN files' = DOMAIN files \cup {<<id[w], req[w].slug>>}
  BY <1>1 DEF FreshIds, WriteArtifact, TypeInv, Equipped
<1>3. \A p \in DOMAIN files : p[1] # id[w]
  BY <1>2 DEF Exists, PathsOf
<1>4. OnePath'
  BY <1>1, <1>2, <1>3 DEF OnePath
<1>5. pc'[w] # "write"
  BY DEF WriteArtifact, Done, TypeInv, RunsType
<1>6. \A v \in Writer \ {w} : pc'[v] = pc[v] /\ id'[v] = id[v] /\ req'[v] = req[v]
  BY DEF WriteArtifact, Done, TypeInv, RunsType
<1>7. ASSUME NEW v \in Writer, pc'[v] = "write" PROVE ~Exists(id[v])'
  <2>1. v # w /\ pc[v] = "write" /\ id'[v] = id[v] /\ ~Exists(id[v])
    BY <1>1, <1>5, <1>6, <1>7 DEF FreshIds
  <2>2. id[v][1] # id[w][1]
    BY <1>1, <1>2, <2>1 DEF FreshIds, TypeInv, Equipped
  <2>. QED  BY <1>2, <2>1, <2>2 DEF Exists, PathsOf
<1>8. \A u, v \in Writer : u # v /\ pc'[u] = "write" /\ pc'[v] = "write" => req'[u].kind # req'[v].kind
  BY <1>1, <1>5, <1>6 DEF FreshIds
<1>. QED  BY <1>4, <1>7, <1>8 DEF FreshIds

\* Steps that neither add a file nor take an id.
LEMMA OthersIds ==
  ASSUME TypeInv, IdsInv, NEW w \in Writer, ReadParent(w) \/ WriteParent(w) \/ Crash(w)
  PROVE  IdsInv'
<1>1. /\ DOMAIN files' = DOMAIN files /\ conflict' = conflict /\ hand' = hand
      /\ pc'[w] # "write"
      /\ \A v \in Writer \ {w} : pc'[v] = pc[v] /\ id'[v] = id[v] /\ req'[v] = req[v]
  BY DEF ReadParent, WriteParent, Crash, Done, TypeInv, RunsType
<1>. QED  BY <1>1 DEF IdsInv, OnePath, FreshIds, Exists, PathsOf

LEMMA NextIds ==
  ASSUME KnowledgeBaseAssumption, TypeInv, IdsInv, [Next]_vars
  PROVE  IdsInv'
<1>1. CASE AgentWrites
  <2>1. hand' # {}
    BY <1>1 DEF AgentWrites, WriteByHand
  <2>. QED  BY <2>1 DEF IdsInv
<1>2. ASSUME NEW w \in Writer, Create(w) PROVE IdsInv'
  BY <1>2, BeginIds
<1>3. ASSUME NEW w \in Writer, WriteArtifact(w) PROVE IdsInv'
  BY <1>3, WriteArtifactIds
<1>4. ASSUME NEW w \in Writer, ReadParent(w) \/ WriteParent(w) \/ Crash(w) PROVE IdsInv'
  BY <1>4, OthersIds
<1>5. CASE UNCHANGED vars
  BY <1>5 DEF vars, IdsInv, OnePath, FreshIds, Exists, PathsOf
<1>. QED  BY <1>1, <1>2, <1>3, <1>4, <1>5 DEF Next

\* With one file to a name, the validator's note of a name is that file.
LEMMA NoteOfIs ==
  ASSUME KnowledgeBaseAssumption, TypeInv, OnePath, NEW p \in DOMAIN files
  PROVE  NoteOf(p[1]) = files[p] /\ IsFirst(p)
<1>1. p[2] \in Nat
  <2>1. p \in Path /\ Slug \subseteq Nat
    BY DEF TypeInv, FilesType, KnowledgeBaseAssumption
  <2>2. ASSUME NEW S, NEW T, p \in S \X T PROVE p[2] \in T
    BY <2>2
  <2>3. p[2] \in Slug \/ p[2] \in {0}
    BY <2>1, <2>2 DEF Path
  <2>4. CASE p[2] \in Slug
    BY <2>1, <2>4
  <2>5. CASE p[2] \in {0}
    <3>1. p[2] = 0
      BY <2>5, Zenon
    <3>. QED  BY <3>1
  <2>. QED  BY <2>3, <2>4, <2>5
<1>2. \A q \in PathsOf(p[1]) : q = p
  BY DEF PathsOf, OnePath
<1>3. IsFirst(p)
  BY <1>1, <1>2 DEF IsFirst
<1>4. p \in PathsOf(p[1])
  BY DEF PathsOf
<1>5. (CHOOSE q \in PathsOf(p[1]) : IsFirst(q)) = p
  BY <1>2, <1>3, <1>4
<1>. QED  BY <1>3, <1>5 DEF NoteOf

LEMMA InitIds == ASSUME Init PROVE IdsInv
<1>1. DOMAIN files = SpecialNotes \X {0} /\ \A w \in Writer : pc[w] = "idle"
  BY DEF Init
<1>2. ASSUME NEW p \in SpecialNotes \X {0}, NEW q \in SpecialNotes \X {0}, p[1] = q[1]
      PROVE  p = q
  BY <1>2
<1>. QED  BY <1>1, <1>2 DEF IdsInv, OnePath, FreshIds

\* Two files have one id only after two runs took their ids from one directory or
\* shared a parent, or after the agent wrote a note itself.
THEOREM IdsAreUnique == Spec => []UniqueIds
<1>1. Init => TypeInv /\ IdsInv
  BY KnowledgeBaseAssumption, InitType, InitIds
<1>2. TypeInv /\ IdsInv /\ [Next]_vars => (TypeInv /\ IdsInv)'
  BY KnowledgeBaseAssumption, NextType, NextIds
<1>3. TypeInv /\ IdsInv => UniqueIds
  BY KnowledgeBaseAssumption, NoteOfIs DEF IdsInv, UniqueIds
<1>. QED  BY <1>1, <1>2, <1>3, PTL DEF Spec

(* The validator *)

Regular == ~conflict /\ loose = 0 /\ hand = {}

NamesIn(fs) == {p[1] : p \in DOMAIN fs}

\* The parents that the fields refs of a note of this kind name, over the files
\* fs: they are there, of the right kind and agree with each other.
FitRefs(kind, refs, fs) ==
  /\ \A f \in Mandatory(kind) : refs[f] \in NamesIn(fs) /\ refs[f][1] = Prefix(f)
  /\ \A f \in ParentFields(kind) : refs[f] \in NamesIn(fs) \cup {NoName}
  /\ kind = "F" =>
       \A q \in DOMAIN fs :
         q[1] = refs["experiment"] => fs[q].refs["hypothesis"] = refs["hypothesis"]

FitNote(p, fs) ==
  /\ p[1] \notin SpecialNotes => FitRefs(p[1][1], fs[p].refs, fs)
  /\ p[1] \in SpecialNotes => SpecialNotes \ {p[1]} \subseteq fs[p].links
  /\ fs[p].links \subseteq NamesIn(fs)

FilesFit == \A p \in DOMAIN files : FitNote(p, files)

\* What a run holds: arguments that fit, parents still to edit, an id whose note
\* is written, and the parent's text as it still is.
FitRun(w) ==
  /\ pc[w] = "idle" => todo[w] = <<>>
  /\ pc[w] = "write" =>
       /\ FitRefs(req[w].kind, req[w].refs, files)
       /\ req[w].extra \in NamesIn(files) \cup {NoName}
       /\ ParentSet(req[w]) \subseteq Targets(todo[w])
  /\ pc[w] \in {"read", "edit"} => id[w] \in NamesIn(files)
  /\ pc[w] = "edit" =>
       /\ buffer[w].path \in DOMAIN files
       /\ buffer[w].note = files[buffer[w].path]
       /\ buffer[w].path[1] = Head(todo[w])

RunsFit == \A w \in Writer : FitRun(w)

\* No two runs have a parent to edit in common.
Apart == \A v, w \in Writer : v # w => Targets(todo[v]) \cap Targets(todo[w]) = {}

\* A run is about to link the parent back to the note.
WillLink(name, parent) ==
  \E w \in Writer :
    pc[w] \in {"read", "edit"} /\ id[w] = name /\ parent \in Targets(todo[w])

LinkedBack ==
  \A p, q \in DOMAIN files :
    p[1] \notin SpecialNotes /\ q[1] \in Parents(p[1][1], files[p].refs) =>
      p[1] \in files[q].links \/ crashed \/ WillLink(p[1], q[1])

Valid    == FilesFit /\ RunsFit /\ Apart /\ LinkedBack
ValidInv == SpecialNotes \X {0} \subseteq DOMAIN files /\ (Regular => Valid)

LEMMA TargetsOfTail ==
  ASSUME NEW S, NEW s \in Seq(S), s # <<>>
  PROVE  Targets(s) = {Head(s)} \cup Targets(Tail(s))
<1>1. /\ Len(s) \in Nat /\ Len(s) >= 1 /\ Head(s) = s[1]
      /\ Len(Tail(s)) = Len(s) - 1
      /\ \A i \in 1..Len(Tail(s)) : Tail(s)[i] = s[i + 1]
      /\ DOMAIN s = 1..Len(s) /\ DOMAIN Tail(s) = 1..(Len(s) - 1)
  OBVIOUS
<1>2. ASSUME NEW i \in 1..Len(s) PROVE s[i] \in {Head(s)} \cup Targets(Tail(s))
  <2>1. CASE i = 1
    BY <1>1, <2>1
  <2>2. CASE i # 1
    <3>1. i - 1 \in DOMAIN Tail(s) /\ Tail(s)[i - 1] = s[i]
      BY <1>1, <2>2
    <3>. QED  BY <3>1 DEF Targets
  <2>. QED  BY <2>1, <2>2
<1>3. ASSUME NEW i \in DOMAIN Tail(s) PROVE Tail(s)[i] \in Targets(s)
  <2>1. i + 1 \in DOMAIN s /\ Tail(s)[i] = s[i + 1]
    BY <1>1
  <2>. QED  BY <2>1 DEF Targets
<1>4. Head(s) \in Targets(s)
  <2>1. 1 \in DOMAIN s
    BY <1>1
  <2>. QED  BY <1>1, <2>1 DEF Targets
<1>5. Targets(s) \subseteq {Head(s)} \cup Targets(Tail(s))
  BY <1>1, <1>2 DEF Targets
<1>6. Targets(Tail(s)) \subseteq Targets(s)
  BY <1>3 DEF Targets
<1>. QED  BY <1>4, <1>5, <1>6

LEMMA TargetsOfConcat ==
  ASSUME NEW S, NEW s \in Seq(S), NEW t \in Seq(S)
  PROVE  Targets(s \o t) = Targets(s) \cup Targets(t)
<1>1. /\ Len(s) \in Nat /\ Len(t) \in Nat
      /\ DOMAIN s = 1..Len(s) /\ DOMAIN t = 1..Len(t)
      /\ DOMAIN (s \o t) = 1..(Len(s) + Len(t))
      /\ \A i \in 1..(Len(s) + Len(t)) : (s \o t)[i] = IF i <= Len(s) THEN s[i] ELSE t[i - Len(s)]
  OBVIOUS
<1>2. ASSUME NEW i \in DOMAIN (s \o t) PROVE (s \o t)[i] \in Targets(s) \cup Targets(t)
  <2>1. CASE i <= Len(s)
    BY <1>1, <2>1 DEF Targets
  <2>2. CASE ~(i <= Len(s))
    <3>1. i - Len(s) \in DOMAIN t /\ (s \o t)[i] = t[i - Len(s)]
      BY <1>1, <2>2
    <3>. QED  BY <3>1 DEF Targets
  <2>. QED  BY <2>1, <2>2
<1>3. ASSUME NEW i \in DOMAIN s PROVE s[i] \in Targets(s \o t)
  <2>1. i \in DOMAIN (s \o t) /\ (s \o t)[i] = s[i]
    BY <1>1
  <2>. QED  BY <2>1 DEF Targets
<1>4. ASSUME NEW i \in DOMAIN t PROVE t[i] \in Targets(s \o t)
  <2>1. i + Len(s) \in DOMAIN (s \o t) /\ (s \o t)[i + Len(s)] = t[i]
    BY <1>1
  <2>. QED  BY <2>1 DEF Targets
<1>5. Targets(s \o t) \subseteq Targets(s) \cup Targets(t)
  BY <1>2 DEF Targets
<1>6. Targets(s) \subseteq Targets(s \o t) /\ Targets(t) \subseteq Targets(s \o t)
  BY <1>3, <1>4 DEF Targets
<1>. QED  BY <1>5, <1>6

\* The notes asked to link back are the parents and the note of --link.
LEMMA TargetsAre ==
  ASSUME KnowledgeBaseAssumption, NEW r \in Request
  PROVE  Targets(BacklinkTargets(r)) = ParentSet(r)
<1> DEFINE one(n) == IF n = NoName THEN <<>> ELSE <<n>>
           h == one(r.refs["hypothesis"])
           e == one(r.refs["experiment"])
           t == one(r.refs["target"])
           v == one(r.refs["review"])
           x == one(r.extra)
<1>1. ASSUME NEW n \in Name \cup {NoName}
      PROVE  one(n) \in Seq(Name) /\ Targets(one(n)) = {n} \ {NoName}
  <2>1. CASE n = NoName
    BY <2>1 DEF Targets
  <2>2. CASE n # NoName
    <3>1. one(n) = <<n>> /\ n \in Name
      BY <2>2
    <3>2. DOMAIN <<n>> = {1} /\ <<n>>[1] = n
      OBVIOUS
    <3>3. Targets(<<n>>) = {n}
      BY <3>2 DEF Targets
    <3>. QED  BY <3>1, <3>3, <2>2
  <2>. QED  BY <2>1, <2>2
<1>2. /\ r.kind \in Kind /\ r.extra \in Name \cup {NoName}
      /\ \A f \in Field : r.refs[f] \in Name \cup {NoName}
  BY DEF Request, KnowledgeBaseAssumption
<1>3. /\ h \in Seq(Name) /\ Targets(h) = {r.refs["hypothesis"]} \ {NoName}
      /\ e \in Seq(Name) /\ Targets(e) = {r.refs["experiment"]} \ {NoName}
      /\ t \in Seq(Name) /\ Targets(t) = {r.refs["target"]} \ {NoName}
      /\ v \in Seq(Name) /\ Targets(v) = {r.refs["review"]} \ {NoName}
      /\ x \in Seq(Name) /\ Targets(x) = {r.extra} \ {NoName}
  BY <1>1, <1>2 DEF Field
<1> HIDE DEF h, e, t, v, x
<1> DEFINE parents ==
      CASE r.kind = "E"  -> h
        [] r.kind = "F"  -> h \o e
        [] r.kind = "CR" -> t
        [] r.kind = "SR" -> v
        [] OTHER         -> <<>>
<1>4. parents \in Seq(Name) /\ Targets(parents) = Parents(r.kind, r.refs)
  <2>1. CASE r.kind = "E"
    <3>1. Parents(r.kind, r.refs) = {r.refs["hypothesis"]} \ {NoName}
      BY <2>1 DEF Parents, ParentFields
    <3>. QED  BY <1>3, <2>1, <3>1
  <2>2. CASE r.kind = "F"
    <3>1. Parents(r.kind, r.refs) = ({r.refs["hypothesis"]} \ {NoName}) \cup ({r.refs["experiment"]} \ {NoName})
      BY <2>2 DEF Parents, ParentFields
    <3>2. Targets(h \o e) = Targets(h) \cup Targets(e) /\ h \o e \in Seq(Name)
      BY <1>3, TargetsOfConcat
    <3>. QED  BY <1>3, <2>2, <3>1, <3>2
  <2>3. CASE r.kind = "CR"
    <3>1. Parents(r.kind, r.refs) = {r.refs["target"]} \ {NoName}
      BY <2>3 DEF Parents, ParentFields
    <3>. QED  BY <1>3, <2>3, <3>1
  <2>4. CASE r.kind = "SR"
    <3>1. Parents(r.kind, r.refs) = {r.refs["review"]} \ {NoName}
      BY <2>4 DEF Parents, ParentFields
    <3>. QED  BY <1>3, <2>4, <3>1
  <2>5. CASE r.kind \in {"H", "L"}
    <3>1. Parents(r.kind, r.refs) = {}
      BY <2>5 DEF Parents, ParentFields
    <3>2. Targets(<<>>) = {}
      BY DEF Targets
    <3>3. parents = <<>> /\ <<>> \in Seq(Name)
      BY <2>5
    <3>. QED  BY <3>1, <3>2, <3>3
  <2>. QED  BY <1>2, <2>1, <2>2, <2>3, <2>4, <2>5 DEF Kind
<1> HIDE DEF parents
<1>5. Targets(parents \o x) = Targets(parents) \cup Targets(x)
  BY <1>3, <1>4, TargetsOfConcat
<1>6. BacklinkTargets(r) = parents \o x
  BY DEF BacklinkTargets, parents, h, e, t, v, x
<1>. QED  BY <1>3, <1>4, <1>5, <1>6 DEF ParentSet


\* Notes that are there keep their parents and their links, and new ones have new
\* names.
GrownTo(fs, gs) ==
  /\ DOMAIN fs \subseteq DOMAIN gs
  /\ \A p \in DOMAIN fs : gs[p].refs = fs[p].refs /\ fs[p].links \subseteq gs[p].links
  /\ \A q \in DOMAIN gs \ DOMAIN fs : q[1] \notin NamesIn(fs)

LEMMA FitStays ==
  ASSUME NEW fs, NEW gs, GrownTo(fs, gs), NEW kind, NEW refs, FitRefs(kind, refs, fs)
  PROVE  FitRefs(kind, refs, gs)
<1>1. NamesIn(fs) \subseteq NamesIn(gs)
  BY DEF GrownTo, NamesIn
<1>2. ASSUME kind = "F", NEW q \in DOMAIN gs, q[1] = refs["experiment"]
      PROVE  gs[q].refs["hypothesis"] = refs["hypothesis"]
  <2>1. "experiment" \in Mandatory(kind)
    BY <1>2 DEF Mandatory, ParentFields
  <2>2. q[1] \in NamesIn(fs)
    BY <1>2, <2>1 DEF FitRefs
  <2>3. q \in DOMAIN fs
    BY <2>2 DEF GrownTo
  <2>. QED  BY <1>2, <2>3 DEF GrownTo, FitRefs
<1>. QED  BY <1>1, <1>2 DEF FitRefs

\* The parents that fit are notes of the directory.
LEMMA ParentsAreThere ==
  ASSUME NEW fs, NEW kind, NEW refs, FitRefs(kind, refs, fs)
  PROVE  Parents(kind, refs) \subseteq NamesIn(fs)
  BY DEF Parents, FitRefs

\* What a run holds still fits after a step of another run.
LEMMA RunStays ==
  ASSUME NEW w \in Writer, FitRun(w), GrownTo(files, files'),
         pc'[w] = pc[w], req'[w] = req[w], id'[w] = id[w], todo'[w] = todo[w],
         buffer'[w] = buffer[w],
         pc[w] = "edit" => files'[buffer[w].path] = files[buffer[w].path]
  PROVE  FitRun(w)'
<1>1. NamesIn(files) \subseteq NamesIn(files') /\ DOMAIN files \subseteq DOMAIN files'
  BY DEF GrownTo, NamesIn
<1>2. pc[w] = "write" => FitRefs(req[w].kind, req[w].refs, files')
  BY FitStays DEF FitRun
<1>. QED  BY <1>1, <1>2 DEF FitRun

\* Notes that only gain links, and new ones that fit, leave all notes fitting.
LEMMA FilesStayFit ==
  ASSUME FilesFit, GrownTo(files, files'),
         \A p \in DOMAIN files' : files'[p].links \subseteq NamesIn(files'),
         \A p \in DOMAIN files' \ DOMAIN files :
           p[1] \notin SpecialNotes /\ FitRefs(p[1][1], files'[p].refs, files')
  PROVE  FilesFit'
<1> SUFFICES ASSUME NEW p \in DOMAIN files' PROVE FitNote(p, files')
  BY DEF FilesFit
<1>1. CASE p \in DOMAIN files
  <2>1. FitNote(p, files) /\ files'[p].refs = files[p].refs /\ files[p].links \subseteq files'[p].links
    BY <1>1 DEF FilesFit, GrownTo
  <2>2. p[1] \notin SpecialNotes => FitRefs(p[1][1], files[p].refs, files')
    BY <2>1, FitStays DEF FitNote
  <2>. QED  BY <2>1, <2>2 DEF FitNote
<1>2. CASE p \notin DOMAIN files
  BY <1>2 DEF FitNote
<1>. QED  BY <1>1, <1>2


LEMMA BeginValid ==
  ASSUME KnowledgeBaseAssumption, TypeInv, OnePath, Valid, NEW w \in Writer, Create(w),
         Regular'
  PROVE  Valid'
<1>1. PICK k \in Kinds, s \in Slug, x \in (Related \cap Known) \cup {NoName} :
        \E refs \in RefsOver(k, Known) :
          Begin(w, [kind |-> k, slug |-> s, refs |-> refs, extra |-> x])
  BY DEF Create
<1>2. PICK refs \in RefsOver(k, Known) :
        Begin(w, [kind |-> k, slug |-> s, refs |-> refs, extra |-> x])
  BY <1>1
<1> DEFINE r == [kind |-> k, slug |-> s, refs |-> refs, extra |-> x]
<1>3. Known = NamesIn(files) /\ Known \subseteq Name
  BY DEF TypeInv, FilesType, Known, NamesIn, Path, Name
<1>4. r.refs \in [Field -> Known \cup {NoName}] /\ r.extra \in Known \cup {NoName}
  BY DEF RefsOver
<1>5. r \in Request
  BY <1>3, <1>4 DEF Request
<1>6. Begin(w, r) /\ pc[w] = "idle"
  BY <1>2 DEF Create
<1> HIDE DEF r
<1>7. /\ Sound(r) /\ Accepted(r) /\ ~Conflicts(w, r)
      /\ files' = files /\ buffer' = buffer /\ crashed' = crashed
      /\ pc' = [pc EXCEPT ![w] = "write"] /\ req' = [req EXCEPT ![w] = r]
      /\ todo' = [todo EXCEPT ![w] = BacklinkTargets(r)]
      /\ \E n : id' = [id EXCEPT ![w] = n]
  <2>1. loose \in Nat /\ loose' = 0 /\ ~conflict'
    BY DEF TypeInv, HistoryType, Regular
  <2>2. Sound(r)
    <3>1. loose' = IF Sound(r) THEN loose ELSE loose + 1
      BY <1>6 DEF Begin
    <3> HIDE DEF Sound
    <3>. QED  BY <2>1, <3>1
  <2>3. ~Conflicts(w, r)
    <3>1. conflict' = (conflict \/ Conflicts(w, r))
      BY <1>6 DEF Begin
    <3>. QED  BY <2>1, <3>1
  <2>. QED  BY <1>6, <2>2, <2>3 DEF Begin
<1>8. r.kind \in Kind /\ Mandatory(r.kind) \subseteq ParentFields(r.kind) /\ ParentFields(r.kind) \subseteq Field
  BY <1>5 DEF Request, KnowledgeBaseAssumption, Mandatory, ParentFields, Kind, Field
<1>9. FitRefs(r.kind, r.refs, files)
  <2>1. ASSUME NEW f \in Mandatory(r.kind)
        PROVE  r.refs[f] \in NamesIn(files) /\ r.refs[f][1] = Prefix(f)
    BY <1>3, <1>4, <1>7, <1>8 DEF Accepted, Sound
  <2>2. \A f \in ParentFields(r.kind) : r.refs[f] \in NamesIn(files) \cup {NoName}
    BY <1>3, <1>4, <1>8
  <2>3. ASSUME r.kind = "F", NEW q \in DOMAIN files, q[1] = r.refs["experiment"]
        PROVE  files[q].refs["hypothesis"] = r.refs["hypothesis"]
    BY <1>7, <2>3, NoteOfIs DEF Sound
  <2>. QED  BY <2>1, <2>2, <2>3 DEF FitRefs
<1>10. Targets(BacklinkTargets(r)) = ParentSet(r)
  BY <1>5, TargetsAre
<1>11. /\ pc'[w] = "write" /\ req'[w] = r /\ todo'[w] = BacklinkTargets(r)
       /\ \A v \in Writer \ {w} : /\ pc'[v] = pc[v] /\ req'[v] = req[v] /\ id'[v] = id[v]
                                  /\ todo'[v] = todo[v] /\ buffer'[v] = buffer[v]
  BY <1>7 DEF TypeInv, RunsType
<1>12. RunsFit'
  <2>1. FitRun(w)'
    BY <1>3, <1>4, <1>7, <1>9, <1>10, <1>11 DEF FitRun
  <2>2. ASSUME NEW v \in Writer \ {w} PROVE FitRun(v)'
    BY <1>7, <1>11 DEF Valid, RunsFit, FitRun
  <2>. QED  BY <2>1, <2>2 DEF RunsFit
<1>13. Apart'
  <2>1. ASSUME NEW v \in Writer \ {w} PROVE Targets(todo[v]) \cap ParentSet(r) = {}
    <3>1. CASE pc[v] = "idle"
      <4>1. Targets(todo[v]) = {}
        BY <3>1 DEF Valid, RunsFit, FitRun, Targets
      <4>. QED  BY <4>1
    <3>2. CASE pc[v] # "idle"
      BY <1>7, <3>2 DEF Conflicts
    <3>. QED  BY <3>1, <3>2
  <2>2. ASSUME NEW u \in Writer, NEW v \in Writer, u # v
        PROVE  Targets(todo'[u]) \cap Targets(todo'[v]) = {}
    <3>1. CASE u = w
      BY <1>10, <1>11, <2>1, <2>2, <3>1
    <3>2. CASE v = w
      BY <1>10, <1>11, <2>1, <2>2, <3>2
    <3>3. CASE u # w /\ v # w
      <4>1. todo'[u] = todo[u] /\ todo'[v] = todo[v]
        BY <1>11, <3>3
      <4>. QED  BY <2>2, <4>1 DEF Valid, Apart
    <3>. QED  BY <3>1, <3>2, <3>3
  <2>. QED  BY <2>2 DEF Apart, Targets
<1>14. LinkedBack'
  <2>1. ASSUME NEW name, NEW parent, WillLink(name, parent) PROVE WillLink(name, parent)'
    <3>1. PICK u \in Writer : pc[u] \in {"read", "edit"} /\ id[u] = name /\ parent \in Targets(todo[u])
      BY <2>1 DEF WillLink
    <3>2. u # w
      BY <1>6, <3>1
    <3>3. pc'[u] = pc[u] /\ id'[u] = id[u] /\ todo'[u] = todo[u]
      BY <1>11, <3>2
    <3>. QED  BY <3>1, <3>3 DEF WillLink, Targets
  <2>. QED  BY <1>7, <2>1 DEF Valid, LinkedBack
<1>15. FilesFit'
  BY <1>7 DEF Valid, FilesFit
<1>. QED  BY <1>12, <1>13, <1>14, <1>15 DEF Valid

\* What Done leaves of the runs.
LEMMA DoneFacts ==
  ASSUME RunsType, NEW w \in Writer, NEW rest \in Seq(Name), Done(w, rest),
         buffer' = buffer \/ buffer' = [buffer EXCEPT ![w] = NoBuffer]
  PROVE  /\ todo'[w] = rest
         /\ rest = <<>> => pc'[w] = "idle"
         /\ rest # <<>> => pc'[w] = "read" /\ id'[w] = id[w]
         /\ \A v \in Writer \ {w} : /\ pc'[v] = pc[v] /\ req'[v] = req[v] /\ id'[v] = id[v]
                                    /\ todo'[v] = todo[v] /\ buffer'[v] = buffer[v]
<1>1. \A v \in Writer \ {w} : buffer'[v] = buffer[v]
  BY DEF RunsType
<1>2. CASE rest = <<>>
  BY <1>1, <1>2 DEF Done, RunsType
<1>3. CASE rest # <<>>
  BY <1>1, <1>3 DEF Done, RunsType
<1>. QED  BY <1>2, <1>3

\* A run that goes on or ends leaves what the others hold and what it has still to
\* edit as it was.
LEMMA DoneFits ==
  ASSUME RunsType, RunsFit, Apart, NEW w \in Writer, NEW rest \in Seq(Name), Done(w, rest),
         buffer' = buffer \/ buffer' = [buffer EXCEPT ![w] = NoBuffer],
         GrownTo(files, files'),
         id[w] \in NamesIn(files') \/ rest = <<>>,
         Targets(rest) \subseteq Targets(todo[w]),
         \A v \in Writer \ {w} : pc[v] = "edit" => files'[buffer[v].path] = files[buffer[v].path]
  PROVE  RunsFit' /\ Apart'
<1>1. /\ todo'[w] = rest
      /\ rest = <<>> => pc'[w] = "idle"
      /\ rest # <<>> => pc'[w] = "read" /\ id'[w] = id[w]
      /\ \A v \in Writer \ {w} : /\ pc'[v] = pc[v] /\ req'[v] = req[v] /\ id'[v] = id[v]
                                 /\ todo'[v] = todo[v] /\ buffer'[v] = buffer[v]
  BY DoneFacts
<1>2. FitRun(w)'
  <2>1. CASE rest = <<>>
    BY <1>1, <2>1 DEF FitRun
  <2>2. CASE rest # <<>>
    BY <1>1, <2>2 DEF FitRun
  <2>. QED  BY <2>1, <2>2
<1>3. ASSUME NEW v \in Writer \ {w} PROVE FitRun(v)'
  BY <1>1, RunStays DEF RunsFit
<1>4. ASSUME NEW u \in Writer, NEW v \in Writer, u # v
      PROVE  Targets(todo'[u]) \cap Targets(todo'[v]) = {}
  <2>1. \A z \in Writer : Targets(todo'[z]) \subseteq Targets(todo[z])
    BY <1>1
  <2>2. Targets(todo[u]) \cap Targets(todo[v]) = {}
    BY <1>4 DEF Apart
  <2>. QED  BY <2>1, <2>2
<1>. QED  BY <1>2, <1>3, <1>4 DEF RunsFit, Apart, Targets


LEMMA WriteArtifactValid ==
  ASSUME KnowledgeBaseAssumption, TypeInv, OnePath, FreshIds, Valid,
         SpecialNotes \X {0} \subseteq DOMAIN files, NEW w \in Writer, WriteArtifact(w)
  PROVE  Valid'
<1> DEFINE r == req[w]
           path == <<id[w], r.slug>>
           note == NewNote(r)
<1>1. /\ pc[w] = "write" /\ r \in Request /\ id[w] \in Kind \X (1..MaxId) /\ id[w][1] = r.kind
      /\ ~Exists(id[w]) /\ todo[w] \in Seq(Name) /\ Done(w, todo[w])
      /\ files' = [p \in DOMAIN files \cup {path} |-> IF p = path THEN note ELSE files[p]]
      /\ buffer' = buffer /\ crashed' = crashed /\ RunsType
  BY DEF WriteArtifact, TypeInv, RunsType, Equipped, FreshIds
<1>2. /\ FitRefs(r.kind, r.refs, files) /\ r.extra \in NamesIn(files) \cup {NoName}
      /\ ParentSet(r) \subseteq Targets(todo[w])
  BY <1>1 DEF Valid, RunsFit, FitRun
<1>3. path[1] = id[w] /\ id[w] \notin NamesIn(files) /\ path \notin DOMAIN files
  BY <1>1 DEF Exists, PathsOf, NamesIn
<1>4. note.refs = r.refs /\ note.links = LinksOf(r.kind, r.refs, r.extra)
  BY DEF NewNote
<1> HIDE DEF path, note
<1>5. GrownTo(files, files') /\ files'[path] = note /\ NamesIn(files') = NamesIn(files) \cup {id[w]}
  <2>1. DOMAIN files' = DOMAIN files \cup {path} /\ files'[path] = note
    BY <1>1
  <2>2. \A p \in DOMAIN files : files'[p] = files[p]
    BY <1>1, <1>3
  <2>. QED  BY <1>3, <2>1, <2>2 DEF GrownTo, NamesIn
<1>6. FitRefs(r.kind, r.refs, files')
  BY <1>2, <1>5, FitStays
<1>7. note.links \subseteq NamesIn(files)
  <2>1. Active \in NamesIn(files) /\ Challenge \in NamesIn(files)
    <3>1. <<Active, 0>> \in DOMAIN files /\ <<Challenge, 0>> \in DOMAIN files
      BY DEF SpecialNotes
    <3>. QED  BY <3>1 DEF NamesIn
  <2>2. Parents(r.kind, r.refs) \subseteq NamesIn(files)
    BY <1>2, ParentsAreThere
  <2>. QED  BY <1>2, <1>4, <2>1, <2>2 DEF LinksOf
<1>8. FilesFit'
  <2>1. \A p \in DOMAIN files : files'[p] = files[p] /\ files[p].links \subseteq NamesIn(files)
    BY <1>1, <1>3 DEF Valid, FilesFit, FitNote
  <2>2. \A p \in DOMAIN files' : p = path \/ p \in DOMAIN files
    BY <1>1
  <2>3. \A p \in DOMAIN files' : files'[p].links \subseteq NamesIn(files')
    BY <1>5, <1>7, <2>1, <2>2
  <2>4. path[1] \notin SpecialNotes
    BY <1>1, <1>3 DEF SpecialNotes, Active, Challenge, Dashboard, Kind
  <2>5. path[1][1] = r.kind
    BY <1>1, <1>3
  <2>6. \A p \in DOMAIN files' \ DOMAIN files :
          p[1] \notin SpecialNotes /\ FitRefs(p[1][1], files'[p].refs, files')
    BY <1>4, <1>5, <1>6, <2>2, <2>4, <2>5
  <2>. QED  BY <1>5, <2>3, <2>6, FilesStayFit DEF Valid
<1>9. \A v \in Writer \ {w} : pc[v] = "edit" => files'[buffer[v].path] = files[buffer[v].path]
  BY <1>1, <1>3 DEF Valid, RunsFit, FitRun
<1>10. RunsFit' /\ Apart'
  BY <1>1, <1>5, <1>9, DoneFits DEF Valid
<1>11. /\ todo'[w] = todo[w]
       /\ todo[w] # <<>> => pc'[w] = "read" /\ id'[w] = id[w]
       /\ \A v \in Writer \ {w} : pc'[v] = pc[v] /\ id'[v] = id[v] /\ todo'[v] = todo[v]
  BY <1>1, DoneFacts
<1>12. LinkedBack'
  <2>1. ASSUME NEW p \in DOMAIN files', NEW q \in DOMAIN files',
               p[1] \notin SpecialNotes, q[1] \in Parents(p[1][1], files'[p].refs)
        PROVE  p[1] \in files'[q].links \/ crashed' \/ WillLink(p[1], q[1])'
    <3>1. CASE p = path
      <4>1. q[1] \in Targets(todo[w])
        BY <1>1, <1>2, <1>3, <1>4, <1>5, <2>1, <3>1 DEF ParentSet
      <4>2. todo[w] # <<>>
        BY <4>1 DEF Targets
      <4>3. pc'[w] = "read" /\ id'[w] = p[1] /\ todo'[w] = todo[w]
        BY <1>3, <1>11, <3>1, <4>2
      <4>. QED  BY <4>1, <4>3 DEF WillLink, Targets
    <3>2. CASE p # path
      <4>1. p \in DOMAIN files /\ files'[p] = files[p]
        BY <1>1, <2>1, <3>2
      <4>2. FitRefs(p[1][1], files[p].refs, files)
        BY <2>1, <4>1 DEF Valid, FilesFit, FitNote
      <4>3. q[1] \in NamesIn(files)
        BY <2>1, <4>1, <4>2, ParentsAreThere
      <4>4. q \in DOMAIN files /\ files'[q] = files[q]
        BY <1>1, <1>3, <2>1, <4>3
      <4>5. p[1] \in files[q].links \/ crashed \/ WillLink(p[1], q[1])
        BY <2>1, <4>1, <4>4 DEF Valid, LinkedBack
      <4>6. ASSUME WillLink(p[1], q[1]) PROVE WillLink(p[1], q[1])'
        <5>1. PICK u \in Writer : pc[u] \in {"read", "edit"} /\ id[u] = p[1] /\ q[1] \in Targets(todo[u])
          BY <4>6 DEF WillLink
        <5>2. u # w
          BY <1>1, <5>1
        <5>3. pc'[u] = pc[u] /\ id'[u] = id[u] /\ todo'[u] = todo[u]
          BY <1>11, <5>2
        <5>. QED  BY <5>1, <5>3 DEF WillLink, Targets
      <4>. QED  BY <1>1, <4>4, <4>5, <4>6
    <3>. QED  BY <3>1, <3>2
  <2>. QED  BY <2>1 DEF LinkedBack
<1>. QED  BY <1>8, <1>10, <1>12 DEF Valid

\* A parent that has the link, or gets it, is done; everything else is as before.
LEMMA ParentDone ==
  ASSUME TypeInv, OnePath, Valid, NEW w \in Writer, Done(w, Tail(todo[w])),
         pc[w] \in {"read", "edit"}, GrownTo(files, files'), DOMAIN files' = DOMAIN files,
         buffer' = buffer \/ buffer' = [buffer EXCEPT ![w] = NoBuffer],
         crashed' = crashed,
         NEW path \in DOMAIN files, path[1] = Head(todo[w]), id[w] \in files'[path].links,
         \A v \in Writer \ {w} : pc[v] = "edit" => files'[buffer[v].path] = files[buffer[v].path]
  PROVE  RunsFit' /\ Apart' /\ LinkedBack'
<1>1. RunsType /\ todo[w] \in Seq(Name) /\ todo[w] # <<>> /\ id[w] \in NamesIn(files)
  BY DEF TypeInv, RunsType, Equipped, Valid, RunsFit, FitRun
<1>2. Tail(todo[w]) \in Seq(Name)
  BY <1>1
<1>3. Targets(todo[w]) = {Head(todo[w])} \cup Targets(Tail(todo[w]))
  BY <1>1, TargetsOfTail
<1>4. id[w] \in NamesIn(files')
  BY <1>1 DEF NamesIn
<1>5. RunsFit' /\ Apart'
  BY <1>1, <1>2, <1>3, <1>4, DoneFits DEF Valid
<1>6. /\ todo'[w] = Tail(todo[w])
      /\ Tail(todo[w]) # <<>> => pc'[w] = "read" /\ id'[w] = id[w]
      /\ \A v \in Writer \ {w} : pc'[v] = pc[v] /\ id'[v] = id[v] /\ todo'[v] = todo[v]
  BY <1>1, <1>2, DoneFacts
<1>7. ASSUME NEW p \in DOMAIN files, NEW q \in DOMAIN files,
             p[1] \notin SpecialNotes, q[1] \in Parents(p[1][1], files[p].refs)
      PROVE  p[1] \in files'[q].links \/ crashed' \/ WillLink(p[1], q[1])'
  <2>1. p[1] \in files[q].links \/ crashed \/ WillLink(p[1], q[1])
    BY <1>7 DEF Valid, LinkedBack
  <2>2. p[1] \in files[q].links => p[1] \in files'[q].links
    BY DEF GrownTo
  <2>3. ASSUME WillLink(p[1], q[1])
        PROVE  p[1] \in files'[q].links \/ WillLink(p[1], q[1])'
    <3>1. PICK u \in Writer : pc[u] \in {"read", "edit"} /\ id[u] = p[1] /\ q[1] \in Targets(todo[u])
      BY <2>3 DEF WillLink
    <3>2. CASE u # w
      <4>1. pc'[u] = pc[u] /\ id'[u] = id[u] /\ todo'[u] = todo[u]
        BY <1>6, <3>2
      <4>. QED  BY <3>1, <4>1 DEF WillLink, Targets
    <3>3. CASE u = w /\ q[1] \in Targets(Tail(todo[w]))
      <4>1. Tail(todo[w]) # <<>>
        BY <3>3 DEF Targets
      <4>2. pc'[w] = "read" /\ id'[w] = p[1] /\ todo'[w] = Tail(todo[w])
        BY <1>6, <3>1, <3>3, <4>1
      <4>. QED  BY <3>3, <4>2 DEF WillLink, Targets
    <3>4. CASE u = w /\ q[1] = Head(todo[w])
      <4>1. q = path
        BY <3>4 DEF OnePath
      <4>. QED  BY <3>1, <3>4, <4>1
    <3>. QED  BY <1>3, <3>1, <3>2, <3>3, <3>4
  <2>. QED  BY <2>1, <2>2, <2>3
<1>8. \A p \in DOMAIN files : files'[p].refs = files[p].refs
  BY DEF GrownTo
<1>. QED  BY <1>5, <1>7, <1>8 DEF LinkedBack


LEMMA ReadParentValid ==
  ASSUME TypeInv, OnePath, Valid, NEW w \in Writer, ReadParent(w)
  PROVE  Valid'
<1>1. PICK p \in PathsOf(Head(todo[w])) :
        IF id[w] \in files[p].links
        THEN Done(w, Tail(todo[w])) /\ UNCHANGED buffer
        ELSE /\ buffer' = [buffer EXCEPT ![w] = [path |-> p, note |-> files[p]]]
             /\ pc' = [pc EXCEPT ![w] = "edit"]
             /\ UNCHANGED <<todo, req, id>>
  BY DEF ReadParent
<1>2. pc[w] = "read" /\ files' = files /\ crashed' = crashed
  BY DEF ReadParent
<1>3. p \in DOMAIN files /\ p[1] = Head(todo[w])
  BY DEF PathsOf
<1>4. FilesFit' /\ GrownTo(files, files')
  BY <1>2 DEF Valid, FilesFit, GrownTo
<1>5. CASE id[w] \in files[p].links
  <2>1. RunsFit' /\ Apart' /\ LinkedBack'
    BY <1>1, <1>2, <1>3, <1>4, <1>5, ParentDone
  <2>. QED  BY <1>4, <2>1 DEF Valid
<1>6. CASE id[w] \notin files[p].links
  <2>1. /\ buffer'[w] = [path |-> p, note |-> files[p]] /\ pc'[w] = "edit"
        /\ todo' = todo /\ req' = req /\ id' = id
        /\ \A v \in Writer \ {w} : pc'[v] = pc[v] /\ buffer'[v] = buffer[v]
    BY <1>1, <1>6 DEF TypeInv, RunsType
  <2>2. FitRun(w)'
    <3>1. id[w] \in NamesIn(files)
      BY <1>2 DEF Valid, RunsFit, FitRun
    <3>. QED  BY <1>2, <1>3, <2>1, <3>1 DEF FitRun
  <2>3. \A v \in Writer \ {w} : FitRun(v)'
    BY <1>2, <2>1 DEF Valid, RunsFit, FitRun
  <2>4. Apart'
    BY <2>1 DEF Valid, Apart, Targets
  <2>5. ASSUME NEW name, NEW parent, WillLink(name, parent) PROVE WillLink(name, parent)'
    <3>1. PICK u \in Writer : pc[u] \in {"read", "edit"} /\ id[u] = name /\ parent \in Targets(todo[u])
      BY <2>5 DEF WillLink
    <3>2. pc'[u] \in {"read", "edit"}
      BY <2>1, <3>1
    <3>. QED  BY <2>1, <3>1, <3>2 DEF WillLink, Targets
  <2>6. LinkedBack'
    BY <1>2, <2>5 DEF Valid, LinkedBack
  <2>. QED  BY <1>4, <2>2, <2>3, <2>4, <2>6 DEF Valid, RunsFit
<1>. QED  BY <1>5, <1>6

LEMMA WriteParentValid ==
  ASSUME TypeInv, OnePath, Valid, NEW w \in Writer, WriteParent(w)
  PROVE  Valid'
<1> DEFINE path == buffer[w].path
<1>1. /\ pc[w] = "edit" /\ Done(w, Tail(todo[w])) /\ crashed' = crashed
      /\ files' = [files EXCEPT ![path] = WithLink(buffer[w].note, id[w])]
      /\ buffer' = [buffer EXCEPT ![w] = NoBuffer]
  BY DEF WriteParent
<1>2. /\ path \in DOMAIN files /\ buffer[w].note = files[path] /\ path[1] = Head(todo[w])
      /\ id[w] \in NamesIn(files)
  BY <1>1 DEF Valid, RunsFit, FitRun
<1>3. files[path] \in Note
  BY <1>2 DEF TypeInv, FilesType
<1> HIDE DEF path
<1>4. /\ DOMAIN files' = DOMAIN files
      /\ files'[path] = WithLink(files[path], id[w])
      /\ \A p \in DOMAIN files \ {path} : files'[p] = files[p]
  BY <1>1, <1>2
<1>5. files'[path].refs = files[path].refs /\ files'[path].links = files[path].links \cup {id[w]}
  BY <1>3, <1>4 DEF WithLink, Note
<1>6. GrownTo(files, files')
  BY <1>4, <1>5 DEF GrownTo
<1>7. FilesFit'
  <2>1. NamesIn(files') = NamesIn(files)
    BY <1>4 DEF NamesIn
  <2>2. \A p \in DOMAIN files : files[p].links \subseteq NamesIn(files)
    BY DEF Valid, FilesFit, FitNote
  <2>3. \A p \in DOMAIN files' : files'[p].links \subseteq NamesIn(files')
    BY <1>2, <1>4, <1>5, <2>1, <2>2
  <2>. QED  BY <1>4, <1>6, <2>3, FilesStayFit DEF Valid
<1>8. ASSUME NEW v \in Writer \ {w}, pc[v] = "edit"
      PROVE  files'[buffer[v].path] = files[buffer[v].path]
  <2>1. buffer[v].path \in DOMAIN files /\ buffer[v].path[1] = Head(todo[v])
    BY <1>8 DEF Valid, RunsFit, FitRun
  <2>2. \A u \in {v, w} : todo[u] \in Seq(Name) /\ todo[u] # <<>>
    BY <1>1, <1>8 DEF TypeInv, RunsType, Equipped
  <2>3. Head(todo[v]) \in Targets(todo[v]) /\ Head(todo[w]) \in Targets(todo[w])
    BY <2>2, TargetsOfTail
  <2>4. Head(todo[v]) # Head(todo[w])
    BY <1>8, <2>3 DEF Valid, Apart
  <2>. QED  BY <1>2, <1>4, <2>1, <2>4
<1>9. RunsFit' /\ Apart' /\ LinkedBack'
  BY <1>1, <1>2, <1>4, <1>5, <1>6, <1>8, ParentDone
<1>. QED  BY <1>7, <1>9 DEF Valid

LEMMA CrashValid ==
  ASSUME TypeInv, Valid, NEW w \in Writer, Crash(w)
  PROVE  Valid'
<1>1. /\ Done(w, <<>>) /\ files' = files /\ crashed' = TRUE /\ RunsType
      /\ buffer' = [buffer EXCEPT ![w] = NoBuffer]
  BY DEF Crash, TypeInv
<1>2. FilesFit' /\ GrownTo(files, files')
  BY <1>1 DEF Valid, FilesFit, GrownTo
<1>3. <<>> \in Seq(Name) /\ Targets(<<>>) = {}
  BY DEF Targets
<1>4. RunsFit' /\ Apart'
  BY <1>1, <1>2, <1>3, DoneFits DEF Valid
<1>5. LinkedBack'
  BY <1>1 DEF LinkedBack
<1>. QED  BY <1>2, <1>4, <1>5 DEF Valid

LEMMA NextValid ==
  ASSUME KnowledgeBaseAssumption, TypeInv, IdsInv, ValidInv, [Next]_vars
  PROVE  ValidInv'
<1>1. SpecialNotes \X {0} \subseteq DOMAIN files'
  BY FilesStay DEF ValidInv
<1> SUFFICES ASSUME Regular' PROVE Valid'
  BY <1>1 DEF ValidInv
<1>2. CASE AgentWrites
  <2>1. hand' # {}
    BY <1>2 DEF AgentWrites, WriteByHand
  <2>. QED  BY <2>1 DEF Regular
<1>3. ASSUME NEW w \in Writer, Create(w) PROVE Valid'
  <2>1. PICK r : Begin(w, r)
    BY <1>3 DEF Create
  <2>2. ~conflict /\ hand = {}
    BY <2>1 DEF Begin, Regular
  <2>3. loose = 0
    <3>1. loose \in Nat /\ loose' = 0 /\ (loose' = loose \/ loose' = loose + 1)
      BY <2>1 DEF Begin, Regular, TypeInv, HistoryType
    <3>. QED  BY <3>1
  <2>4. Valid /\ OnePath
    BY <2>2, <2>3 DEF Regular, ValidInv, IdsInv
  <2>. QED  BY <1>3, <2>4, BeginValid
<1>4. ASSUME NEW w \in Writer,
             WriteArtifact(w) \/ ReadParent(w) \/ WriteParent(w) \/ Crash(w)
      PROVE  Valid'
  <2>1. Regular
    BY <1>4 DEF WriteArtifact, ReadParent, WriteParent, Crash, Regular
  <2>2. Valid /\ OnePath /\ FreshIds
    BY <2>1 DEF Regular, ValidInv, IdsInv
  <2>. QED  BY <1>4, <2>2, WriteArtifactValid, ReadParentValid, WriteParentValid, CrashValid DEF ValidInv
<1>5. CASE UNCHANGED vars
  <2>1. Valid
    BY <1>5 DEF vars, Regular, ValidInv
  <2>2. /\ files' = files /\ pc' = pc /\ req' = req /\ id' = id /\ todo' = todo
        /\ buffer' = buffer /\ crashed' = crashed
    BY <1>5 DEF vars
  <2>3. FilesFit'
    BY <2>1, <2>2 DEF Valid, FilesFit
  <2>4. RunsFit'
    BY <2>1, <2>2 DEF Valid, RunsFit, FitRun
  <2>5. Apart'
    BY <2>1, <2>2 DEF Valid, Apart, Targets
  <2>6. \A name, parent : WillLink(name, parent) => WillLink(name, parent)'
    BY <2>2 DEF WillLink, Targets
  <2>7. LinkedBack'
    BY <2>1, <2>2, <2>6 DEF Valid, LinkedBack
  <2>. QED  BY <2>3, <2>4, <2>5, <2>7 DEF Valid
<1>. QED  BY <1>2, <1>3, <1>4, <1>5 DEF Next

LEMMA InitValid == ASSUME Init PROVE ValidInv
<1>1. DOMAIN files = SpecialNotes \X {0}
  BY DEF Init
<1>2. ASSUME NEW p \in DOMAIN files
      PROVE  p[1] \in SpecialNotes /\ files[p].links = SpecialNotes \ {p[1]}
  BY DEF Init, NoNote
<1>3. SpecialNotes \subseteq NamesIn(files)
  <2>1. ASSUME NEW n \in SpecialNotes PROVE n \in NamesIn(files)
    <3>1. <<n, 0>> \in DOMAIN files /\ <<n, 0>>[1] = n
      BY <1>1
    <3>. QED  BY <3>1 DEF NamesIn
  <2>. QED  BY <2>1
<1>4. FilesFit
  BY <1>2, <1>3 DEF FilesFit, FitNote
<1>5. \A w \in Writer : pc[w] = "idle" /\ todo[w] = <<>>
  BY DEF Init
<1>6. RunsFit
  BY <1>5 DEF RunsFit, FitRun
<1>7. Apart
  BY <1>5 DEF Apart, Targets
<1>8. LinkedBack
  BY <1>2 DEF LinkedBack
<1>. QED  BY <1>1, <1>4, <1>6, <1>7, <1>8 DEF ValidInv, Valid


LEMMA ValidHolds == Spec => [](GraphInv /\ IdsInv /\ ValidInv)
<1>1. Init => IdsInv /\ ValidInv
  BY InitIds, InitValid
<1>2. TypeInv /\ IdsInv /\ ValidInv /\ [Next]_vars => IdsInv' /\ ValidInv'
  BY KnowledgeBaseAssumption, NextIds, NextValid
<1>3. GraphInv => TypeInv
  BY DEF GraphInv
<1>. QED  BY <1>1, <1>2, <1>3, GraphHolds, PTL DEF Spec

\* A name of an artifact has a file, which is its note.
LEMMA ArtifactHasNote ==
  ASSUME KnowledgeBaseAssumption, TypeInv, OnePath, NEW n \in Known
  PROVE  \E p \in DOMAIN files : p[1] = n /\ NoteOf(n) = files[p]
<1>1. PICK p \in DOMAIN files : p[1] = n
  BY DEF Known
<1>. QED  BY <1>1, NoteOfIs

LEMMA ReferencesFit ==
  ASSUME KnowledgeBaseAssumption, TypeInv, OnePath, FilesFit, NEW n \in Artifacts
  PROVE  /\ ~ReferenceErrors(n)
         /\ \A f \in Mandatory(n[1]) : NoteOf(n).refs[f] # NoName
<1>1. PICK p \in DOMAIN files : p[1] = n /\ NoteOf(n) = files[p]
  BY ArtifactHasNote DEF Artifacts
<1> DEFINE refs == files[p].refs
           kind == n[1]
<1>2. FitRefs(kind, refs, files) /\ n \in Kind \X (1..MaxId)
  BY <1>1 DEF Artifacts, FilesFit, FitNote, TypeInv, FilesType, Path
<1>3. Known = NamesIn(files) /\ NoName \notin Known
  <2>1. Known \subseteq Name
    BY DEF TypeInv, FilesType, Known, Path, Name
  <2>2. NoName \notin Name
    BY DEF NoName, Name, Kind, SpecialNotes, Active, Challenge, Dashboard
  <2>. QED  BY <2>1, <2>2 DEF Known, NamesIn
<1>4. \A f \in Mandatory(kind) : refs[f] # NoName
  BY <1>2, <1>3 DEF FitRefs
<1>5. ASSUME NEW f \in ParentFields(kind), refs[f] # NoName
      PROVE  refs[f] \in Known /\ (kind # "CR" => refs[f][1] = Prefix(f))
  BY <1>2, <1>3, <1>5 DEF FitRefs, Mandatory
<1>6. ASSUME kind = "F", refs["experiment"] \in Artifacts
      PROVE  NoteOf(refs["experiment"]).refs["hypothesis"] = refs["hypothesis"]
  <2>1. PICK q \in DOMAIN files : q[1] = refs["experiment"] /\ NoteOf(refs["experiment"]) = files[q]
    BY <1>6, ArtifactHasNote DEF Artifacts
  <2>. QED  BY <1>2, <1>6, <2>1 DEF FitRefs
<1> HIDE DEF kind, refs
<1>7. NoteOf(n).refs = refs /\ n[1] = kind
  BY <1>1 DEF refs, kind
<1>8. ~ReferenceErrors(n)
  BY <1>5, <1>6, <1>7 DEF ReferenceErrors
<1>. QED  BY <1>4, <1>7, <1>8

LEMMA LinksFit ==
  ASSUME KnowledgeBaseAssumption, GraphInv, OnePath, FilesFit, NEW n \in Known
  PROVE  ~LinkErrors(n)
<1>1. PICK p \in DOMAIN files : p[1] = n /\ NoteOf(n) = files[p]
  BY ArtifactHasNote DEF GraphInv
<1>2. FitNote(p, files) /\ LinkedNote(p, files[p])
  BY DEF FilesFit, GraphInv, NotesOK
<1>3. files[p].links \subseteq Known
  BY <1>2 DEF FitNote, NamesIn, Known
<1>4. RequiredLinks(n) \subseteq files[p].links
  <2>1. CASE n \in SpecialNotes
    <3>1. RequiredLinks(n) \subseteq SpecialNotes \ {n}
      BY <2>1 DEF RequiredLinks, SpecialNotes, Active, Challenge, Dashboard
    <3>. QED  BY <1>1, <1>2, <2>1, <3>1 DEF FitNote
  <2>2. CASE n \notin SpecialNotes
    BY <1>1, <1>2, <2>2 DEF RequiredLinks, LinkedNote, LinksOf
  <2>. QED  BY <2>1, <2>2
<1>. QED  BY <1>1, <1>3, <1>4 DEF LinkErrors

LEMMA BacklinksFit ==
  ASSUME KnowledgeBaseAssumption, TypeInv, OnePath, LinkedBack, ~crashed,
         \A w \in Writer : pc[w] = "idle", NEW n \in Artifacts
  PROVE  ~BacklinkErrors(n)
<1>1. PICK p \in DOMAIN files : p[1] = n /\ NoteOf(n) = files[p]
  BY ArtifactHasNote DEF Artifacts
<1>2. ASSUME NEW m \in Parents(n[1], NoteOf(n).refs) \cap Known PROVE n \in NoteOf(m).links
  <2>1. PICK q \in DOMAIN files : q[1] = m /\ NoteOf(m) = files[q]
    BY ArtifactHasNote
  <2>2. ~WillLink(n, m)
    BY DEF WillLink
  <2>. QED  BY <1>1, <2>1, <2>2 DEF LinkedBack, Artifacts
<1>. QED  BY <1>2 DEF BacklinkErrors

\* The creator satisfies the validator: unless runs were in conflict or were given
\* parents that do not fit, only backlinks can be missing, and none is once every
\* run has ended and none was killed (kb_new_artifact.py against kb_validate.py).
THEOREM CreatorSatisfiesValidator == Spec => []CreatedNotesValidate
<1>1. GraphInv /\ IdsInv /\ ValidInv => CreatedNotesValidate
  <2> SUFFICES ASSUME GraphInv, IdsInv, ValidInv, ~conflict, loose = 0, hand = {}
               PROVE  /\ Errors \subseteq {"backlink"}
                      /\ (\A w \in Writer : pc[w] = "idle") /\ ~crashed => Errors = {}
    BY DEF CreatedNotesValidate
  <2>1. TypeInv /\ OnePath /\ FilesFit /\ LinkedBack
    BY DEF GraphInv, IdsInv, ValidInv, Regular, Valid
  <2>2. ~DuplicateIds
    BY <2>1, KnowledgeBaseAssumption, NoteOfIs DEF DuplicateIds
  <2>3. ~MetadataErrors /\ ~(\E n \in Artifacts : ReferenceErrors(n))
    BY <2>1, KnowledgeBaseAssumption, ReferencesFit DEF MetadataErrors
  <2>4. ~(\E n \in Known : LinkErrors(n))
    BY <2>1, KnowledgeBaseAssumption, LinksFit
  <2>5. Errors \subseteq {"backlink"}
    BY <2>2, <2>3, <2>4 DEF Errors
  <2>6. ASSUME \A w \in Writer : pc[w] = "idle", ~crashed PROVE Errors = {}
    <3>1. ~(\E n \in Artifacts : BacklinkErrors(n))
      BY <2>1, <2>6, KnowledgeBaseAssumption, BacklinksFit
    <3>. QED  BY <2>5, <3>1 DEF Errors
  <2>. QED  BY <2>5, <2>6
<1>. QED  BY <1>1, ValidHolds, PTL

=============================================================================
