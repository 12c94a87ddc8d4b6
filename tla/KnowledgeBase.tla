---------------------------- MODULE KnowledgeBase ----------------------------
(* The file knowledge base of a workspace, as the repository's scripts keep it:
   kb_new_artifact.py creates a note and then edits each parent to link back to
   it, kb_validate.py reports what is wrong with the notes, the enforce_hef_chain
   hook refuses some of the agent's own writes, and telemetry.py counts the notes.
   Several agent sessions work in one directory and nothing locks it: an id is
   read from the directory, a parent is read and rewritten whole. *)
EXTENDS Naturals, Sequences, FiniteSets

CONSTANTS
  Writer,        \* runs of kb_new_artifact.py that may overlap
  Kinds,         \* the prefixes that are created
  Related,       \* notes that a run may be asked to link to (--link)
  Slug,          \* slugs of titles, in alphabetical order
  MaxId,         \* bound: the serial number of a note. The scripts know notes by a
                 \* serial of three digits: after 999 the next is 1000 for ever
  MaxCreations,  \* bound: runs of kb_new_artifact.py
  MaxIrregular   \* bound: runs given parents that do not fit, and notes the agent
                 \* writes with its own tools

Kind == {"H", "E", "F", "L", "CR", "SR"}

ASSUME KnowledgeBaseAssumption ==
  /\ Kinds \subseteq Kind
  /\ Related \subseteq (Kind \X Nat) \cup {<<"ACTIVE", 0>>, <<"CHALLENGE", 0>>, <<"DASHBOARD", 0>>}
  /\ Slug \subseteq Nat \ {0} /\ Slug # {}
  /\ {MaxId, MaxCreations, MaxIrregular} \subseteq Nat /\ MaxId <= 999

(* Names and paths. A note is named by its id, its file also by a slug. *)
Active    == <<"ACTIVE", 0>>
Challenge == <<"CHALLENGE", 0>>
Dashboard == <<"DASHBOARD", 0>>
SpecialNotes == {Active, Challenge, Dashboard}
NoName == <<"none", 0>>

Name == (Kind \X (1..MaxId)) \cup SpecialNotes
Path == ((Kind \X (1..MaxId)) \X Slug) \cup (SpecialNotes \X {0})

Field == {"hypothesis", "experiment", "review", "target"}
NoRefs == [f \in Field |-> NoName]

\* The metadata fields that name a parent, and the prefix a field must name.
ParentFields(kind) ==
  CASE kind = "E"  -> {"hypothesis"}
    [] kind = "F"  -> {"hypothesis", "experiment"}
    [] kind = "CR" -> {"target"}
    [] kind = "SR" -> {"review"}
    [] OTHER       -> {}
Mandatory(kind) == IF kind = "CR" THEN {} ELSE ParentFields(kind)
Prefix(field) ==
  CASE field = "hypothesis" -> "H" [] field = "experiment" -> "E" [] OTHER -> "CR"

\* "plain": the metadata line shows a bare id; the templates show a wikilink.
Note == [refs : [Field -> Name \cup {NoName}], links : SUBSET Name, plain : BOOLEAN]

Request == [kind : Kinds, slug : Slug, refs : [Field -> Name \cup {NoName}],
            extra : Name \cup {NoName}]

VARIABLES
  files,     \* path -> note
  pc, req, id, todo,  \* of a run: its step, arguments, new id and parents to edit
  buffer,    \* of a run: the parent's path and text as read
  conflict,  \* history: two runs with one prefix or one parent have overlapped
  crashed,   \* history: a run was killed half way
  loose,     \* budget: runs with parents of the wrong kind, or at odds
  hand,      \* history: paths the agent has written itself
  created    \* budget: runs started

vars == <<files, pc, req, id, todo, buffer, conflict, crashed, loose, hand, created>>

\* The parents a set of fields names, NoName left out.
Parents(kind, refs) == {refs[f] : f \in ParentFields(kind)} \ {NoName}

PathsOf(name) == {p \in DOMAIN files : p[1] = name}
Exists(name)  == PathsOf(name) # {}

\* resolve_note_path, and the note the validator keeps for an id: of two files
\* with one id, the first in alphabetical order.
IsFirst(p) == p \in DOMAIN files /\ \A q \in PathsOf(p[1]) : p[2] <= q[2]
NoteOf(name) == files[CHOOSE p \in PathsOf(name) : IsFirst(p)]

Serials(kind) == {p[1][2] : p \in {q \in DOMAIN files : q[1][1] = kind}}

\* (defect: the highest serial itself)
IsHighest(kind, n) ==
  /\ \A m \in Serials(kind) : m <= n
  /\ n = 1 \/ n \in Serials(kind)

\* next_id: one more than the highest serial in the directory.
IsNext(kind, n) ==
  /\ \A m \in Serials(kind) : m < n
  /\ n = 1 \/ n - 1 \in Serials(kind)

\* Links of a new note: build_links.
LinksOf(kind, refs, extra) ==
  {Active, Challenge} \cup Parents(kind, refs) \cup ({extra} \ {NoName})

\* (defect: only the notes of --link are asked to link back)
ExtraTargets(r) == IF r.extra = NoName THEN <<>> ELSE <<r.extra>>

\* backlink_targets, in order.
BacklinkTargets(r) ==
  LET one(n) == IF n = NoName THEN <<>> ELSE <<n>>
      parents ==
        CASE r.kind = "E"  -> one(r.refs["hypothesis"])
          [] r.kind = "F"  -> one(r.refs["hypothesis"]) \o one(r.refs["experiment"])
          [] r.kind = "CR" -> one(r.refs["target"])
          [] r.kind = "SR" -> one(r.refs["review"])
          [] OTHER         -> <<>>
  IN  parents \o one(r.extra)

ParentSet(r) == Parents(r.kind, r.refs) \cup ({r.extra} \ {NoName})

Targets(seq) == {seq[i] : i \in DOMAIN seq}

NoNote    == [refs |-> NoRefs, links |-> {}, plain |-> FALSE]
NoRequest == [kind |-> "none", slug |-> 0, refs |-> NoRefs, extra |-> NoName]
NoBuffer  == [path |-> <<NoName, 0>>, note |-> NoNote]

Init ==
  /\ files = [p \in SpecialNotes \X {0} |->
                [NoNote EXCEPT !.links = SpecialNotes \ {p[1]}]]
  /\ pc = [w \in Writer |-> "idle"]
  /\ req = [w \in Writer |-> NoRequest]
  /\ id = [w \in Writer |-> NoName]
  /\ todo = [w \in Writer |-> <<>>]
  /\ buffer = [w \in Writer |-> NoBuffer]
  /\ conflict = FALSE /\ crashed = FALSE /\ loose = 0 /\ hand = {} /\ created = 0

(* kb_new_artifact.py *)

\* What argparse and main require of the arguments: mandatory parents are given
\* and every note that is named exists, whatever its kind.
Accepted(r) ==
  /\ \A f \in Mandatory(r.kind) : r.refs[f] # NoName
  /\ \A n \in ParentSet(r) : Exists(n)

\* The parents are of the right kind and agree with each other.
Sound(r) ==
  /\ \A f \in Mandatory(r.kind) : r.refs[f][1] = Prefix(f)
  /\ r.kind = "F" =>
       NoteOf(r.refs["experiment"]).refs["hypothesis"] = r.refs["hypothesis"]

\* Two runs that get in each other's way: they take their id from one directory
\* before either has written, or have a parent to edit in common.
Conflicts(w, r) ==
  \E v \in Writer \ {w} :
    \/ pc[v] = "write" /\ req[v].kind = r.kind
    \/ pc[v] # "idle" /\ Targets(todo[v]) \cap ParentSet(r) # {}

\* A run starts: arguments checked, parents found, id taken. What was found is
\* never removed, so the checks and the id are one step.
Begin(w, r) ==
  /\ Accepted(r)
  /\ Sound(r) \/ loose + Cardinality(hand) < MaxIrregular
  /\ \E n \in 1..MaxId : IsNext(r.kind, n) /\ id' = [id EXCEPT ![w] = <<r.kind, n>>]
  /\ req' = [req EXCEPT ![w] = r]
  /\ todo' = [todo EXCEPT ![w] = BacklinkTargets(r)]
  /\ pc' = [pc EXCEPT ![w] = "write"]
  /\ conflict' = (conflict \/ Conflicts(w, r))
  /\ loose' = IF Sound(r) THEN loose ELSE loose + 1
  /\ created' = created + 1
  /\ UNCHANGED <<files, buffer, crashed, hand>>

NewNote(r) ==
  [refs |-> r.refs, links |-> LinksOf(r.kind, r.refs, r.extra), plain |-> FALSE]

\* The run goes on with the parents that are left, or ends.
Done(w, rest) ==
  /\ todo' = [todo EXCEPT ![w] = rest]
  /\ IF rest = <<>>
     THEN /\ pc' = [pc EXCEPT ![w] = "idle"]
          /\ req' = [req EXCEPT ![w] = NoRequest]
          /\ id' = [id EXCEPT ![w] = NoName]
     ELSE pc' = [pc EXCEPT ![w] = "read"] /\ UNCHANGED <<req, id>>

\* artifact_path.write_text: a file of that name is replaced.
WriteArtifact(w) ==
  /\ pc[w] = "write"
  /\ LET path == <<id[w], req[w].slug>>
     IN  files' = [p \in DOMAIN files \cup {path} |->
                     IF p = path THEN NewNote(req[w]) ELSE files[p]]
  /\ Done(w, todo[w])
  /\ UNCHANGED <<buffer, conflict, crashed, loose, hand, created>>

\* add_link_to_note, its read: the note may already have the link.
ReadParent(w) ==
  /\ pc[w] = "read"
  /\ \E p \in PathsOf(Head(todo[w])) :
       /\ IsFirst(p)
       /\ IF id[w] \in files[p].links
          THEN Done(w, Tail(todo[w])) /\ UNCHANGED buffer
          ELSE /\ buffer' = [buffer EXCEPT ![w] = [path |-> p, note |-> files[p]]]
               /\ pc' = [pc EXCEPT ![w] = "edit"]
               /\ UNCHANGED <<todo, req, id>>
  /\ UNCHANGED <<files, conflict, crashed, loose, hand, created>>

\* (defect: the section is replaced, not extended)
Relinked(note, name) == [note EXCEPT !.links = {name}]

WithLink(note, name) == [note EXCEPT !.links = @ \cup {name}]

\* add_link_to_note, its write: the text that was read, with one more link.
WriteParent(w) ==
  /\ pc[w] = "edit"
  /\ files' = [files EXCEPT ![buffer[w].path] = WithLink(buffer[w].note, id[w])]
  /\ buffer' = [buffer EXCEPT ![w] = NoBuffer]
  /\ Done(w, Tail(todo[w]))
  /\ UNCHANGED <<conflict, crashed, loose, hand, created>>

\* The run is killed: its session was interrupted or its turn timed out.
Crash(w) ==
  /\ pc[w] # "idle"
  /\ Done(w, <<>>)
  /\ buffer' = [buffer EXCEPT ![w] = NoBuffer]
  /\ crashed' = TRUE
  /\ UNCHANGED <<files, conflict, loose, hand, created>>

(* The agent's own Write tool, behind enforce_hef_chain.sh. *)

\* (defect: the hook lets any reference pass)
HookGlances(kind, refs) == \A f \in Mandatory(kind) : refs[f] # NoName

\* The hook looks for a hypothesis only in an experiment and for an experiment
\* only in a finding; other notes pass.
HookAllows(kind, refs) ==
  /\ kind = "E" => refs["hypothesis"][1] = "H" /\ Exists(refs["hypothesis"])
  /\ kind = "F" => refs["experiment"][1] = "E" /\ Exists(refs["experiment"])

\* A note of the agent's is new, with the id kb_next_id.py prints, or rewritten.
\* It names its parents as the hook's message asks for, by bare ids.
WriteByHand(path, refs) ==
  /\ path \in DOMAIN files \/ IsNext(path[1][1], path[1][2])
  /\ HookAllows(path[1][1], refs)
  /\ files' = [p \in DOMAIN files \cup {path} |->
                 IF p = path
                 THEN [refs |-> refs, plain |-> TRUE,
                       links |-> LinksOf(path[1][1], refs, NoName)]
                 ELSE files[p]]
  /\ hand' = hand \cup {path}
  /\ UNCHANGED <<pc, req, id, todo, buffer, conflict, crashed, loose, created>>

\* What a run may be asked for: notes that exist, any of them as a parent.
Known == {p[1] : p \in DOMAIN files}
RefsOver(kind, names) ==
  {[f \in Field |-> IF f \in ParentFields(kind) THEN g[f] ELSE NoName] :
     g \in [ParentFields(kind) -> names \cup {NoName}]}

Create(w) ==
  /\ pc[w] = "idle" /\ created < MaxCreations
  /\ \E k \in Kinds, s \in Slug, x \in (Related \cap Known) \cup {NoName} :
       \E refs \in RefsOver(k, Known) :
         Begin(w, [kind |-> k, slug |-> s, refs |-> refs, extra |-> x])

AgentWrites ==
  /\ loose + Cardinality(hand) < MaxIrregular
  /\ \E k \in Kinds \cap {"E", "F"}, n \in 1..MaxId, s \in Slug :
       \E refs \in RefsOver(k, {"H", "E"} \X (1..MaxId)) :
         /\ \A f \in ParentFields(k) : refs[f] = NoName \/ refs[f][1] = Prefix(f)
         /\ WriteByHand(<<<<k, n>>, s>>, refs)

Next ==
  \/ AgentWrites
  \/ \E w \in Writer :
       Create(w) \/ WriteArtifact(w) \/ ReadParent(w) \/ WriteParent(w) \/ Crash(w)

Spec == Init /\ [][Next]_vars

(* kb_validate.py *)

Artifacts == Known \ SpecialNotes

\* validate_ref, and the checks that go with it.
ReferenceErrors(name) ==
  LET kind == name[1]
      note == NoteOf(name)
      ref(f) == note.refs[f]
  IN  \/ \E f \in ParentFields(kind) :
           /\ ref(f) # NoName
           /\ ref(f) \notin Known \/ (kind # "CR" /\ ref(f)[1] # Prefix(f))
      \/ /\ kind = "F" /\ ref("experiment") \in Artifacts
         /\ NoteOf(ref("experiment")).refs["hypothesis"] \notin
              {NoName, ref("hypothesis")}
         /\ ref("hypothesis") # NoName

\* required_links_for
RequiredLinks(name) ==
  IF name \in SpecialNotes
  THEN CASE name = Active -> {Challenge}
         [] name = Challenge -> {Active, Dashboard}
         [] OTHER -> {Active, Challenge}
  ELSE {Active, Challenge} \cup Parents(name[1], NoteOf(name).refs)

LinkErrors(name) ==
  \/ ~(NoteOf(name).links \subseteq Known)
  \/ ~(RequiredLinks(name) \subseteq NoteOf(name).links)

BacklinkErrors(name) ==
  \E parent \in Parents(name[1], NoteOf(name).refs) \cap Known :
    name \notin NoteOf(parent).links

\* Two files of one id, and a field that a kind requires and a note lacks.
DuplicateIds   == \E p \in DOMAIN files : ~IsFirst(p)
MetadataErrors ==
  \E n \in Artifacts : \E f \in Mandatory(n[1]) : NoteOf(n).refs[f] = NoName

\* The checks that fail, over the whole graph.
Errors ==
  {c \in {"duplicate_id", "metadata", "reference", "links", "backlink"} :
     CASE c = "duplicate_id" -> DuplicateIds
       [] c = "metadata"     -> MetadataErrors
       [] c = "reference"    -> \E n \in Artifacts : ReferenceErrors(n)
       [] c = "links"        -> \E n \in Known : LinkErrors(n)
       [] c = "backlink"     -> \E n \in Artifacts : BacklinkErrors(n)}

(* telemetry.py, build_snapshot *)

\* The hypotheses that experiments name, as the snapshot reads them: a wikilink
\* in the metadata line hides the id in the frontmatter.
ExperimentHypotheses ==
  {files[p].refs["hypothesis"] : p \in {q \in DOMAIN files : q[1][1] = "E" /\ files[q].plain}}

Hypotheses == {n \in Artifacts : n[1] = "H"}
CountHWithoutE == Cardinality(Hypotheses \ ExperimentHypotheses)

(* Properties *)

\* Every variable has its type.
TypeOK ==
  /\ DOMAIN files \subseteq Path /\ \A p \in DOMAIN files : files[p] \in Note
  /\ pc \in [Writer -> {"idle", "write", "read", "edit"}]
  /\ req \in [Writer -> Request \cup {NoRequest}]
  /\ id \in [Writer -> Name \cup {NoName}]
  /\ todo \in [Writer -> Seq(Name)]
  /\ buffer \in [Writer -> [path : Path, note : Note] \cup {NoBuffer}]
  /\ conflict \in BOOLEAN /\ crashed \in BOOLEAN
  /\ loose \in Nat /\ created \in Nat /\ hand \subseteq Path

\* Whatever runs overlap, are killed or are asked for, and whatever the agent
\* writes past the hook: the parent of every experiment and the experiment of
\* every finding is a note that exists, so the H -> E -> F chain has no gap.
ChainHolds ==
  \A p \in DOMAIN files :
    /\ p[1][1] = "E" => Exists(files[p].refs["hypothesis"])
    /\ p[1][1] = "F" => Exists(files[p].refs["experiment"])

\* A note links to its mission, to the active state and to its parents whatever
\* older copy of it another run writes back.
OwnLinksKept ==
  \A p \in DOMAIN files :
    p[1] \notin SpecialNotes =>
      LinksOf(p[1][1], files[p].refs, NoName) \subseteq files[p].links

\* Runs that neither take an id together nor share a parent never spoil each
\* other's work: two files have one id, or a note is cut off from its parent,
\* only after such a conflict, a kill or a write by hand.
UniqueIds ==
  ~conflict /\ hand = {} => \A p \in DOMAIN files : IsFirst(p)

\* The creator satisfies the validator, unless runs were in conflict or were given
\* parents that do not fit: at any moment, and after a kill, all that the validator
\* may miss is backlinks, which can be put right by adding links to parents; and
\* once every run has ended, none of them killed, it finds nothing.
CreatedNotesValidate ==
  ~conflict /\ loose = 0 /\ hand = {} =>
    /\ Errors \subseteq {"backlink"}
    /\ (\A w \in Writer : pc[w] = "idle") /\ ~crashed => Errors = {}

\* The snapshot counts the hypotheses that have no experiment.
SnapshotCounts ==
  CountHWithoutE =
    Cardinality({h \in Hypotheses :
                   \A p \in DOMAIN files :
                     p[1][1] = "E" => files[p].refs["hypothesis"] # h})

=============================================================================
