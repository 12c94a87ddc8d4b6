---------------------------- MODULE CommandLedger ----------------------------
(***************************************************************************)
(* What a client that does not hear an answer may rely on: it can repeat a *)
(* command or a comment under its id as often as it likes.  The ledger     *)
(* takes the first one in and never changes it, and answers every use of   *)
(* the id that looks after that from it.  Two uses may both find the id    *)
(* unused; the later one is answered from the ledger as well, unless what  *)
(* it does is conditional: then it may be told that it failed, although    *)
(* the first was carried out.                                              *)
(*                                                                         *)
(* SharedKnowledge is shown to implement this module, although requests    *)
(* about one id run at the same time, look for each other before either    *)
(* has committed, and may die at any step.                                 *)
(***************************************************************************)

CONSTANTS
  CommandId,  \* the ids, which clients choose
  Client,     \* who uses them
  NoEntry,    \* an id that is unused
  NoUse,      \* a client that is not trying to use an id
  Refusal,    \* the answer to another use of an id
  Failure     \* the answer to a conditional use that failed

VARIABLES
  entry,   \* id -> the row it made, and what it was used for
  trying,  \* client -> its use of an id that it has found unused
  answers  \* what clients were told about which use of an id

ledgerVars == <<entry, trying, answers>>

LedgerInit ==
  /\ entry = [id \in CommandId |-> NoEntry]
  /\ trying = [c \in Client |-> NoUse]
  /\ answers = {}

Used(id) == entry[id] # NoEntry
Answers(a, use) == a.key = use.key /\ a.value = use.value
Leaves(c) == trying' = [trying EXCEPT ![c] = NoUse]

\* Only an id that is unused is tried.
Try(c) ==
  /\ trying[c] = NoUse /\ trying'[c] # NoUse
  /\ ~Used(trying'[c].key)
  /\ trying' = [trying EXCEPT ![c] = trying'[c]]
  /\ UNCHANGED <<entry, answers>>

\* The first use of an id is carried out and told the row that it made.
CarryOut(c, a) ==
  /\ trying[c] # NoUse /\ Answers(a, trying[c])
  /\ ~Used(a.key) /\ a.answer \notin {Refusal, Failure}
  /\ entry' = [entry EXCEPT ![a.key] = [id |-> a.answer, value |-> a.value]]
  /\ answers' = answers \cup {a}
  /\ Leaves(c)

\* The same use of it is told of that row, another use is refused.
Repeat(c, a) ==
  /\ trying[c] # NoUse => Answers(a, trying[c])
  /\ a.key \in CommandId /\ Used(a.key)
  /\ a.answer = IF a.value = entry[a.key].value THEN entry[a.key].id ELSE Refusal
  /\ answers' = answers \cup {a}
  /\ Leaves(c)
  /\ UNCHANGED entry

\* A conditional use fails, even if the first use of the id is why.
Fail(c, a) ==
  /\ trying[c] # NoUse /\ Answers(a, trying[c])
  /\ trying[c].conditional /\ a.answer = Failure
  /\ answers' = answers \cup {a}
  /\ Leaves(c)
  /\ UNCHANGED entry

\* A client gives up without an answer.
Lose(c) == Leaves(c) /\ UNCHANGED <<entry, answers>>

LedgerNext ==
  \E c \in Client :
    \/ Lose(c) \/ Try(c)
    \/ \E a \in answers' : CarryOut(c, a) \/ Repeat(c, a) \/ Fail(c, a)

LedgerSpec == LedgerInit /\ [][LedgerNext]_ledgerVars

=============================================================================
