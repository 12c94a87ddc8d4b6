-------------------------- MODULE MCSharedKnowledge --------------------------
(* Small instances of SharedKnowledge for TLC. *)
EXTENDS SharedKnowledge, TLC

CONSTANTS r1, r2, n1

TwoRequests == {r1, r2}
OneName == {n1}

RequestSymmetry == Permutations(TwoRequests)

Asked(op, t, type, uri, upload) ==
  [op |-> op, key |-> [table |-> t, name |-> n1],
   value |-> [c \in Column |-> IF c = "type" THEN type ELSE uri],
   upload |-> upload, conditional |-> FALSE]

\* Two views, two sources and an upload under one name, and two uses of a
\* command's id, one of them conditional.
GivenAsks ==
  {Asked("put", t, 0, 0, FALSE) : t \in Table} \cup {Asked("drop", t, 0, 0, FALSE) : t \in Named}
  \cup {[Asked("put", "command", 1, 0, FALSE) EXCEPT !.conditional = TRUE],
        Asked("put", "view", 0, MaxRequests + 1, FALSE),
        Asked("put", "source", 0, MaxRequests + 1, FALSE),
        Asked("put", "source", 1, 0, TRUE)}

=============================================================================
