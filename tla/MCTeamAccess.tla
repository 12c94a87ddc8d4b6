---------------------------- MODULE MCTeamAccess ----------------------------
(* Small instances of TeamAccess for TLC. *)
EXTENDS TeamAccess, TLC

CONSTANTS ann, bob, q1, q2, k1, k2

TwoPeople == {ann, bob}
TwoRequests == {q1, q2}
TwoSockets == {k1, k2}

\* Requests differ only by name, and so do sockets.
HandlerSymmetry == Permutations(TwoRequests) \cup Permutations(TwoSockets)

Plain(kind) == [kind |-> kind, target |-> ann, role |-> "VIEWER"]
GivenCommands ==
  {[kind |-> "set", target |-> s, role |-> r] : s \in TwoPeople, r \in {"EDITOR", "OWNER"}}
  \cup {[kind |-> "remove", target |-> s, role |-> "VIEWER"] : s \in TwoPeople}
  \cup {Plain("act"), Plain("draft"), Plain("steer"), Plain("ticket")}

=============================================================================
