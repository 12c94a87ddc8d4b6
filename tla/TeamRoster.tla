----------------------------- MODULE TeamRoster -----------------------------
(* What the members of a project may rely on: roles change one at a time, an owner
   remains, and every change is told in an event that comes after the events of
   all earlier changes, to each client in that order and without a gap.

   TeamAccess is shown to implement this module, although changes run at once in
   transactions that can be killed, and draw their numbers before they commit. *)
EXTENDS Naturals

CONSTANTS
  Member,   \* people who are or may be members
  Role, NoRole, Owner,
  Follower  \* clients that follow the event log

VARIABLES
  roles,  \* person -> role
  trail,  \* the events about members
  seen    \* client -> those of them it was sent

rosterVars == <<roles, trail, seen>>

Owned(r) == \E m \in Member : r[m] = Owner

RosterInit ==
  /\ roles \in [Member -> Role \cup {NoRole}] /\ Owned(roles)
  /\ trail = {} /\ seen = [k \in Follower |-> {}]

\* A member is added, promoted, demoted or removed.
ChangeRole(e) ==
  /\ e.role = NoRole => roles[e.target] # NoRole
  /\ roles' = [roles EXCEPT ![e.target] = e.role] /\ Owned(roles')
  /\ \A f \in trail : f.seq < e.seq
  /\ trail' = trail \cup {e}
  /\ UNCHANGED seen

InOrder(events) == \A e, f \in trail : e.seq < f.seq /\ f \in events => e \in events

\* A client is sent what it has not seen, or starts over.
Follow(k) ==
  /\ \E events \in SUBSET trail :
       /\ seen' = [seen EXCEPT ![k] = events]
       /\ InOrder(events) /\ (seen[k] \subseteq events \/ events = {})
  /\ UNCHANGED <<roles, trail>>

RosterNext ==
  \/ \E e \in trail' \ trail : ChangeRole(e)
  \/ \E k \in Follower : Follow(k)

RosterSpec == RosterInit /\ [][RosterNext]_rosterVars

=============================================================================
