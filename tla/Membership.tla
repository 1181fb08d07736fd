----------------------------- MODULE Membership -----------------------------
(***************************************************************************)
(* Membership of gossip-protocol, for what several nodes hold of one other  *)
(* member: updates of its status, whoever makes them, and membership lists  *)
(* merged in any order and more than once.                                  *)
(***************************************************************************)
EXTENDS Integers

CONSTANTS
  VNodes,           \* the nodes that hold a view of the member
  VMaxIncarnation   \* bound: incarnations

ASSUME MembershipAssumption == VMaxIncarnation \in Nat

VARIABLES
  vView,   \* the Member each node holds
  vHeard   \* history: the updates that have reached each node

membershipVars == <<vView, vHeard>>

\* LEFT is never given to a member.
Updates == [status : {"ALIVE", "SUSPECT", "DEAD"}, incarnation : 0..VMaxIncarnation]

Unknown == [status |-> "UNKNOWN", incarnation |-> -1]

MembershipInit ==
  /\ vView = [n \in VNodes |-> Unknown]
  /\ vHeard = [n \in VNodes |-> {}]

Rank(status) ==
  CASE status = "ALIVE" -> 0 [] status = "SUSPECT" -> 1 [] status = "DEAD" -> 2

\* Variant: a lower status of the same incarnation is taken too
Latest(new, current) == new.incarnation >= current.incarnation

Overrides(new, current) ==
  \/ new.incarnation > current.incarnation
  \/ new.incarnation = current.incarnation /\ Rank(new.status) > Rank(current.status)

\* update_member for a member other than the node itself
UpdateMember(n, new) ==
  vView' = [vView EXCEPT ![n] = IF Overrides(new, @) THEN new ELSE @]

Learn(n, update) ==
  /\ UpdateMember(n, update)
  /\ vHeard' = [vHeard EXCEPT ![n] = @ \cup {update}]

\* merge_membership_list of what get_all_members_data gave
MergeList(n, m) ==
  /\ vView[m] # Unknown
  /\ UpdateMember(n, vView[m])
  /\ vHeard' = [vHeard EXCEPT ![n] = @ \cup vHeard[m]]

MembershipNext ==
  \E n \in VNodes :
    \/ \E update \in Updates : Learn(n, update)
    \/ \E m \in VNodes : MergeList(n, m)

MembershipSpec == MembershipInit /\ [][MembershipNext]_membershipVars

\* A node holds the update of the highest incarnation it has heard of, at first or
\* second hand, and the gravest of those, in whatever order they came: nodes that
\* have heard the same agree (membership.py:49, "SWIM Dissemination Rules").
ViewIsGravest ==
  \A n \in VNodes : vHeard[n] # {} =>
    /\ vView[n] \in vHeard[n]
    /\ \A update \in vHeard[n] : ~Overrides(update, vView[n])
=============================================================================
