-------------------------- MODULE ElectionManager --------------------------
(***************************************************************************)
(* src/leader-election/src/election_manager.py and fencing.py: one of the  *)
(* three algorithms behind one interface, and a FencingTokenManager per    *)
(* node that issues a token when the algorithm reports that its own node   *)
(* leads.                                                                  *)
(*                                                                         *)
(* All nodes of a cluster use the same algorithm, which is chosen once.    *)
(* The manager's callback runs inside the handler that changes the leader, *)
(* so it belongs to the algorithm's step.                                  *)
(***************************************************************************)
EXTENDS BullyElection, RingElection, LeaseElection

CONSTANTS
  Algorithms,   \* those among which a cluster chooses
  MaxEpoch      \* bound: epochs stop growing here

VARIABLES
  algorithm,    \* "bully", "ring" or "lease"
  epoch         \* current_epoch of each node's FencingTokenManager; 0 is no token

managerVars == <<algorithm, epoch>>
electionVars == <<bullyVars, ringVars, leaseVars, managerVars>>

ElectionInit ==
  /\ BullyInit /\ RingInit /\ LeaseInit
  /\ algorithm \in Algorithms
  /\ epoch = [n \in BullyNodes \cup RingNodes \cup LeaseNodes |-> 0]

\* is_leader
IsLeader(n) ==
  CASE algorithm = "bully" -> n \in BullyNodes /\ bLeads[n]
    [] algorithm = "ring"  -> n \in RingNodes /\ rLeads[n]
    [] algorithm = "lease" -> n \in LeaseNodes /\ lLeads[n]

\* issue_token at every node of `led`, the nodes that report themselves
Issue(led) ==
  epoch' = [n \in DOMAIN epoch |->
              IF n \in led /\ epoch[n] < MaxEpoch THEN epoch[n] + 1 ELSE epoch[n]]

\* _notify_leader_change with the node itself.  Bully compares with the leader it
\* knew; the other two report every passage of the flag.
ElectionNext ==
  \/ /\ algorithm = "bully"
     /\ BullyNext
     /\ Issue({n \in BullyNodes : bLeader[n] # n /\ bLeader'[n] = n})
     /\ UNCHANGED <<ringVars, leaseVars, algorithm>>
  \/ /\ algorithm = "ring"
     /\ RingNext
     /\ Issue({n \in RingNodes : ~rLeads[n] /\ rLeads'[n]})
     /\ UNCHANGED <<bullyVars, leaseVars, algorithm>>
  \/ /\ algorithm = "lease"
     /\ LeaseNext
     /\ Issue({n \in LeaseNodes : ~lLeads[n] /\ lLeads'[n]})
     /\ UNCHANGED <<bullyVars, ringVars, algorithm>>

ElectionSpec ==
  /\ ElectionInit
  /\ [][ElectionNext]_electionVars
  /\ BullyFairness /\ RingFairness

(***************************************************************************)
(* Properties                                                              *)
(***************************************************************************)
ElectionTypeOK == BullyTypeOK /\ RingTypeOK /\ LeaseTypeOK /\ epoch \in [DOMAIN epoch -> 0..MaxEpoch]
=============================================================================
