------------------------------- MODULE Cluster -------------------------------
(***************************************************************************)
(* The services whose nodes keep at it until they agree, with what makes    *)
(* them: leader election by bullying and around a ring, gossip, membership  *)
(* lists, and read repair.  In this repository no one calls another, so a behaviour is of   *)
(* one of them, chosen at first; the others rest as they were initialised,  *)
(* where no fairness asks them for a step.                                  *)
(***************************************************************************)
EXTENDS BullyElection, RingElection, Gossip, Membership, ReadRepair

CONSTANT ClusterParts  \* those to look at

ASSUME ClusterAssumption ==
  ClusterParts \subseteq {"bully", "ring", "gossip", "membership", "repair"}

VARIABLE clusterPart

clusterVars == <<bullyVars, ringVars, gossipVars, membershipVars, pVars, clusterPart>>

ClusterInit ==
  /\ clusterPart \in ClusterParts
  /\ BullyInit /\ RingInit /\ MembershipInit /\ PInit
  /\ GossipInit
  /\ clusterPart # "gossip" => gMode = CHOOSE mode \in DOMAIN GCluster : TRUE

ClusterNext ==
  /\ UNCHANGED clusterPart
  /\ \/ /\ clusterPart = "bully"
        /\ BullyNext
        /\ UNCHANGED <<ringVars, gossipVars, membershipVars, pVars>>
     \/ /\ clusterPart = "ring"
        /\ RingNext
        /\ UNCHANGED <<bullyVars, gossipVars, membershipVars, pVars>>
     \/ /\ clusterPart = "gossip"
        /\ GossipNext
        /\ UNCHANGED <<bullyVars, ringVars, membershipVars, pVars>>
     \/ /\ clusterPart = "membership"
        /\ MembershipNext
        /\ UNCHANGED <<bullyVars, ringVars, gossipVars, pVars>>
     \/ /\ clusterPart = "repair"
        /\ PNext
        /\ UNCHANGED <<bullyVars, ringVars, gossipVars, membershipVars>>

ClusterFairness ==
  BullyFairness /\ RingFairness /\ GossipFairness /\ PFairness

ClusterSpec == ClusterInit /\ [][ClusterNext]_clusterVars /\ ClusterFairness

\* The variables of the services keep their types (their constructors).
ClusterTypeOK == BullyTypeOK /\ RingTypeOK /\ GossipTypeOK
=============================================================================
