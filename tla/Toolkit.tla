------------------------------ MODULE Toolkit ------------------------------
(***************************************************************************)
(* The libraries of the repository beside each other: the elections behind *)
(* their manager, the locks, the partition coordinator, and the packages   *)
(* for quorums, service discovery, replicated types, clocks, rate limits   *)
(* and data structures.  No package calls another, so a behaviour is of    *)
(* one of them, chosen at first; the others rest as they were initialised. *)
(***************************************************************************)
EXTENDS ElectionManager, LockService, PartitionCoordinator, QuorumSystem,
        ServiceRegistry, CRDT, LogicalClocks, RateLimiters, HashRing,
        BloomFilters, MerkleTrees

CONSTANT ToolkitParts  \* those to look at

ASSUME ToolkitAssumption ==
  ToolkitParts \subseteq {"election", "lock", "partition", "quorum", "registry", "crdt",
                          "clock", "limiter", "ring", "bloom", "merkle"}

VARIABLE part

toolkitVars == <<electionVars, lockServiceVars, vars, quorumVars, serviceVars,
                 cVars, lVars, rVars, hVars, bVars, mVars, part>>

\* A part that rests has only one way to be initialised
Resting(name, choice) == part # name => choice

ToolkitInit ==
  /\ part \in ToolkitParts
  /\ ElectionInit /\ Resting("election", algorithm = CHOOSE a \in Algorithms : TRUE)
  /\ LockServiceInit
  /\ Resting("lock", lockPart = CHOOSE p \in LockParts : p # "lock")
  /\ Init /\ QuorumInit /\ RegistryInit
  /\ CInit /\ Resting("crdt", cType = CHOOSE t \in CTypes : TRUE)
  /\ LInit
  /\ RInit /\ Resting("limiter", rKind = CHOOSE k \in RKinds : TRUE)
  /\ HInit /\ Resting("ring", hVirtual = [n \in HNodes |-> {}])
  /\ BInit
  /\ Resting("bloom", /\ bKind = CHOOSE k \in BKinds : TRUE
                      /\ bSeeds = [e \in BElements |-> <<0, 0>>])
  /\ MInit
  /\ Resting("merkle", /\ mBuckets = CHOOSE b \in {c[1] : c \in MBucketings} : TRUE
                       /\ \A s \in MSizes : Len(mCopy[1]) <= s)

ToolkitNext ==
  \/ part = "election" /\ ElectionNext
     /\ UNCHANGED <<part, lockServiceVars, vars, quorumVars, serviceVars, cVars, lVars, rVars, hVars, bVars, mVars>>
  \/ part = "lock" /\ LockServiceNext
     /\ UNCHANGED <<part, electionVars, vars, quorumVars, serviceVars, cVars, lVars, rVars, hVars, bVars, mVars>>
  \/ part = "partition" /\ Next
     /\ UNCHANGED <<part, electionVars, lockServiceVars, quorumVars, serviceVars, cVars, lVars, rVars, hVars, bVars, mVars>>
  \/ part = "quorum" /\ QuorumNext
     /\ UNCHANGED <<part, electionVars, lockServiceVars, vars, serviceVars, cVars, lVars, rVars, hVars, bVars, mVars>>
  \/ part = "registry" /\ RegistryNext
     /\ UNCHANGED <<part, electionVars, lockServiceVars, vars, quorumVars, cVars, lVars, rVars, hVars, bVars, mVars>>
  \/ part = "crdt" /\ CNext
     /\ UNCHANGED <<part, electionVars, lockServiceVars, vars, quorumVars, serviceVars, lVars, rVars, hVars, bVars, mVars>>
  \/ part = "clock" /\ LNext
     /\ UNCHANGED <<part, electionVars, lockServiceVars, vars, quorumVars, serviceVars, cVars, rVars, hVars, bVars, mVars>>
  \/ part = "limiter" /\ RNext
     /\ UNCHANGED <<part, electionVars, lockServiceVars, vars, quorumVars, serviceVars, cVars, lVars, hVars, bVars, mVars>>
  \/ part = "ring" /\ HNext
     /\ UNCHANGED <<part, electionVars, lockServiceVars, vars, quorumVars, serviceVars, cVars, lVars, rVars, bVars, mVars>>
  \/ part = "bloom" /\ BNext
     /\ UNCHANGED <<part, electionVars, lockServiceVars, vars, quorumVars, serviceVars, cVars, lVars, rVars, hVars, mVars>>
  \/ part = "merkle" /\ MNext
     /\ UNCHANGED <<part, electionVars, lockServiceVars, vars, quorumVars, serviceVars, cVars, lVars, rVars, hVars, bVars>>

ToolkitSpec == ToolkitInit /\ [][ToolkitNext]_toolkitVars
=============================================================================
