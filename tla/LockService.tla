---------------------------- MODULE LockService ----------------------------
(***************************************************************************)
(* The parts of src/distributed-locks beside each other.  They share       *)
(* nothing at run time, so a behaviour is of one part, chosen at first.    *)
(***************************************************************************)
EXTENDS DistributedLock, Redlock, DeadlockDetector

CONSTANT LockParts  \* the parts to look at: "lock", "redlock", "deadlock"

VARIABLE lockPart

lockServiceVars == <<lockVars, redVars, waitVars, lockPart>>

LockServiceInit ==
  /\ lockPart \in LockParts
  /\ LockInit /\ RedInit /\ WaitInit
  /\ lockPart # "lock" => dUsage = CHOOSE u \in LockUsages : TRUE

LockServiceNext ==
  \/ lockPart = "lock" /\ LockNext /\ UNCHANGED <<redVars, waitVars, lockPart>>
  \/ lockPart = "redlock" /\ RedNext /\ UNCHANGED <<lockVars, waitVars, lockPart>>
  \/ lockPart = "deadlock" /\ WaitNext /\ UNCHANGED <<lockVars, redVars, lockPart>>

LockServiceSpec == LockServiceInit /\ [][LockServiceNext]_lockServiceVars

\* The variables of the three parts keep their types.
LockServiceTypeOK == LockTypeOK /\ RedTypeOK /\ WaitTypeOK
=============================================================================
