---------------------------- MODULE QuorumSystem ----------------------------
(***************************************************************************)
(* src/quorum-systems/src/quorum_system.py: a coordinator that writes and  *)
(* reads one key on N replicas through a pool of N threads, and the        *)
(* helpers that pick and check replica sets.                               *)
(*                                                                         *)
(* Operations are numbered in the order they begin; the number of a write  *)
(* is its version and its value, as the code takes the version from the    *)
(* clock when the write begins.  The tasks of an operation enter the       *)
(* pool's queue together and in the order of the replicas.  A task that    *)
(* its operation has given up on still runs.                               *)
(***************************************************************************)
EXTENDS Integers, Sequences, FiniteSets, FiniteSetsExt

CONSTANTS
  QReplicaCount,  \* num_replicas
  QWriteQuorum,   \* config.W
  QReadQuorum,    \* config.R
  QLevels,        \* consistency levels in use
  QMaxOps,        \* bound: operations
  QHanded         \* bound: the replicas whose hints are delivered

QReplicas == 1..QReplicaCount

ASSUME QuorumAssumption ==
  /\ QReplicaCount \in Nat \ {0}   \* QuorumConfig._validate
  /\ QWriteQuorum \in Int /\ QWriteQuorum <= QReplicaCount
  /\ QReadQuorum \in Int /\ QReadQuorum <= QReplicaCount
  /\ QMaxOps \in Nat
  /\ QLevels \subseteq {"ONE", "TWO", "THREE", "QUORUM", "ALL", "LOCAL_ONE"}

(***************************************************************************)
(* Helpers without state                                                   *)
(***************************************************************************)
\* is_strongly_consistent, can_detect_missing_writes
StronglyConsistent(n, w, r) == w + r > n

\* get_quorum_intersection: the first W and the last R of 0..N-1
QuorumIntersection(n, w, r) == (0..(w - 1)) \cap ((n - r)..(n - 1))

\* The k smallest members of a set, or all of them
Lowest(set, k) == {x \in set : Cardinality({y \in set : y < x}) < k}

\* SloppyQuorum.choose_replicas
ChooseReplicas(available, preferred, size) ==
  LET chosen == Lowest(preferred \cap available, size)
  IN  chosen \cup Lowest(available \ chosen, size - Cardinality(chosen))

\* identify_repairs, identify_async_repairs: positions behind the newest version
IdentifyRepairs(versions) ==
  {i \in DOMAIN versions : \E j \in DOMAIN versions : versions[i] < versions[j]}

\* _get_consistency_counts
ConsistencyCount(level, isWrite) ==
  CASE level \in {"ONE", "LOCAL_ONE"} -> 1
    [] level = "TWO" -> Min({2, QReplicaCount})
    [] level = "THREE" -> Min({3, QReplicaCount})
    [] level = "ALL" -> QReplicaCount
    [] OTHER -> IF isWrite THEN QWriteQuorum ELSE QReadQuorum

(***************************************************************************)
(* The coordinator                                                         *)
(***************************************************************************)
VARIABLES
  qStore,  \* version of the key on each replica; 0 when it has none
  qOps,    \* the operations so far
  qHints,  \* versions of the hints kept for each replica
  qGiven   \* history: versions of the hints delivered for it

quorumVars == <<qStore, qOps, qHints, qGiven>>

Versions == 0..QMaxOps

QuorumTypeOK ==
  /\ qStore \in [QReplicas -> Versions]
  /\ DOMAIN qOps \in {1..n : n \in Versions}
  /\ \A o \in DOMAIN qOps :
       /\ qOps[o].kind \in {"write", "read"}
       /\ qOps[o].status \in {"running", "ok", "failed"}
       /\ qOps[o].need \in Int
       /\ qOps[o].ran \subseteq QReplicas                \* its tasks that are over
       /\ qOps[o].got \in [QReplicas -> Versions]        \* what they read
       /\ qOps[o].result \in Versions
       /\ qOps[o].before \subseteq 1..QMaxOps            \* history: writes done before it began
       /\ qOps[o].quiet \in BOOLEAN                      \* history: no task was under way
  /\ qHints \in [QReplicas -> SUBSET Versions]
  /\ qGiven \in [QReplicas -> SUBSET Versions]

QuorumInit ==
  /\ qStore = [r \in QReplicas |-> 0]
  /\ qOps = <<>>
  /\ qHints = [r \in QReplicas |-> {}]
  /\ qGiven = [r \in QReplicas |-> {}]

Writes == {o \in DOMAIN qOps : qOps[o].kind = "write"}

\* Tasks in the queue or on a thread
Pending == {t \in (DOMAIN qOps) \X QReplicas : t[2] \notin qOps[t[1]].ran}

NoAnswers == [r \in QReplicas |-> 0]

\* The first part of write() and read(): all tasks are submitted
Begin(kind, level) ==
  /\ Len(qOps) < QMaxOps
  /\ qOps' = Append(qOps,
       [kind |-> kind, status |-> "running",
        need |-> ConsistencyCount(level, kind = "write"),
        ran |-> {}, got |-> NoAnswers, result |-> 0,
        before |-> {w \in Writes : qOps[w].status = "ok"},
        quiet |-> \A t \in Pending : qOps[t[1]].kind = "read"])
  /\ UNCHANGED <<qStore, qHints, qGiven>>

\* A thread of the pool has come to the task: fewer than N are before it
OnThread(o, r) ==
  Cardinality({t \in Pending : t[1] < o \/ (t[1] = o /\ t[2] < r)}) < QReplicaCount

\* _write_to_replica: whatever version is there
WriteToReplica(o, r) ==
  /\ qOps[o].kind = "write"
  /\ qStore' = [qStore EXCEPT ![r] = o]
  /\ qOps' = [qOps EXCEPT ![o].ran = @ \cup {r}]

\* _read_from_replica
ReadFromReplica(o, r) ==
  /\ qOps[o].kind = "read"
  /\ qOps' = [qOps EXCEPT ![o].ran = @ \cup {r},
                          ![o].got[r] = IF qOps[o].status = "running" THEN qStore[r] ELSE 0]
  /\ UNCHANGED qStore

RunTask(o, r) ==
  /\ r \notin qOps[o].ran
  /\ OnThread(o, r)
  /\ WriteToReplica(o, r) \/ ReadFromReplica(o, r)
  /\ UNCHANGED <<qHints, qGiven>>

\* Variant: one answer less than required will do
EnoughLess(o, answers) == Cardinality(answers) >= qOps[o].need - 1

Enough(o, answers) == Cardinality(answers) >= qOps[o].need

\* Variant: the last replica is passed over
MissedButLast(answers) == (1..(QReplicaCount - 1)) \ answers

\* The replicas a hint is written for
Missed(answers) == QReplicas \ answers

\* The rest of write(): `answers` are the tasks over by the time their future was
\* waited for; the others have timed out
ReturnWrite(o) ==
  /\ qOps[o].kind = "write" /\ qOps[o].status = "running"
  /\ \E answers \in SUBSET qOps[o].ran :
       IF Enough(o, answers)
       THEN /\ qOps' = [qOps EXCEPT ![o].status = "ok"]
            /\ qHints' = [r \in QReplicas |->
                            IF r \in Missed(answers) THEN qHints[r] \cup {o} ELSE qHints[r]]
       ELSE /\ qOps' = [qOps EXCEPT ![o].status = "failed"]
            /\ UNCHANGED qHints
  /\ UNCHANGED <<qStore, qGiven>>

\* The rest of read(): answers without a value do not count
ReturnRead(o) ==
  /\ qOps[o].kind = "read" /\ qOps[o].status = "running"
  /\ \E timely \in SUBSET qOps[o].ran :
       LET answers == {r \in timely : qOps[o].got[r] # 0}
       IN  qOps' = IF Enough(o, answers) /\ answers # {}
                   THEN [qOps EXCEPT ![o].status = "ok", ![o].got = NoAnswers,
                                     ![o].result = Max({qOps[o].got[r] : r \in answers})]
                   ELSE [qOps EXCEPT ![o].status = "failed", ![o].got = NoAnswers]
  /\ UNCHANGED <<qStore, qHints, qGiven>>

\* deliver_hints, which nobody in the repository calls with a replica to write to
DeliverHints(r) ==
  /\ r \in QHanded
  /\ qHints[r] # {}
  /\ qHints' = [qHints EXCEPT ![r] = {}]
  /\ qGiven' = [qGiven EXCEPT ![r] = @ \cup qHints[r]]
  /\ UNCHANGED <<qStore, qOps>>

QuorumNext ==
  \/ \E kind \in {"write", "read"}, level \in QLevels : Begin(kind, level)
  \/ \E o \in DOMAIN qOps :
       \/ ReturnWrite(o) \/ ReturnRead(o)
       \/ \E r \in QReplicas : RunTask(o, r)
  \/ \E r \in QReplicas : DeliverHints(r)

QuorumSpec == QuorumInit /\ [][QuorumNext]_quorumVars

(***************************************************************************)
(* Properties                                                              *)
(***************************************************************************)
\* Every write began when the tasks of the writes before it were over, those
\* given up on included
OneWriteAtATime == \A w \in Writes : qOps[w].quiet

\* A read whose count and a write's add up to more than N returns that write or
\* a newer one, when the write was done before the read began (README.md:101,
\* "W + R > N"): whichever replicas time out and whenever the rest of a write
\* lands.
Regular ==
  \A o \in DOMAIN qOps : qOps[o].kind = "read" /\ qOps[o].status = "ok" =>
    \A w \in qOps[o].before :
      qOps[w].need + qOps[o].need > QReplicaCount => qOps[o].result >= w

\* As long as writes do not overlap with what is left of earlier ones.
ReadsSeeCompletedWrites == OneWriteAtATime => Regular

\* A write that was reported done has come to every replica, or a hint tells that it
\* has not, until that is delivered (quorum_system.py:377).
MissesAreHinted ==
  \A w \in Writes, r \in QReplicas :
    qOps[w].status = "ok" /\ r \notin qOps[w].ran => w \in qHints[r] \cup qGiven[r]

\* The two sets get_quorum_intersection looks at meet exactly when any W and any R
\* replicas meet, and choose_replicas picks as many replicas as it can up to the
\* quorum, none that is unavailable, and an unpreferred one only when it has all
\* preferred ones (quorum_system.py:124, :202).
QuorumMath ==
  /\ \A n \in 1..4 : \A w, r \in 0..n :
       (QuorumIntersection(n, w, r) # {}) <=>
         \A a, b \in SUBSET (0..(n - 1)) :
           Cardinality(a) = w /\ Cardinality(b) = r => a \cap b # {}
  /\ \A available, preferred \in SUBSET (1..4), size \in 0..4 :
       LET chosen == ChooseReplicas(available, preferred, size)
       IN  /\ chosen \subseteq available
           /\ Cardinality(chosen) = Min({size, Cardinality(available)})
           /\ chosen \subseteq preferred \/ preferred \cap available \subseteq chosen
=============================================================================
