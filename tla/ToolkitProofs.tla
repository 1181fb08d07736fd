---------------------------- MODULE ToolkitProofs ----------------------------
(***************************************************************************)
(* Proofs about the libraries, for any parameters and any inputs: nodes    *)
(* that join and leave a hash ring move only their own keys; a quorum read *)
(* sees the writes done before it, and a replica that missed one has a     *)
(* hint; health checks set statuses right and the balancer takes turns;    *)
(* timestamps follow causality; rate limiters keep to their rate; a Bloom  *)
(* filter finds what was added; the partition coordinator's matrix says    *)
(* what its faults say.                                                    *)
(***************************************************************************)
EXTENDS HashRing, QuorumSystem, ServiceRegistry, BloomFilters, LogicalClocks,
        RateLimiters, PartitionCoordinator, SequenceTheorems, FiniteSetTheorems,
        WellFoundedInduction, TLAPS

-----------------------------------------------------------------------------
(* Consistent hashing.                                                      *)

\* The ring's elements are virtual nodes of nodes that are there or were.
HInv ==
    /\ hVirtual \in [HNodes -> SUBSET HHashes]
    /\ hNodes \subseteq HNodes
    /\ hRing \subseteq HHashes \X HNodes

LEMMA RingIsTyped == HInit /\ [][HNext]_hVars => []HInv
<1>1. HInit => HInv
  BY DEF HInit, HInv
<1>2. HInv /\ [HNext]_hVars => HInv'
  <2> SUFFICES ASSUME HInv, [HNext]_hVars PROVE HInv'
    OBVIOUS
  <2>1. ASSUME NEW n \in HNodes, AddNode(n) PROVE HInv'
    BY <2>1 DEF HInv, AddNode
  <2>2. ASSUME NEW n \in HNodes, RemoveNode(n) PROVE HInv'
    BY <2>2 DEF HInv, RemoveNode, Others
  <2>3. CASE UNCHANGED hVars
    BY <2>3 DEF HInv, hVars
  <2> QED BY <2>1, <2>2, <2>3 DEF HNext
<1> QED BY <1>1, <1>2, PTL

-----------------------------------------------------------------------------
(* The first virtual node met from a key on.                                *)

LEMMA LeastNumber ==
  ASSUME NEW T \in SUBSET Nat, T # {}
  PROVE  \E x \in T : \A y \in T : x <= y
<1> DEFINE R == {ss \in Nat \X Nat : ss[1] < ss[2]}
<1>1. IsWellFoundedOn(R, Nat)
  BY NatLessThanWellFounded DEF OpToRel
<1>2. PICK x \in T : \A y \in T : ~ (<<y, x>> \in R)
  <2> HIDE DEF R
  <2> QED BY <1>1, WFMin
<1>3. ASSUME NEW y \in T PROVE x <= y
  <2>1. ~ (<<y, x>> \in {ss \in Nat \X Nat : ss[1] < ss[2]})
    BY <1>2
  <2>2. <<y, x>> \in Nat \X Nat /\ x \in Nat /\ y \in Nat
    OBVIOUS
  <2>3. ~ (y < x)
    BY <2>1, <2>2
  <2> QED BY <2>2, <2>3
<1> QED BY <1>3

\* In the order of the tuples a set of virtual nodes has a first one.
LEMMA FirstTuple ==
  ASSUME NEW A \in SUBSET (Nat \X Nat), A # {}
  PROVE  \E p \in A : \A q \in A : TupleBefore(p, q)
<1> DEFINE Heads == {r[1] : r \in A}
<1>1. PICK h \in Heads : \A g \in Heads : h <= g
  <2>1. Heads \in SUBSET Nat /\ Heads # {}
    OBVIOUS
  <2> QED BY <2>1, LeastNumber
<1> DEFINE Ends == {r[2] : r \in {s \in A : s[1] = h}}
<1>2. PICK e \in Ends : \A g \in Ends : e <= g
  <2>1. Ends \in SUBSET Nat /\ Ends # {}
    BY <1>1
  <2> QED BY <2>1, LeastNumber
<1>3. PICK p \in A : p[1] = h /\ p[2] = e
  BY <1>2
<1>4. ASSUME NEW q \in A PROVE TupleBefore(p, q)
  <2>1. p[1] <= q[1] /\ (q[1] = p[1] => p[2] <= q[2])
    BY <1>1, <1>2, <1>3
  <2>2. p[1] \in Nat /\ q[1] \in Nat
    OBVIOUS
  <2> QED BY <2>1, <2>2 DEF TupleBefore
<1> QED BY <1>4

\* On the way round from a key a ring that is not empty has a first virtual node.
LEMMA FirstOnTheWay ==
  ASSUME NEW ring \in SUBSET (Nat \X Nat), ring # {}, NEW k \in Int
  PROVE  \E p \in ring : \A q \in ring : NotLater(p, q, k)
<1> DEFINE Foremost == {r \in ring : Ahead(r, k)}
<1>1. CASE Foremost # {}
  <2>1. PICK p \in Foremost : \A q \in Foremost : TupleBefore(p, q)
    BY <1>1, FirstTuple
  <2> QED BY <2>1 DEF NotLater
<1>2. CASE Foremost = {}
  <2>1. PICK p \in ring : \A q \in ring : TupleBefore(p, q)
    BY FirstTuple
  <2> QED BY <2>1, <1>2 DEF NotLater
<1> QED BY <1>1, <1>2

LEMMA OnlyOneIsFirst ==
  ASSUME NEW p \in Nat \X Nat, NEW q \in Nat \X Nat, NEW k \in Int,
         NotLater(p, q, k), NotLater(q, p, k)
  PROVE  p = q
<1>1. TupleBefore(p, q) /\ TupleBefore(q, p)
  BY DEF NotLater
<1>2. p[1] \in Nat /\ p[2] \in Nat /\ q[1] \in Nat /\ q[2] \in Nat
  OBVIOUS
<1>3. p[1] = q[1] /\ p[2] = q[2]
  BY <1>1, <1>2 DEF TupleBefore
<1>4. p = <<p[1], p[2]>> /\ q = <<q[1], q[2]>>
  OBVIOUS
<1> QED BY <1>3, <1>4

LEMMA MetAreFinitelyMany ==
  ASSUME HInv, NEW n, NEW k
  PROVE  MetBefore(n, k) \subseteq HNodes /\ IsFiniteSet(MetBefore(n, k))
         /\ Cardinality(MetBefore(n, k)) \in Nat
<1>1. MetBefore(n, k) \subseteq HNodes
  BY DEF HInv, MetBefore
<1>2. IsFiniteSet(HNodes)
  BY HNodesAssumption
<1>3. IsFiniteSet(MetBefore(n, k))
  BY <1>1, <1>2, FS_Subset
<1> QED BY <1>1, <1>3, FS_CardinalityType

\* get_node and get_nodes agree: the node of a key is the first of its replicas.
LEMMA OwnerIsFirstReplica ==
  ASSUME HInv, NEW k \in HKeys
  PROVE  GetNode(k) = GetNodes(k, 1)
<1>0. hRing \in SUBSET (Nat \X Nat) /\ k \in Int
  BY HNodesAssumption, HHashesAssumption, HKeysAssumption DEF HInv
<1>1. ASSUME NEW n \in GetNode(k) PROVE n \in GetNodes(k, 1)
  <2>1. PICK p \in hRing : p[2] = n /\ \A q \in hRing : NotLater(p, q, k)
    BY <1>1 DEF GetNode, OwnersIn
  <2>2. MetBefore(n, k) = {}
    <3> SUFFICES ASSUME NEW r \in hRing, r[2] # n,
                        \A q \in hRing : q[2] = n => NotLater(r, q, k)
                 PROVE  FALSE
      BY DEF MetBefore
    <3>1. NotLater(r, p, k) /\ NotLater(p, r, k)
      BY <2>1
    <3>2. r = p
      BY <1>0, <3>1, OnlyOneIsFirst
    <3> QED BY <2>1, <3>2
  <2>3. Cardinality(MetBefore(n, k)) < 1
    BY <2>2, FS_EmptySet
  <2> QED BY <2>1, <2>3 DEF GetNodes
<1>2. ASSUME NEW n \in GetNodes(k, 1) PROVE n \in GetNode(k)
  <2>1. hRing # {} /\ Cardinality(MetBefore(n, k)) < 1
    BY <1>2 DEF GetNodes
  <2>2. MetBefore(n, k) = {}
    BY <2>1, MetAreFinitelyMany, FS_EmptySet
  <2>3. PICK p \in hRing : \A q \in hRing : NotLater(p, q, k)
    BY <1>0, <2>1, FirstOnTheWay
  <2>4. p[2] = n
    BY <2>2, <2>3 DEF MetBefore
  <2> QED BY <2>3, <2>4 DEF GetNode, OwnersIn
<1> QED BY <1>1, <1>2

-----------------------------------------------------------------------------
(* Nodes that join and leave.                                               *)

\* A node that joins is met by the others' keys, and hides nobody from them.
LEMMA JoinMovesItsKeys ==
  ASSUME HInv, HInv', NEW n \in HNodes, AddNode(n), NEW k \in HKeys, NEW count \in Nat
  PROVE  GetNodes(k, count)' \subseteq GetNodes(k, count) \cup {n}
<1> SUFFICES ASSUME NEW m \in GetNodes(k, count)', m # n
             PROVE  m \in GetNodes(k, count)
  OBVIOUS
<1>1. /\ hRing \subseteq hRing'
      /\ \A p \in hRing' : p[2] # n => p \in hRing
  BY DEF AddNode
<1>2. \E p \in hRing : p[2] = m
  BY <1>1 DEF GetNodes
<1>3. MetBefore(m, k) \subseteq MetBefore(m, k)'
  BY <1>1 DEF MetBefore
<1>4. Cardinality(MetBefore(m, k)') < count
  BY DEF GetNodes
<1>5. IsFiniteSet(MetBefore(m, k)') /\ Cardinality(MetBefore(m, k)') \in Nat
  <2>1. MetBefore(m, k)' \subseteq HNodes
    BY DEF HInv, MetBefore
  <2> QED BY <2>1, HNodesAssumption, FS_Subset, FS_CardinalityType
<1>6. Cardinality(MetBefore(m, k)) <= Cardinality(MetBefore(m, k)')
  BY <1>3, <1>5, FS_Subset
<1>7. Cardinality(MetBefore(m, k)) < count
  BY <1>4, <1>5, <1>6, MetAreFinitelyMany
<1> QED BY <1>2, <1>7 DEF GetNodes

\* A node that leaves frees its own places only.
LEMMA LeaveMovesItsKeys ==
  ASSUME HInv, HInv', NEW n \in HNodes, RemoveNode(n), NEW k \in HKeys, NEW count \in Nat
  PROVE  GetNodes(k, count) \subseteq GetNodes(k, count)' \cup {n}
<1> SUFFICES ASSUME NEW m \in GetNodes(k, count), m # n
             PROVE  m \in GetNodes(k, count)'
  OBVIOUS
<1>1. /\ hRing' \subseteq hRing
      /\ \A p \in hRing : p[2] # n => p \in hRing'
  BY DEF RemoveNode, Others
<1>2. \E p \in hRing' : p[2] = m
  BY <1>1 DEF GetNodes
<1>3. MetBefore(m, k)' \subseteq MetBefore(m, k)
  BY <1>1 DEF MetBefore
<1>4. Cardinality(MetBefore(m, k)) < count
  BY DEF GetNodes
<1>5. IsFiniteSet(MetBefore(m, k)) /\ Cardinality(MetBefore(m, k)) \in Nat
  BY MetAreFinitelyMany
<1>6. /\ Cardinality(MetBefore(m, k)') <= Cardinality(MetBefore(m, k))
      /\ Cardinality(MetBefore(m, k)') \in Nat
  BY <1>3, <1>5, FS_Subset, FS_CardinalityType
<1>7. Cardinality(MetBefore(m, k)') < count
  BY <1>4, <1>5, <1>6
<1> QED BY <1>2, <1>7 DEF GetNodes

\* In every run of the ring, whatever nodes join and leave and however their
\* hashes collide, a node that joins takes places and moves nobody else's, a node
\* that leaves gives away only its own, and a key's node is the first of its
\* replicas (add_node, remove_node, get_node, get_nodes of consistent_hash.py).
THEOREM KeysMoveOnlyWithTheirNode == HSpec => OnlyItsKeysMove
<1>1. HInv /\ HInv' =>
        /\ \A n \in HNodes : AddNode(n) \/ RemoveNode(n) =>
             \A k \in HKeys, count \in 1 .. Cardinality(HNodes) : KeysStay(n, k, count)
        /\ \A k \in HKeys : GetNode(k) = GetNodes(k, 1)
  <2> SUFFICES ASSUME HInv, HInv',
                      NEW n \in HNodes, NEW k \in HKeys, NEW count \in 1 .. Cardinality(HNodes)
               PROVE  KeysStay(n, k, count)
    BY OwnerIsFirstReplica
  <2>1. count \in Nat
    BY HNodesAssumption, FS_CardinalityType
  <2>2. AddNode(n) => GetNodes(k, count)' \subseteq GetNodes(k, count) \cup {n}
    BY <2>1, JoinMovesItsKeys
  <2>3. RemoveNode(n) => GetNodes(k, count) \subseteq GetNodes(k, count)' \cup {n}
    BY <2>1, LeaveMovesItsKeys
  <2> QED BY <2>2, <2>3 DEF KeysStay
<1> QED BY <1>1, RingIsTyped, PTL DEF HSpec, OnlyItsKeysMove

-----------------------------------------------------------------------------
(* Quorums.                                                                 *)

\* Max and Min of numbers up to a bound
LEMMA GreatestNumber ==
  ASSUME NEW n \in Nat, NEW T \in SUBSET (0..n), T # {}
  PROVE  Max(T) \in T /\ \A y \in T : y <= Max(T)
<1>1. PICK U : U = {n - x : x \in T}
  OBVIOUS
<1>2. U \in SUBSET Nat /\ U # {}
  <2>1. \A x \in T : n - x \in Nat
    OBVIOUS
  <2> QED BY <1>1, <2>1
<1>3. PICK u \in U : \A v \in U : u <= v
  BY <1>2, LeastNumber
<1>4. PICK x \in T : u = n - x
  BY <1>1
<1>5. \A y \in T : n - x <= n - y
  BY <1>1, <1>3, <1>4
<1>6. \A y \in T : x >= y
  BY <1>5
<1> QED BY <1>6 DEF Max

LEMMA LesserOfTwo ==
  ASSUME NEW i \in Nat, NEW j \in Nat
  PROVE  Min({i, j}) \in Nat
<1>1. \E x \in {i, j} : \A y \in {i, j} : x <= y
  BY LeastNumber
<1> QED BY <1>1 DEF Min

Operation ==
  [kind : {"write", "read"}, status : {"running", "ok", "failed"}, need : Int,
   ran : SUBSET QReplicas, got : [QReplicas -> Versions], result : Versions,
   before : SUBSET (1..QMaxOps), quiet : BOOLEAN]

QuorumTyped ==
  /\ qOps \in Seq(Operation)
  /\ Len(qOps) <= QMaxOps
  /\ qStore \in [QReplicas -> Versions]
  /\ qHints \in [QReplicas -> SUBSET Versions]
  /\ qGiven \in [QReplicas -> SUBSET Versions]

\* What is known of the writes before an operation
BeforeIsDone ==
  \A o \in DOMAIN qOps : \A w \in qOps[o].before :
    w \in Writes /\ w < o /\ qOps[w].status = "ok"

WritesHadEnough ==
  \A w \in Writes : qOps[w].status = "ok" => Cardinality(qOps[w].ran) >= qOps[w].need

QuietComesAfter ==
  \A v, w \in Writes : v < w /\ qOps[w].quiet => qOps[v].ran = QReplicas

\* A replica that has run a write's task has that version or a newer one
WritesStay == \A w \in Writes : \A r \in qOps[w].ran : qStore[r] >= w

\* Replicas that have shown w or a newer one to the read o, or would do so
Showing(o, w) ==
  {r \in QReplicas : IF r \in qOps[o].ran THEN qOps[o].got[r] >= w ELSE r \in qOps[w].ran}

ReadsAreShown ==
  \A o \in DOMAIN qOps : qOps[o].kind = "read" /\ qOps[o].status = "running" =>
    \A w \in qOps[o].before : Cardinality(Showing(o, w)) >= qOps[w].need

QuorumInv ==
  /\ QuorumTyped
  /\ BeforeIsDone
  /\ WritesHadEnough
  /\ QuietComesAfter
  /\ MissesAreHinted
  /\ OneWriteAtATime => WritesStay /\ ReadsAreShown /\ Regular

LEMMA QuorumInitHolds == QuorumInit => QuorumInv
<1> SUFFICES ASSUME QuorumInit PROVE QuorumInv
  OBVIOUS
<1>1. qOps = << >> /\ DOMAIN qOps = {} /\ Len(qOps) = 0 /\ qOps \in Seq(Operation)
  BY DEF QuorumInit
<1>2. 0 \in Versions /\ QMaxOps \in Nat
  BY QuorumAssumption DEF Versions
<1>3. QuorumTyped
  BY <1>1, <1>2 DEF QuorumInit, QuorumTyped
<1>4. Writes = {}
  BY <1>1 DEF Writes
<1> QED BY <1>1, <1>3, <1>4 DEF QuorumInv, BeforeIsDone, WritesHadEnough, QuietComesAfter,
      MissesAreHinted, WritesStay, ReadsAreShown, Regular

LEMMA ReplicasAreFinite ==
  /\ IsFiniteSet(QReplicas) /\ Cardinality(QReplicas) = QReplicaCount
  /\ QReplicaCount \in Nat
  /\ \A S \in SUBSET QReplicas : IsFiniteSet(S) /\ Cardinality(S) \in Nat
<1>1. QReplicaCount \in Nat /\ QReplicaCount \in Int /\ 1 \in Int /\ ~ (1 > QReplicaCount)
  BY QuorumAssumption
<1>2. IsFiniteSet(QReplicas) /\ Cardinality(QReplicas) = QReplicaCount - 1 + 1
  BY <1>1, FS_Interval DEF QReplicas
<1> QED BY <1>1, <1>2, FS_Subset, FS_CardinalityType

LEMMA MoreReplicas ==
  ASSUME NEW S \in SUBSET QReplicas, NEW T \in SUBSET S
  PROVE  Cardinality(T) <= Cardinality(S) /\ Cardinality(T) \in Nat /\ Cardinality(S) \in Nat
BY ReplicasAreFinite, FS_Subset

\* One operation changes
LEMMA OperationChanges ==
  ASSUME QuorumTyped, NEW o \in DOMAIN qOps, NEW op \in Operation,
         qOps' = [qOps EXCEPT ![o] = op]
  PROVE  /\ qOps' \in Seq(Operation) /\ Len(qOps') = Len(qOps)
         /\ DOMAIN qOps' = DOMAIN qOps
         /\ qOps'[o] = op
         /\ \A p \in DOMAIN qOps : p # o => qOps'[p] = qOps[p]
<1>1. DOMAIN qOps = 1..Len(qOps) /\ qOps \in Seq(Operation)
  BY LenProperties DEF QuorumTyped
<1>2. /\ qOps' \in Seq(Operation) /\ Len(qOps') = Len(qOps)
      /\ \A p \in 1..Len(qOps) : qOps'[p] = IF p = o THEN op ELSE qOps[p]
  BY <1>1, ExceptSeq
<1>3. DOMAIN qOps' = 1..Len(qOps)
  BY <1>2, LenProperties
<1> QED BY <1>1, <1>2, <1>3

LEMMA OperationsAreTyped ==
  ASSUME QuorumTyped
  PROVE  /\ DOMAIN qOps = 1..Len(qOps) /\ Len(qOps) \in Nat
         /\ \A o \in DOMAIN qOps : qOps[o] \in Operation /\ o \in Nat /\ o \in Versions
         /\ Writes \subseteq DOMAIN qOps
<1>1. DOMAIN qOps = 1..Len(qOps) /\ Len(qOps) \in Nat
  BY LenProperties DEF QuorumTyped
<1>2. \A o \in DOMAIN qOps : qOps[o] \in Operation
  BY <1>1, ElementOfSeq DEF QuorumTyped
<1>3. \A o \in DOMAIN qOps : o \in Nat /\ o \in Versions
  BY <1>1, QuorumAssumption DEF QuorumTyped, Versions
<1> QED BY <1>1, <1>2, <1>3 DEF Writes

LEMMA CountsAreNumbers ==
  ASSUME NEW level \in QLevels, NEW isWrite \in BOOLEAN
  PROVE  ConsistencyCount(level, isWrite) \in Int
<1>1. Min({2, QReplicaCount}) \in Nat /\ Min({3, QReplicaCount}) \in Nat
  BY QuorumAssumption, LesserOfTwo
<1> QED BY <1>1, QuorumAssumption DEF ConsistencyCount

\* write() or read() begins: the tasks of a quiet write have only reads beside them.
LEMMA BeginKeepsQuorum ==
  ASSUME QuorumInv, NEW kind \in {"write", "read"}, NEW level \in QLevels, Begin(kind, level)
  PROVE  QuorumInv'
<1>0. QuorumTyped
  BY DEF QuorumInv
<1>1. /\ DOMAIN qOps = 1..Len(qOps) /\ Len(qOps) \in Nat /\ qOps \in Seq(Operation)
      /\ \A o \in DOMAIN qOps : qOps[o] \in Operation /\ o \in Nat
      /\ Writes \subseteq DOMAIN qOps
  BY <1>0, OperationsAreTyped DEF QuorumTyped
<1>2. PICK n \in Nat : n = Len(qOps)
  BY <1>1
<1>3. PICK next : next = n + 1
  OBVIOUS
<1>4. PICK before : before = {w \in Writes : qOps[w].status = "ok"}
  OBVIOUS
<1>5. PICK quiet : quiet = \A t \in Pending : qOps[t[1]].kind = "read"
  OBVIOUS
<1>6. PICK op : op = [kind |-> kind, status |-> "running",
        need |-> ConsistencyCount(level, kind = "write"),
        ran |-> {}, got |-> NoAnswers, result |-> 0, before |-> before, quiet |-> quiet]
  OBVIOUS
<1>7. n < QMaxOps /\ qOps' = Append(qOps, op) /\ UNCHANGED <<qStore, qHints, qGiven>>
  BY <1>2, <1>4, <1>5, <1>6 DEF Begin
<1>8. op \in Operation /\ op.kind = kind /\ op.status = "running" /\ op.ran = {}
      /\ op.before = before /\ op.quiet = quiet
  <2>1. before \in SUBSET (1..QMaxOps)
    BY <1>1, <1>2, <1>4, QuorumAssumption DEF QuorumInv, QuorumTyped
  <2>2. quiet \in BOOLEAN
    BY <1>5
  <2>3. NoAnswers \in [QReplicas -> Versions] /\ 0 \in Versions
    BY QuorumAssumption DEF NoAnswers, Versions
  <2>4. (kind = "write") \in BOOLEAN
    OBVIOUS
  <2>5. ConsistencyCount(level, kind = "write") \in Int
    BY <2>4, CountsAreNumbers
  <2> QED BY <1>6, <2>1, <2>2, <2>3, <2>5 DEF Operation
<1>9. /\ qOps' \in Seq(Operation) /\ Len(qOps') = next
      /\ \A o \in DOMAIN qOps : qOps'[o] = qOps[o]
      /\ qOps'[next] = op
  BY <1>1, <1>2, <1>3, <1>7, <1>8, AppendProperties
<1>10. /\ DOMAIN qOps' = DOMAIN qOps \cup {next} /\ next \notin DOMAIN qOps
       /\ \A o \in DOMAIN qOps : o < next
  <2>1. DOMAIN qOps' = 1..next
    BY <1>9, LenProperties
  <2> QED BY <1>1, <1>2, <1>3, <2>1
<1>11. QuorumTyped'
  BY <1>0, <1>2, <1>3, <1>7, <1>9, QuorumAssumption DEF QuorumTyped
<1>12. Writes' = IF kind = "write" THEN Writes \cup {next} ELSE Writes
  BY <1>8, <1>9, <1>10 DEF Writes
<1>13. BeforeIsDone'
  <2>1. \A o \in DOMAIN qOps' : \A w \in qOps'[o].before :
          w \in Writes' /\ w < o /\ qOps'[w].status = "ok"
    BY <1>1, <1>4, <1>8, <1>9, <1>10, <1>12 DEF QuorumInv, BeforeIsDone
  <2> QED BY <2>1 DEF BeforeIsDone
<1>14. WritesHadEnough' /\ MissesAreHinted'
  <2>1. \A w \in Writes' : qOps'[w].status = "ok" =>
          w \in Writes /\ qOps'[w] = qOps[w]
    BY <1>1, <1>8, <1>9, <1>10, <1>12
  <2> QED BY <1>7, <2>1 DEF QuorumInv, WritesHadEnough, MissesAreHinted
<1>15. QuietComesAfter'
  <2>1. ASSUME quiet, NEW v \in Writes PROVE qOps[v].ran = QReplicas
    <3> SUFFICES ASSUME NEW r \in QReplicas, r \notin qOps[v].ran PROVE FALSE
      BY <1>1 DEF Operation
    <3>1. <<v, r>> \in Pending
      BY <1>1 DEF Pending
    <3> QED BY <1>5, <2>1, <3>1 DEF Writes
  <2>2. ASSUME NEW v \in Writes', NEW w \in Writes', v < w, qOps'[w].quiet
        PROVE  qOps'[v].ran = QReplicas
    <3>1. CASE w = next
      BY <1>1, <1>3, <1>8, <1>9, <1>10, <1>12, <2>1, <2>2, <3>1
    <3>2. CASE w # next
      <4>1. v \in Writes /\ w \in Writes
        BY <1>1, <1>2, <1>3, <1>12, <2>2, <3>2
      <4>2. qOps'[v] = qOps[v] /\ qOps'[w] = qOps[w]
        BY <1>1, <1>9, <4>1
      <4> QED BY <2>2, <4>1, <4>2 DEF QuorumInv, QuietComesAfter
    <3> QED BY <3>1, <3>2
  <2> QED BY <2>2 DEF QuietComesAfter
<1>16. ASSUME OneWriteAtATime' PROVE WritesStay' /\ ReadsAreShown' /\ Regular'
  <2>1. OneWriteAtATime
    BY <1>1, <1>9, <1>12, <1>16 DEF OneWriteAtATime
  <2>2. WritesStay /\ ReadsAreShown /\ Regular
    BY <2>1 DEF QuorumInv
  <2>3. WritesStay'
    <3>1. \A w \in Writes' : \A r \in qOps'[w].ran : w \in Writes /\ r \in qOps[w].ran
      BY <1>1, <1>8, <1>9, <1>12
    <3> QED BY <1>7, <2>2, <3>1 DEF WritesStay
  <2>4. \A o \in DOMAIN qOps' : qOps'[o].status = "ok" => o \in DOMAIN qOps
    BY <1>8, <1>9, <1>10
  <2>5. \A o \in DOMAIN qOps : \A w \in qOps[o].before : w \in DOMAIN qOps /\ w \in Writes
    BY <1>1 DEF QuorumInv, BeforeIsDone
  <2>6. Regular'
    <3>1. \A o \in DOMAIN qOps' : qOps'[o].kind = "read" /\ qOps'[o].status = "ok" =>
            \A w \in qOps'[o].before :
              qOps'[w].need + qOps'[o].need > QReplicaCount => qOps'[o].result >= w
      BY <1>9, <2>2, <2>4, <2>5 DEF Regular
    <3> QED BY <3>1 DEF Regular
  <2>7. ReadsAreShown'
    <3> SUFFICES ASSUME NEW o \in DOMAIN qOps', qOps'[o].kind = "read", qOps'[o].status = "running",
                        NEW w \in qOps'[o].before
                 PROVE  Cardinality(Showing(o, w)') >= qOps'[w].need
      BY DEF ReadsAreShown
    <3>1. CASE o = next
      <4>1. w \in Writes /\ w \in DOMAIN qOps /\ qOps[w].status = "ok" /\ qOps'[w] = qOps[w]
        BY <1>1, <1>4, <1>8, <1>9, <3>1
      <4>2. qOps[w].ran \subseteq QReplicas
        BY <1>1, <4>1 DEF Operation
      <4>3. Showing(o, w)' = qOps[w].ran
        BY <1>8, <1>9, <3>1, <4>1, <4>2 DEF Showing
      <4> QED BY <4>1, <4>3 DEF QuorumInv, WritesHadEnough
    <3>2. CASE o # next
      <4>1. o \in DOMAIN qOps /\ qOps'[o] = qOps[o] /\ w \in qOps[o].before
        BY <1>9, <1>10, <3>2
      <4>2. w \in DOMAIN qOps /\ qOps'[w] = qOps[w]
        BY <1>9, <2>5, <4>1
      <4>3. Showing(o, w)' = Showing(o, w)
        BY <4>1, <4>2 DEF Showing
      <4> QED BY <2>2, <4>1, <4>2, <4>3 DEF ReadsAreShown
    <3> QED BY <3>1, <3>2
  <2> QED BY <2>3, <2>6, <2>7
<1> QED BY <1>11, <1>13, <1>14, <1>15, <1>16 DEF QuorumInv

\* An operation keeps what it began with.
SameCall(op, new) ==
  new.kind = op.kind /\ new.need = op.need /\ new.before = op.before /\ new.quiet = op.quiet

\* What any later step of an operation leaves of the invariant
LEMMA StepKeepsHistory ==
  ASSUME QuorumInv, NEW o \in DOMAIN qOps, NEW op \in Operation,
         qOps' = [qOps EXCEPT ![o] = op], SameCall(qOps[o], op),
         qOps[o].ran \subseteq op.ran,
         qOps[o].status = op.status \/ qOps[o].status = "running"
  PROVE  /\ Writes' = Writes /\ BeforeIsDone' /\ QuietComesAfter'
         /\ OneWriteAtATime' => OneWriteAtATime
         /\ qOps' \in Seq(Operation) /\ Len(qOps') = Len(qOps) /\ DOMAIN qOps' = DOMAIN qOps
         /\ qOps'[o] = op
         /\ \A p \in DOMAIN qOps : p # o => qOps'[p] = qOps[p]
<1>0. QuorumTyped
  BY DEF QuorumInv
<1>1. /\ qOps' \in Seq(Operation) /\ Len(qOps') = Len(qOps) /\ DOMAIN qOps' = DOMAIN qOps
      /\ qOps'[o] = op
      /\ \A p \in DOMAIN qOps : p # o => qOps'[p] = qOps[p]
  BY <1>0, OperationChanges
<1>2. Writes' = Writes /\ Writes \subseteq DOMAIN qOps
  BY <1>1 DEF Writes, SameCall
<1>3. \A p \in DOMAIN qOps : SameCall(qOps[p], qOps'[p]) /\ qOps[p].ran \subseteq qOps'[p].ran
                             /\ qOps'[p].ran \subseteq QReplicas
  BY <1>0, <1>1, OperationsAreTyped DEF SameCall, Operation
<1>4. \A p \in DOMAIN qOps : qOps[p].status = "ok" => qOps'[p].status = "ok"
  BY <1>1
<1>5. BeforeIsDone'
  <2>1. \A p \in DOMAIN qOps : \A w \in qOps'[p].before :
          w \in Writes /\ w < p /\ qOps'[w].status = "ok"
    BY <1>2, <1>3, <1>4 DEF QuorumInv, BeforeIsDone, SameCall
  <2> QED BY <1>1, <1>2, <2>1 DEF BeforeIsDone
<1>6. QuietComesAfter'
  <2>1. ASSUME NEW v \in Writes, NEW w \in Writes, v < w, qOps'[w].quiet
        PROVE  qOps'[v].ran = QReplicas
    <3>1. qOps[w].quiet
      BY <2>1, <1>2, <1>3 DEF SameCall
    <3>2. qOps[v].ran = QReplicas
      BY <2>1, <3>1 DEF QuorumInv, QuietComesAfter
    <3> QED BY <3>2, <1>2, <1>3
  <2> QED BY <1>2, <2>1 DEF QuietComesAfter
<1>7. OneWriteAtATime' => OneWriteAtATime
  <2>1. \A w \in Writes : qOps'[w].quiet = qOps[w].quiet
    BY <1>2, <1>3 DEF SameCall
  <2> QED BY <1>2, <2>1 DEF OneWriteAtATime
<1> QED BY <1>1, <1>2, <1>5, <1>6, <1>7

\* Replicas that show w stay so when nothing is taken back.
LEMMA ShownStays ==
  ASSUME QuorumTyped', QuorumTyped, NEW o \in DOMAIN qOps, NEW w \in DOMAIN qOps,
         \A r \in QReplicas : r \in Showing(o, w) => r \in Showing(o, w)',
         Cardinality(Showing(o, w)) >= qOps[w].need, qOps'[w].need = qOps[w].need
  PROVE  Cardinality(Showing(o, w)') >= qOps'[w].need
<1>1. PICK S, T : S = Showing(o, w) /\ T = Showing(o, w)'
  OBVIOUS
<1>2. T \in SUBSET QReplicas /\ S \in SUBSET T
  BY <1>1 DEF Showing
<1>3. Cardinality(S) <= Cardinality(T) /\ Cardinality(S) \in Nat /\ Cardinality(T) \in Nat
  BY <1>2, MoreReplicas
<1>4. qOps[w].need \in Int /\ Cardinality(S) >= qOps[w].need
  BY <1>1, OperationsAreTyped DEF Operation
<1> QED BY <1>1, <1>3, <1>4

\* _write_to_replica: no newer write has begun while this one is under way.
LEMMA WriteTaskKeepsQuorum ==
  ASSUME QuorumInv, NEW o \in DOMAIN qOps, NEW r \in QReplicas, r \notin qOps[o].ran,
         WriteToReplica(o, r), UNCHANGED <<qHints, qGiven>>
  PROVE  QuorumInv'
<1>0. QuorumTyped
  BY DEF QuorumInv
<1>1. /\ DOMAIN qOps = 1..Len(qOps) /\ Len(qOps) \in Nat /\ qOps \in Seq(Operation)
      /\ \A p \in DOMAIN qOps : qOps[p] \in Operation /\ p \in Nat /\ p \in Versions
      /\ Writes \subseteq DOMAIN qOps
  BY <1>0, OperationsAreTyped DEF QuorumTyped
<1>2. PICK op : op = [qOps[o] EXCEPT !.ran = @ \cup {r}]
  OBVIOUS
<1>3. /\ op \in Operation /\ SameCall(qOps[o], op) /\ op.status = qOps[o].status
      /\ op.ran = qOps[o].ran \cup {r} /\ op.got = qOps[o].got /\ op.result = qOps[o].result
  BY <1>1, <1>2 DEF Operation, SameCall
<1>4. qOps' = [qOps EXCEPT ![o] = op] /\ qStore' = [qStore EXCEPT ![r] = o] /\ qOps[o].kind = "write"
  BY <1>2 DEF WriteToReplica
<1>5. /\ Writes' = Writes /\ BeforeIsDone' /\ QuietComesAfter'
      /\ OneWriteAtATime' => OneWriteAtATime
      /\ qOps' \in Seq(Operation) /\ Len(qOps') = Len(qOps) /\ DOMAIN qOps' = DOMAIN qOps
      /\ qOps'[o] = op
      /\ \A p \in DOMAIN qOps : p # o => qOps'[p] = qOps[p]
  BY <1>3, <1>4, StepKeepsHistory
<1>6. o \in Writes
  BY <1>4 DEF Writes
<1>7. QuorumTyped'
  BY <1>0, <1>1, <1>4, <1>5 DEF QuorumTyped
<1>8. WritesHadEnough'
  <2> SUFFICES ASSUME NEW w \in Writes, qOps'[w].status = "ok"
               PROVE  Cardinality(qOps'[w].ran) >= qOps'[w].need
    BY <1>5 DEF WritesHadEnough
  <2>1. /\ qOps[w].status = "ok" /\ qOps'[w].need = qOps[w].need
        /\ qOps[w].ran \in SUBSET qOps'[w].ran /\ qOps'[w].ran \in SUBSET QReplicas
        /\ qOps[w].need \in Int
    BY <1>1, <1>3, <1>5, ZenonT(30) DEF SameCall, Operation
  <2>2. Cardinality(qOps[w].ran) >= qOps[w].need
    BY <2>1 DEF QuorumInv, WritesHadEnough
  <2> QED BY <2>1, <2>2, MoreReplicas
<1>9. MissesAreHinted'
  <2>1. \A w \in Writes : qOps'[w].status = qOps[w].status /\ qOps[w].ran \subseteq qOps'[w].ran
    BY <1>1, <1>3, <1>5
  <2> QED BY <1>5, <2>1 DEF QuorumInv, MissesAreHinted
<1>10. ASSUME OneWriteAtATime' PROVE WritesStay' /\ ReadsAreShown' /\ Regular'
  <2>1. OneWriteAtATime /\ WritesStay /\ ReadsAreShown /\ Regular
    BY <1>5, <1>10 DEF QuorumInv
  <2>2. \A w \in Writes : w <= o
    <3> SUFFICES ASSUME NEW w \in Writes, o < w PROVE FALSE
      BY <1>1
    <3>1. qOps[o].ran = QReplicas
      BY <1>6, <2>1 DEF QuorumInv, QuietComesAfter, OneWriteAtATime
    <3> QED BY <3>1
  <2>3. \A q \in QReplicas : qStore[q] \in Nat /\ qStore'[q] = IF q = r THEN o ELSE qStore[q]
    BY <1>0, <1>4, QuorumAssumption DEF QuorumTyped, Versions
  <2>4. WritesStay'
    <3>1. \A w \in Writes : \A q \in qOps'[w].ran : qStore'[q] >= w
      <4> TAKE w \in Writes
      <4> TAKE q \in qOps'[w].ran
      <4>1. q \in QReplicas /\ w \in Nat /\ o \in Nat
        BY <1>1, <1>3, <1>5 DEF Operation
      <4>2. CASE q = r
        BY <2>2, <2>3, <4>1, <4>2
      <4>3. CASE q # r
        <5>1. q \in qOps[w].ran
          BY <1>1, <1>3, <1>5, <4>3
        <5> QED BY <2>1, <2>3, <4>1, <4>3, <5>1 DEF WritesStay
      <4> QED BY <4>2, <4>3
    <3> QED BY <1>5, <3>1 DEF WritesStay
  <2>5. \A p \in DOMAIN qOps : \A w \in qOps[p].before : w \in DOMAIN qOps
    BY <1>1 DEF QuorumInv, BeforeIsDone
  <2>6. \A p \in DOMAIN qOps :
          /\ SameCall(qOps[p], qOps'[p]) /\ qOps'[p].status = qOps[p].status
          /\ qOps'[p].result = qOps[p].result /\ qOps'[p].got = qOps[p].got
          /\ qOps[p].kind = "read" => qOps'[p] = qOps[p]
          /\ qOps[p].ran \subseteq qOps'[p].ran
    BY <1>1, <1>3, <1>4, <1>5 DEF SameCall
  <2>7. Regular'
    <3>1. \A p \in DOMAIN qOps : qOps'[p].kind = "read" /\ qOps'[p].status = "ok" =>
            \A w \in qOps'[p].before :
              qOps'[w].need + qOps'[p].need > QReplicaCount => qOps'[p].result >= w
      BY <2>1, <2>5, <2>6 DEF Regular, SameCall
    <3> QED BY <1>5, <3>1 DEF Regular
  <2>8. ReadsAreShown'
    <3> SUFFICES ASSUME NEW p \in DOMAIN qOps, qOps'[p].kind = "read", qOps'[p].status = "running",
                        NEW w \in qOps'[p].before
                 PROVE  Cardinality(Showing(p, w)') >= qOps'[w].need
      BY <1>5 DEF ReadsAreShown
    <3>1. qOps[p].kind = "read" /\ qOps'[p] = qOps[p] /\ w \in qOps[p].before /\ w \in DOMAIN qOps
      BY <2>5, <2>6 DEF SameCall
    <3>2. Cardinality(Showing(p, w)) >= qOps[w].need
      BY <2>1, <3>1 DEF ReadsAreShown
    <3>3. \A q \in QReplicas : q \in Showing(p, w) => q \in Showing(p, w)'
      BY <2>6, <3>1 DEF Showing
    <3>4. qOps'[w].need = qOps[w].need
      BY <2>6, <3>1 DEF SameCall
    <3> QED BY <1>0, <1>7, <3>1, <3>2, <3>3, <3>4, ShownStays
  <2> QED BY <2>4, <2>7, <2>8
<1> QED BY <1>5, <1>7, <1>8, <1>9, <1>10 DEF QuorumInv

\* _read_from_replica shows what the replica has now.
LEMMA ReadTaskKeepsQuorum ==
  ASSUME QuorumInv, NEW o \in DOMAIN qOps, NEW r \in QReplicas, r \notin qOps[o].ran,
         ReadFromReplica(o, r), UNCHANGED <<qHints, qGiven>>
  PROVE  QuorumInv'
<1>0. QuorumTyped
  BY DEF QuorumInv
<1>1. /\ DOMAIN qOps = 1..Len(qOps) /\ Len(qOps) \in Nat /\ qOps \in Seq(Operation)
      /\ \A p \in DOMAIN qOps : qOps[p] \in Operation /\ p \in Nat /\ p \in Versions
      /\ Writes \subseteq DOMAIN qOps
  BY <1>0, OperationsAreTyped DEF QuorumTyped
<1>2. PICK shown : shown = IF qOps[o].status = "running" THEN qStore[r] ELSE 0
  OBVIOUS
<1>3. PICK op : op = [qOps[o] EXCEPT !.ran = @ \cup {r}, !.got[r] = shown]
  OBVIOUS
<1>4. shown \in Versions /\ \A q \in QReplicas : qStore[q] \in Nat
  BY <1>0, <1>2, QuorumAssumption DEF QuorumTyped, Versions
<1>5. /\ op \in Operation /\ SameCall(qOps[o], op) /\ op.status = qOps[o].status
      /\ op.ran = qOps[o].ran \cup {r} /\ op.result = qOps[o].result
      /\ op.got[r] = shown
      /\ \A q \in QReplicas : q # r => op.got[q] = qOps[o].got[q]
  BY <1>1, <1>3, <1>4 DEF Operation, SameCall
<1>6. qOps' = [qOps EXCEPT ![o] = op] /\ qStore' = qStore /\ qOps[o].kind = "read"
  BY <1>2, <1>3 DEF ReadFromReplica
<1>7. /\ Writes' = Writes /\ BeforeIsDone' /\ QuietComesAfter'
      /\ OneWriteAtATime' => OneWriteAtATime
      /\ qOps' \in Seq(Operation) /\ Len(qOps') = Len(qOps) /\ DOMAIN qOps' = DOMAIN qOps
      /\ qOps'[o] = op
      /\ \A p \in DOMAIN qOps : p # o => qOps'[p] = qOps[p]
  BY <1>5, <1>6, StepKeepsHistory
<1>8. \A w \in Writes : qOps'[w] = qOps[w] /\ w \in DOMAIN qOps
  BY <1>1, <1>6, <1>7 DEF Writes
<1>9. QuorumTyped'
  BY <1>0, <1>6, <1>7 DEF QuorumTyped
<1>10. WritesHadEnough' /\ MissesAreHinted'
  BY <1>7, <1>8 DEF QuorumInv, WritesHadEnough, MissesAreHinted
<1>11. ASSUME OneWriteAtATime' PROVE WritesStay' /\ ReadsAreShown' /\ Regular'
  <2>1. OneWriteAtATime /\ WritesStay /\ ReadsAreShown /\ Regular
    BY <1>7, <1>11 DEF QuorumInv
  <2>2. WritesStay'
    BY <1>6, <1>7, <1>8, <2>1 DEF WritesStay
  <2>3. \A p \in DOMAIN qOps : \A w \in qOps[p].before : w \in Writes
    BY DEF QuorumInv, BeforeIsDone
  <2>4. \A p \in DOMAIN qOps :
          /\ SameCall(qOps[p], qOps'[p]) /\ qOps'[p].status = qOps[p].status
          /\ qOps'[p].result = qOps[p].result
    BY <1>5, <1>7 DEF SameCall
  <2>5. Regular'
    <3>1. \A p \in DOMAIN qOps : qOps'[p].kind = "read" /\ qOps'[p].status = "ok" =>
            \A w \in qOps'[p].before :
              qOps'[w].need + qOps'[p].need > QReplicaCount => qOps'[p].result >= w
      BY <1>8, <2>1, <2>3, <2>4 DEF Regular, SameCall
    <3> QED BY <1>7, <3>1 DEF Regular
  <2>6. ReadsAreShown'
    <3> SUFFICES ASSUME NEW p \in DOMAIN qOps, qOps'[p].kind = "read", qOps'[p].status = "running",
                        NEW w \in qOps'[p].before
                 PROVE  Cardinality(Showing(p, w)') >= qOps'[w].need
      BY <1>7 DEF ReadsAreShown
    <3>1. /\ qOps[p].kind = "read" /\ qOps[p].status = "running" /\ w \in qOps[p].before
          /\ w \in Writes /\ w \in DOMAIN qOps /\ qOps'[w] = qOps[w] /\ w \in Nat
      BY <1>1, <1>8, <2>3, <2>4 DEF SameCall
    <3>2. Cardinality(Showing(p, w)) >= qOps[w].need
      BY <2>1, <3>1 DEF ReadsAreShown
    <3>3. ASSUME NEW q \in QReplicas, q \in Showing(p, w) PROVE q \in Showing(p, w)'
      <4>1. CASE p # o
        BY <1>7, <3>1, <3>3, <4>1 DEF Showing
      <4>2. CASE p = o /\ q # r
        <5>1. (q \in qOps'[p].ran <=> q \in qOps[p].ran) /\ qOps'[p].got[q] = qOps[p].got[q]
          BY <1>5, <1>7, <4>2
        <5> QED BY <3>1, <3>3, <5>1 DEF Showing
      <4>3. CASE p = o /\ q = r
        <5>1. q \in qOps[w].ran
          BY <3>3, <4>3 DEF Showing
        <5>2. qStore[q] >= w
          BY <2>1, <3>1, <5>1 DEF WritesStay
        <5>3. q \in qOps'[p].ran /\ qOps'[p].got[q] = qStore[q]
          BY <1>2, <1>5, <1>7, <3>1, <4>3
        <5> QED BY <5>2, <5>3 DEF Showing
      <4> QED BY <4>1, <4>2, <4>3
    <3> QED BY <1>0, <1>9, <3>1, <3>2, <3>3, ShownStays
  <2> QED BY <2>2, <2>5, <2>6
<1> QED BY <1>7, <1>9, <1>10, <1>11 DEF QuorumInv

\* A return leaves the tasks, and what writes are known to have: shown reads stay so.
LEMMA ReturnKeepsShown ==
  ASSUME QuorumInv, QuorumTyped', NEW o \in DOMAIN qOps, NEW op \in Operation,
         qOps' = [qOps EXCEPT ![o] = op], SameCall(qOps[o], op),
         op.ran = qOps[o].ran, op.status # "running", qOps[o].status = "running",
         qStore' = qStore, OneWriteAtATime'
  PROVE  WritesStay' /\ ReadsAreShown'
<1>1. /\ Writes' = Writes /\ OneWriteAtATime
      /\ DOMAIN qOps' = DOMAIN qOps /\ qOps'[o] = op
      /\ \A p \in DOMAIN qOps : p # o => qOps'[p] = qOps[p]
  BY StepKeepsHistory
<1>2. WritesStay /\ ReadsAreShown /\ QuorumTyped
  BY <1>1 DEF QuorumInv
<1>3. \A p \in DOMAIN qOps : SameCall(qOps[p], qOps'[p]) /\ qOps'[p].ran = qOps[p].ran
  BY <1>1 DEF SameCall
<1>4. WritesStay'
  <2>1. \A w \in Writes : qOps'[w].ran = qOps[w].ran
    BY <1>3 DEF Writes
  <2> QED BY <1>1, <1>2, <2>1 DEF WritesStay
<1>5. ReadsAreShown'
  <2> SUFFICES ASSUME NEW p \in DOMAIN qOps, qOps'[p].kind = "read", qOps'[p].status = "running",
                      NEW w \in qOps'[p].before
               PROVE  Cardinality(Showing(p, w)') >= qOps'[w].need
    BY <1>1 DEF ReadsAreShown
  <2>1. p # o /\ qOps'[p] = qOps[p] /\ w \in qOps[p].before
    BY <1>1
  <2>2. w \in DOMAIN qOps
    BY <2>1 DEF QuorumInv, BeforeIsDone, Writes
  <2>3. Cardinality(Showing(p, w)) >= qOps[w].need
    BY <1>2, <2>1 DEF ReadsAreShown
  <2>4. \A q \in QReplicas : q \in Showing(p, w) => q \in Showing(p, w)'
    BY <1>3, <2>1, <2>2 DEF Showing
  <2>5. qOps'[w].need = qOps[w].need
    BY <1>3, <2>2 DEF SameCall
  <2> QED BY <1>2, <2>2, <2>3, <2>4, <2>5, ShownStays
<1> QED BY <1>4, <1>5

\* write() returns: those that have not answered have a hint.
LEMMA ReturnWriteKeepsQuorum ==
  ASSUME QuorumInv, NEW o \in DOMAIN qOps, ReturnWrite(o)
  PROVE  QuorumInv'
<1>0. QuorumTyped
  BY DEF QuorumInv
<1>1. /\ DOMAIN qOps = 1..Len(qOps) /\ Len(qOps) \in Nat /\ qOps \in Seq(Operation)
      /\ \A p \in DOMAIN qOps : qOps[p] \in Operation /\ p \in Nat /\ p \in Versions
      /\ Writes \subseteq DOMAIN qOps
  BY <1>0, OperationsAreTyped DEF QuorumTyped
<1>2. qOps[o].kind = "write" /\ qOps[o].status = "running" /\ UNCHANGED <<qStore, qGiven>>
  BY DEF ReturnWrite
<1>3. PICK answers \in SUBSET qOps[o].ran :
        IF Enough(o, answers)
        THEN /\ qOps' = [qOps EXCEPT ![o].status = "ok"]
             /\ qHints' = [r \in QReplicas |->
                             IF r \in Missed(answers) THEN qHints[r] \cup {o} ELSE qHints[r]]
        ELSE /\ qOps' = [qOps EXCEPT ![o].status = "failed"]
             /\ UNCHANGED qHints
  BY DEF ReturnWrite
<1>4. PICK status \in {"ok", "failed"} : status = IF Enough(o, answers) THEN "ok" ELSE "failed"
  OBVIOUS
<1>5. PICK op : op = [qOps[o] EXCEPT !.status = status]
  OBVIOUS
<1>6. qOps' = [qOps EXCEPT ![o] = op]
  BY <1>3, <1>4, <1>5
<1>7. /\ op \in Operation /\ SameCall(qOps[o], op) /\ op.status = status
      /\ op.ran = qOps[o].ran /\ op.kind = "write"
  BY <1>1, <1>2, <1>5 DEF Operation, SameCall
<1>8. /\ Writes' = Writes /\ BeforeIsDone' /\ QuietComesAfter'
      /\ OneWriteAtATime' => OneWriteAtATime
      /\ qOps' \in Seq(Operation) /\ Len(qOps') = Len(qOps) /\ DOMAIN qOps' = DOMAIN qOps
      /\ qOps'[o] = op
      /\ \A p \in DOMAIN qOps : p # o => qOps'[p] = qOps[p]
  BY <1>2, <1>6, <1>7, StepKeepsHistory
<1>9. \A r \in QReplicas :
        /\ qHints[r] \subseteq qHints'[r]
        /\ qHints'[r] \subseteq qHints[r] \cup {o}
        /\ status = "ok" /\ r \notin answers => o \in qHints'[r]
  BY <1>3, <1>4 DEF Missed
<1>10. QuorumTyped'
  <2>1. o \in Versions
    BY <1>1
  <2>2. qHints' \in [QReplicas -> SUBSET Versions]
    BY <1>0, <1>3, <2>1 DEF QuorumTyped
  <2> QED BY <1>0, <1>2, <1>8, <2>2 DEF QuorumTyped
<1>11. WritesHadEnough'
  <2>1. status = "ok" => Cardinality(qOps[o].ran) >= qOps[o].need
    <3> SUFFICES ASSUME status = "ok" PROVE Cardinality(qOps[o].ran) >= qOps[o].need
      OBVIOUS
    <3>1. Cardinality(answers) >= qOps[o].need
      BY <1>4 DEF Enough
    <3>2. qOps[o].ran \in SUBSET QReplicas /\ qOps[o].need \in Int
      BY <1>1 DEF Operation
    <3>3. Cardinality(answers) <= Cardinality(qOps[o].ran)
          /\ Cardinality(answers) \in Nat /\ Cardinality(qOps[o].ran) \in Nat
      BY <3>2, MoreReplicas
    <3> QED BY <3>1, <3>2, <3>3
  <2>2. \A w \in Writes : qOps'[w].status = "ok" => Cardinality(qOps'[w].ran) >= qOps'[w].need
    BY <1>1, <1>7, <1>8, <2>1 DEF QuorumInv, WritesHadEnough, SameCall
  <2> QED BY <1>8, <2>2 DEF WritesHadEnough
<1>12. MissesAreHinted'
  <2>1. ASSUME NEW w \in Writes, NEW r \in QReplicas, qOps'[w].status = "ok", r \notin qOps'[w].ran
        PROVE  w \in qHints'[r] \cup qGiven'[r]
    <3>1. CASE w = o
      BY <1>7, <1>8, <1>9, <2>1, <3>1
    <3>2. CASE w # o
      BY <1>1, <1>2, <1>8, <1>9, <2>1, <3>2 DEF QuorumInv, MissesAreHinted
    <3> QED BY <3>1, <3>2
  <2> QED BY <1>8, <2>1 DEF MissesAreHinted
<1>13. ASSUME OneWriteAtATime' PROVE WritesStay' /\ ReadsAreShown' /\ Regular'
  <2>1. WritesStay' /\ ReadsAreShown'
    BY <1>2, <1>6, <1>7, <1>10, <1>13, ReturnKeepsShown
  <2>2. Regular /\ \A p \in DOMAIN qOps : \A w \in qOps[p].before : w \in DOMAIN qOps
    BY <1>8, <1>13 DEF QuorumInv, BeforeIsDone, Writes
  <2>3. \A p \in DOMAIN qOps : SameCall(qOps[p], qOps'[p])
                               /\ (qOps'[p].kind = "read" => qOps'[p] = qOps[p])
    BY <1>7, <1>8 DEF SameCall
  <2>4. \A p \in DOMAIN qOps : qOps'[p].kind = "read" /\ qOps'[p].status = "ok" =>
          \A w \in qOps'[p].before :
            qOps'[w].need + qOps'[p].need > QReplicaCount => qOps'[p].result >= w
    BY <2>2, <2>3 DEF Regular, SameCall
  <2> QED BY <1>8, <2>1, <2>4 DEF Regular
<1> QED BY <1>8, <1>10, <1>11, <1>12, <1>13 DEF QuorumInv

\* Answers and replicas that show the write are too many not to meet.
LEMMA AnswersMeetWrites ==
  ASSUME NEW A \in SUBSET QReplicas, NEW S \in SUBSET QReplicas, NEW i \in Int, NEW j \in Int,
         Cardinality(A) >= i, Cardinality(S) >= j, j + i > QReplicaCount
  PROVE  \E r \in QReplicas : r \in A /\ r \in S
<1>1. /\ IsFiniteSet(QReplicas) /\ Cardinality(QReplicas) = QReplicaCount /\ QReplicaCount \in Nat
      /\ Cardinality(A) \in Nat /\ Cardinality(S) \in Nat
  BY ReplicasAreFinite
<1>2. Cardinality(A) + Cardinality(S) > Cardinality(QReplicas)
  BY <1>1
<1>3. A \cap S # {}
  BY <1>1, <1>2, FS_MajoritiesIntersect
<1> QED BY <1>3

\* read() returns the newest of its answers, one of which shows the write.
LEMMA ReturnReadKeepsQuorum ==
  ASSUME QuorumInv, NEW o \in DOMAIN qOps, ReturnRead(o)
  PROVE  QuorumInv'
<1>0. QuorumTyped
  BY DEF QuorumInv
<1>1. /\ DOMAIN qOps = 1..Len(qOps) /\ Len(qOps) \in Nat /\ qOps \in Seq(Operation)
      /\ \A p \in DOMAIN qOps : qOps[p] \in Operation /\ p \in Nat /\ p \in Versions
      /\ Writes \subseteq DOMAIN qOps
  BY <1>0, OperationsAreTyped DEF QuorumTyped
<1>2. qOps[o].kind = "read" /\ qOps[o].status = "running" /\ UNCHANGED <<qStore, qHints, qGiven>>
  BY DEF ReturnRead
<1>3. PICK answers \in SUBSET qOps[o].ran :
        qOps' = IF Enough(o, answers) /\ answers # {}
                THEN [qOps EXCEPT ![o].status = "ok", ![o].got = NoAnswers,
                                  ![o].result = Max({qOps[o].got[r] : r \in answers})]
                ELSE [qOps EXCEPT ![o].status = "failed", ![o].got = NoAnswers]
  BY DEF ReturnRead
<1>4. PICK good \in BOOLEAN : good = (Enough(o, answers) /\ answers # {})
  OBVIOUS
<1>5. PICK seen : seen = {qOps[o].got[r] : r \in answers}
  OBVIOUS
<1>6. PICK result : result = IF good THEN Max(seen) ELSE qOps[o].result
  OBVIOUS
<1>7. PICK op : op = [qOps[o] EXCEPT !.status = IF good THEN "ok" ELSE "failed",
                                     !.got = NoAnswers, !.result = result]
  OBVIOUS
<1>8. qOps' = [qOps EXCEPT ![o] = op]
  <2>1. qOps[o] \in Operation
    BY <1>1
  <2>2. CASE good
    BY <1>3, <1>4, <1>5, <1>6, <1>7, <2>1, <2>2 DEF Operation
  <2>3. CASE ~good
    <3>1. [qOps[o] EXCEPT !.status = "failed", !.got = NoAnswers] = op
      BY <1>6, <1>7, <2>1, <2>3 DEF Operation
    <3> QED BY <1>3, <1>4, <2>3, <3>1
  <2> QED BY <2>2, <2>3
<1>9. answers \subseteq QReplicas /\ \A r \in answers : qOps[o].got[r] \in Versions
  BY <1>1 DEF Operation
<1>10. good => Max(seen) \in Versions /\ \A r \in answers : qOps[o].got[r] <= Max(seen)
  <2> SUFFICES ASSUME good
               PROVE  Max(seen) \in Versions /\ \A r \in answers : qOps[o].got[r] <= Max(seen)
    OBVIOUS
  <2>1. seen # {} /\ seen \in SUBSET (0..QMaxOps)
    BY <1>4, <1>5, <1>9 DEF Versions
  <2>2. QMaxOps \in Nat
    BY QuorumAssumption
  <2>3. Max(seen) \in seen /\ \A y \in seen : y <= Max(seen)
    BY <2>1, <2>2, GreatestNumber
  <2> QED BY <1>5, <2>1, <2>3 DEF Versions
<1>11. /\ op \in Operation /\ SameCall(qOps[o], op)
       /\ op.status # "running" /\ (op.status = "ok" => good)
       /\ op.ran = qOps[o].ran /\ op.result = result
  <2>1. NoAnswers \in [QReplicas -> Versions]
    BY QuorumAssumption DEF NoAnswers, Versions
  <2>2. result \in Versions
    BY <1>1, <1>6, <1>10 DEF Operation
  <2> QED BY <1>1, <1>7, <2>1, <2>2, ZenonT(30) DEF Operation, SameCall
<1>12. /\ Writes' = Writes /\ BeforeIsDone' /\ QuietComesAfter'
       /\ OneWriteAtATime' => OneWriteAtATime
       /\ qOps' \in Seq(Operation) /\ Len(qOps') = Len(qOps) /\ DOMAIN qOps' = DOMAIN qOps
       /\ qOps'[o] = op
       /\ \A p \in DOMAIN qOps : p # o => qOps'[p] = qOps[p]
  BY <1>2, <1>8, <1>11, StepKeepsHistory
<1>13. \A w \in Writes : qOps'[w] = qOps[w] /\ w \in DOMAIN qOps
  BY <1>1, <1>2, <1>12 DEF Writes
<1>14. QuorumTyped'
  BY <1>0, <1>2, <1>12 DEF QuorumTyped
<1>15. WritesHadEnough' /\ MissesAreHinted'
  BY <1>2, <1>12, <1>13 DEF QuorumInv, WritesHadEnough, MissesAreHinted
<1>16. ASSUME OneWriteAtATime' PROVE WritesStay' /\ ReadsAreShown' /\ Regular'
  <2>1. WritesStay' /\ ReadsAreShown'
    BY <1>2, <1>8, <1>11, <1>14, <1>16, ReturnKeepsShown
  <2>2. /\ OneWriteAtATime /\ Regular /\ ReadsAreShown
        /\ \A p \in DOMAIN qOps : \A w \in qOps[p].before : w \in Writes
    BY <1>12, <1>16 DEF QuorumInv, BeforeIsDone
  <2>3. ASSUME NEW p \in DOMAIN qOps, qOps'[p].kind = "read", qOps'[p].status = "ok",
               NEW w \in qOps'[p].before, qOps'[w].need + qOps'[p].need > QReplicaCount
        PROVE  qOps'[p].result >= w
    <3>1. w \in qOps[p].before /\ w \in Writes /\ qOps'[w] = qOps[w] /\ w \in Nat
          /\ qOps'[p].need = qOps[p].need
      BY <1>1, <1>11, <1>12, <1>13, <2>2, <2>3 DEF SameCall
    <3>2. CASE p # o
      BY <1>12, <2>2, <2>3, <3>1, <3>2 DEF Regular
    <3>3. CASE p = o
      <4>1. good /\ Cardinality(answers) >= qOps[o].need
        BY <1>4, <1>11, <1>12, <2>3, <3>3 DEF Enough
      <4>2. PICK shown : shown = Showing(o, w)
        OBVIOUS
      <4>3. shown \in SUBSET QReplicas /\ Cardinality(shown) >= qOps[w].need
        BY <1>2, <2>2, <3>1, <3>3, <4>2 DEF ReadsAreShown, Showing
      <4>4. qOps[o].need \in Int /\ qOps[w].need \in Int
        BY <1>1, <3>1 DEF Operation
      <4>5. \E r \in QReplicas : r \in answers /\ r \in shown
        BY <1>9, <2>3, <3>1, <3>3, <4>1, <4>3, <4>4, AnswersMeetWrites
      <4>6. PICK r \in QReplicas : r \in answers /\ r \in shown
        BY <4>5
      <4>7. qOps[o].got[r] >= w /\ qOps[o].got[r] <= Max(seen)
        BY <1>10, <4>1, <4>2, <4>6 DEF Showing
      <4>8. qOps[o].got[r] \in Nat /\ Max(seen) \in Nat
        BY <1>9, <1>10, <4>1, <4>6 DEF Versions
      <4> QED BY <1>6, <1>11, <1>12, <3>1, <3>3, <4>1, <4>7, <4>8
    <3> QED BY <3>2, <3>3
  <2>4. Regular'
    BY <1>12, <2>3 DEF Regular
  <2> QED BY <2>1, <2>4
<1> QED BY <1>12, <1>14, <1>15, <1>16 DEF QuorumInv

LEMMA DeliverKeepsQuorum ==
  ASSUME QuorumInv, NEW r \in QReplicas, DeliverHints(r)
  PROVE  QuorumInv'
<1>1. QuorumTyped'
  BY DEF QuorumInv, QuorumTyped, DeliverHints
<1>2. qOps' = qOps /\ qStore' = qStore
  BY DEF DeliverHints
<1>3. \A q \in QReplicas : qHints[q] \cup qGiven[q] \subseteq qHints'[q] \cup qGiven'[q]
  BY DEF QuorumInv, QuorumTyped, DeliverHints
<1>4. Writes' = Writes /\ (OneWriteAtATime' <=> OneWriteAtATime)
  BY <1>2 DEF Writes, OneWriteAtATime
<1>5. BeforeIsDone' /\ WritesHadEnough' /\ QuietComesAfter'
  BY <1>2, <1>4 DEF QuorumInv, BeforeIsDone, WritesHadEnough, QuietComesAfter
<1>6. MissesAreHinted'
  BY <1>2, <1>3, <1>4 DEF QuorumInv, MissesAreHinted
<1>7. OneWriteAtATime' => WritesStay' /\ ReadsAreShown' /\ Regular'
  BY <1>2, <1>4 DEF QuorumInv, WritesStay, ReadsAreShown, Showing, Regular
<1> QED BY <1>1, <1>5, <1>6, <1>7 DEF QuorumInv

LEMMA QuorumInvHolds == QuorumSpec => []QuorumInv
<1>1. QuorumInv /\ [QuorumNext]_quorumVars => QuorumInv'
  <2> SUFFICES ASSUME QuorumInv, [QuorumNext]_quorumVars PROVE QuorumInv'
    OBVIOUS
  <2>1. ASSUME NEW o \in DOMAIN qOps, NEW r \in QReplicas, RunTask(o, r) PROVE QuorumInv'
    <3>1. r \notin qOps[o].ran /\ UNCHANGED <<qHints, qGiven>>
          /\ (WriteToReplica(o, r) \/ ReadFromReplica(o, r))
      BY <2>1 DEF RunTask
    <3> QED BY <3>1, WriteTaskKeepsQuorum, ReadTaskKeepsQuorum
  <2>2. CASE UNCHANGED quorumVars
    <3>1. qOps' = qOps /\ qStore' = qStore /\ qHints' = qHints /\ qGiven' = qGiven
      BY <2>2 DEF quorumVars
    <3> QED BY <3>1 DEF QuorumInv, QuorumTyped, BeforeIsDone, WritesHadEnough, QuietComesAfter,
          MissesAreHinted, OneWriteAtATime, WritesStay, ReadsAreShown, Showing, Regular, Writes
  <2> QED BY <2>1, <2>2, BeginKeepsQuorum, ReturnWriteKeepsQuorum, ReturnReadKeepsQuorum,
        DeliverKeepsQuorum DEF QuorumNext
<1> QED BY <1>1, QuorumInitHolds, PTL DEF QuorumSpec

\* With W + R > N a read returns the newest write done before it began, or a newer
\* one, whatever N, W and R are, as long as writes come one after another
\* (README.md:101 of quorum-systems).
THEOREM ReadsAreRegular == QuorumSpec => []ReadsSeeCompletedWrites
<1>1. QuorumInv => ReadsSeeCompletedWrites
  BY DEF QuorumInv, ReadsSeeCompletedWrites
<1> QED BY <1>1, QuorumInvHolds, PTL

\* A write reported done has come to every replica, or has a hint that was or will
\* be delivered, whatever its thread pool still runs (quorum_system.py:377).
THEOREM HintsAreKept == QuorumSpec => []MissesAreHinted
<1>1. QuorumInv => MissesAreHinted
  BY DEF QuorumInv
<1> QED BY <1>1, QuorumInvHolds, PTL

-----------------------------------------------------------------------------
(* Numbers and selections.                                                  *)

\* Induction over the natural numbers, for a set.
LEMMA EveryNumber ==
    ASSUME NEW S, 0 \in S, \A n \in Nat : n \in S => n + 1 \in S
    PROVE  \A n \in Nat : n \in S
<1> SUFFICES ASSUME Nat \ S # {} PROVE FALSE
  OBVIOUS
<1>1. PICK x \in Nat \ S : \A y \in Nat \ S : x <= y
  BY LeastNumber
<1>2. x # 0 /\ x - 1 \in Nat /\ x - 1 \in S
  BY <1>1
<1> QED BY <1>1, <1>2

\* Step by step, from a first value in V and functions from V to V.
Stepwise(m, n, V, base, step) ==
    m[0] = base /\ \A k \in 1 .. n : m[k - 1] \in V => m[k] = step[k][m[k - 1]]

\* Recursion on numbers defines a function: one step is taken after the other.
LEMMA RecursionDefines ==
    ASSUME NEW V, NEW base \in V, NEW step \in [Nat -> [V -> V]], NEW n \in Nat
    PROVE  \E m \in [0 .. n -> V] : Stepwise(m, n, V, base, step)
<1> DEFINE N == {i \in Nat : \E m \in [0 .. i -> V] : Stepwise(m, i, V, base, step)}
<1>1. 0 \in N
  <2>1. [k \in 0 .. 0 |-> base] \in [0 .. 0 -> V]
    OBVIOUS
  <2>2. Stepwise([k \in 0 .. 0 |-> base], 0, V, base, step)
    BY DEF Stepwise
  <2> QED BY <2>1, <2>2
<1>2. ASSUME NEW i \in Nat, i \in N PROVE i + 1 \in N
  <2>1. PICK m \in [0 .. i -> V] : Stepwise(m, i, V, base, step)
    BY <1>2
  <2>2. PICK last : last = step[i + 1][m[i]]
    OBVIOUS
  <2>3. last \in V
    <3>1. i \in 0 .. i
      OBVIOUS
    <3>2. m[i] \in V /\ i + 1 \in Nat
      BY <3>1
    <3> QED BY <2>2, <3>2
  <2> DEFINE f == [k \in 0 .. i + 1 |-> IF k = i + 1 THEN last ELSE m[k]]
  <2>4. f \in [0 .. i + 1 -> V]
    <3>1. \A k \in 0 .. i + 1 : k = i + 1 \/ k \in 0 .. i
      OBVIOUS
    <3> QED BY <2>3, <3>1
  <2>5. f[i + 1] = last /\ \A k \in 0 .. i : f[k] = m[k]
    OBVIOUS
  <2> HIDE DEF f
  <2>6. ASSUME NEW k \in 1 .. i + 1 PROVE f[k] = step[k][f[k - 1]]
    <3>1. CASE k = i + 1
      <4>1. k - 1 = i /\ i \in 0 .. i
        BY <3>1
      <4> QED BY <2>2, <2>5, <3>1, <4>1
    <3>2. CASE k \in 1 .. i
      <4>1. k \in 0 .. i /\ k - 1 \in 0 .. i
        BY <3>2
      <4>2. m[k] = step[k][m[k - 1]]
        BY <2>1, <3>2 DEF Stepwise
      <4> QED BY <2>5, <4>1, <4>2
    <3> QED BY <3>1, <3>2
  <2>7. f[0] = base
    <3>1. 0 \in 0 .. i
      OBVIOUS
    <3> QED BY <2>1, <2>5, <3>1 DEF Stepwise
  <2>8. Stepwise(f, i + 1, V, base, step)
    BY <2>6, <2>7 DEF Stepwise
  <2> QED BY <2>4, <2>8
<1>3. \A i \in Nat : i \in N
  <2> HIDE DEF N
  <2> QED BY <1>1, <1>2, EveryNumber
<1> QED BY <1>3

\* What goes on in V stays in V.
LEMMA StepsStay ==
    ASSUME NEW V, NEW base \in V, NEW step \in [Nat -> [V -> V]], NEW n \in Nat,
           NEW f, Stepwise(f, n, V, base, step)
    PROVE  \A k \in 0 .. n : f[k] \in V
<1> DEFINE N == {k \in Nat : k <= n => f[k] \in V}
<1>1. 0 \in N
  BY DEF Stepwise
<1>2. ASSUME NEW k \in Nat, k \in N PROVE k + 1 \in N
  <2> SUFFICES ASSUME k + 1 <= n PROVE f[k + 1] \in V
    OBVIOUS
  <2>1. k + 1 \in 1 .. n /\ (k + 1) - 1 = k /\ f[k] \in V
    BY <1>2
  <2>2. f[k + 1] = step[k + 1][f[k]]
    BY <2>1 DEF Stepwise
  <2> QED BY <2>1, <2>2
<1>3. \A k \in Nat : k \in N
  <2> HIDE DEF N
  <2> QED BY <1>1, <1>2, EveryNumber
<1> QED BY <1>3

\* The selection is well defined: it handles one element after the other.
LEMMA SelectionSteps ==
    ASSUME NEW T, NEW seq \in Seq(T), NEW S
    PROVE  /\ KeepSteps(seq, S)[0] = << >>
           /\ \A k \in 1 .. Len(seq) :
                 KeepSteps(seq, S)[k] = IF seq[k] \in S THEN Append(KeepSteps(seq, S)[k - 1], seq[k])
                                        ELSE KeepSteps(seq, S)[k - 1]
<1> DEFINE V == Seq(T)
           step == [k \in Nat |-> [s \in V |->
                       IF k \in 1 .. Len(seq) /\ seq[k] \in S THEN Append(s, seq[k]) ELSE s]]
           Loop(m) == m = [k \in 0 .. Len(seq) |-> IF k = 0 THEN << >>
                            ELSE IF seq[k] \in S THEN Append(m[k - 1], seq[k]) ELSE m[k - 1]]
<1>1. Len(seq) \in Nat /\ << >> \in V
  OBVIOUS
<1>2. step \in [Nat -> [V -> V]]
  OBVIOUS
<1>3. PICK m \in [0 .. Len(seq) -> V] : Stepwise(m, Len(seq), V, << >>, step)
  <2> HIDE DEF V, step
  <2> QED BY <1>1, <1>2, RecursionDefines
<1>4. Loop(m)
  <2>1. ASSUME NEW k \in 0 .. Len(seq)
        PROVE  m[k] = IF k = 0 THEN << >>
                      ELSE IF seq[k] \in S THEN Append(m[k - 1], seq[k]) ELSE m[k - 1]
    <3>1. CASE k = 0
      BY <1>3, <3>1 DEF Stepwise
    <3>2. CASE k # 0
      <4>1. k \in 1 .. Len(seq) /\ k - 1 \in 0 .. Len(seq) /\ k \in Nat
        BY <1>1, <3>2
      <4>2. m[k - 1] \in V
        BY <1>3, <4>1
      <4>3. m[k] = step[k][m[k - 1]]
        <5> HIDE DEF V, step
        <5> QED BY <1>3, <4>1, <4>2 DEF Stepwise
      <4> QED BY <3>2, <4>1, <4>2, <4>3
    <3> QED BY <3>1, <3>2
  <2>2. m = [k \in 0 .. Len(seq) |-> m[k]]
    BY <1>3
  <2> QED BY <2>1, <2>2
<1>5. PICK f : f = KeepSteps(seq, S)
  OBVIOUS
<1>6. Loop(f)
  <2>1. f = CHOOSE g : Loop(g)
    BY <1>5 DEF KeepSteps
  <2> HIDE DEF Loop
  <2> QED BY <1>4, <2>1
<1>7. f[0] = << >>
  <2>1. 0 \in 0 .. Len(seq)
    BY <1>1
  <2> QED BY <1>6, <2>1
<1>8. ASSUME NEW k \in 1 .. Len(seq)
      PROVE  f[k] = IF seq[k] \in S THEN Append(f[k - 1], seq[k]) ELSE f[k - 1]
  <2>1. k \in 0 .. Len(seq) /\ k # 0
    BY <1>1
  <2> QED BY <1>6, <2>1
<1> QED BY <1>5, <1>7, <1>8

\* What is kept are the elements in the set; no element comes twice that did not before.
LEMMA SelectionKeeps ==
    ASSUME NEW T, NEW seq \in Seq(T), NEW S
    PROVE  /\ KeepOnly(seq, S) \in Seq(T)
           /\ Range(KeepOnly(seq, S)) = Range(seq) \cap S
           /\ IsInjective(seq) => IsInjective(KeepOnly(seq, S))
<1> DEFINE Kept(n) == KeepSteps(seq, S)[n]
           Right(n) == /\ Kept(n) \in Seq(T)
                       /\ \A x : (\E j \in 1 .. Len(Kept(n)) : Kept(n)[j] = x)
                                    <=> x \in S /\ \E i \in 1 .. n : seq[i] = x
                       /\ IsInjective(seq) => \A i, j \in 1 .. Len(Kept(n)) :
                                                 Kept(n)[i] = Kept(n)[j] => i = j
           N == {n \in Nat : n <= Len(seq) => Right(n)}
<1>0. Len(seq) \in Nat /\ DOMAIN seq = 1 .. Len(seq) /\ \A i \in 1 .. Len(seq) : seq[i] \in T
  OBVIOUS
<1>1. 0 \in N
  <2>1. Kept(0) = << >>
    BY SelectionSteps
  <2>2. Right(0)
    <3>1. PICK k : k = Kept(0)
      OBVIOUS
    <3>2. k = << >> /\ k \in Seq(T) /\ Len(k) = 0
      BY <2>1, <3>1
    <3> HIDE DEF Kept
    <3> QED BY <3>1, <3>2
  <2> HIDE DEF Right
  <2> QED BY <2>2
<1>2. ASSUME NEW n \in Nat, n \in N PROVE n + 1 \in N
  <2> HIDE DEF Right
  <2> SUFFICES ASSUME n + 1 <= Len(seq) PROVE Right(n + 1)
    <3>1. n + 1 \in Nat
      OBVIOUS
    <3> QED BY <3>1
  <2>0. n + 1 \in 1 .. Len(seq) /\ (n + 1) - 1 = n /\ Right(n)
    <3>1. n + 1 \in 1 .. Len(seq) /\ (n + 1) - 1 = n /\ n <= Len(seq)
      BY <1>0
    <3> QED BY <1>2, <3>1
  <2> USE DEF Right
  <2>1. PICK x, old, new : x = seq[n + 1] /\ old = Kept(n) /\ new = Kept(n + 1)
    OBVIOUS
  <2>2. new = IF x \in S THEN Append(old, x) ELSE old
    BY <2>0, <2>1, SelectionSteps
  <2>3. /\ old \in Seq(T) /\ x \in T
        /\ \A y : (\E j \in 1 .. Len(old) : old[j] = y) <=> y \in S /\ \E i \in 1 .. n : seq[i] = y
        /\ IsInjective(seq) => \A i, j \in 1 .. Len(old) : old[i] = old[j] => i = j
    BY <2>0, <2>1, <1>0
  <2>4. CASE x \notin S
    <3>1. \A y : y \in S => ((\E i \in 1 .. n : seq[i] = y) <=> (\E i \in 1 .. n + 1 : seq[i] = y))
      BY <2>1, <2>4
    <3> QED BY <2>1, <2>2, <2>3, <2>4, <3>1
  <2>5. CASE x \in S
    <3>1. /\ new \in Seq(T) /\ Len(new) = Len(old) + 1 /\ Len(old) \in Nat
          /\ new[Len(old) + 1] = x /\ \A j \in 1 .. Len(old) : new[j] = old[j]
      BY <2>2, <2>3, <2>5
    <3>2. ASSUME NEW y
          PROVE  (\E j \in 1 .. Len(new) : new[j] = y) <=> y \in S /\ \E i \in 1 .. n + 1 : seq[i] = y
      <4>1. (\E j \in 1 .. Len(new) : new[j] = y) <=> (y = x \/ \E j \in 1 .. Len(old) : old[j] = y)
        BY <3>1
      <4>2. (\E i \in 1 .. n + 1 : seq[i] = y) <=> (y = x \/ \E i \in 1 .. n : seq[i] = y)
        BY <2>1
      <4> QED BY <4>1, <4>2, <2>3, <2>5
    <3>3. ASSUME IsInjective(seq), NEW i \in 1 .. Len(new), NEW j \in 1 .. Len(new), new[i] = new[j]
          PROVE  i = j
      <4>1. \A k \in 1 .. Len(old) : old[k] # x
        <5> SUFFICES ASSUME NEW k \in 1 .. Len(old), old[k] = x PROVE FALSE
          OBVIOUS
        <5>1. PICK l \in 1 .. n : seq[l] = x
          BY <2>3
        <5>2. l \in DOMAIN seq /\ n + 1 \in DOMAIN seq /\ seq[l] = seq[n + 1] /\ l # n + 1
          BY <5>1, <2>0, <2>1, <1>0
        <5> QED BY <5>2, <3>3 DEF IsInjective
      <4>2. PICK len \in Nat : len = Len(old)
        BY <3>1
      <4>3. i \in 1 .. len + 1 /\ j \in 1 .. len + 1
        BY <3>1, <4>2
      <4>4. CASE i = len + 1
        <5>1. j \notin 1 .. len
          BY <4>1, <4>2, <4>4, <3>1, <3>3
        <5> QED BY <4>2, <4>3, <4>4, <5>1
      <4>5. CASE j = len + 1
        <5>1. i \notin 1 .. len
          BY <4>1, <4>2, <4>5, <3>1, <3>3
        <5> QED BY <4>2, <4>3, <4>5, <5>1
      <4>6. CASE i \in 1 .. len /\ j \in 1 .. len
        BY <4>2, <4>6, <3>1, <3>3, <2>3
      <4> QED BY <4>2, <4>3, <4>4, <4>5, <4>6
    <3> QED BY <3>1, <3>2, <3>3, <2>1, ZenonT(30)
  <2> QED BY <2>4, <2>5
<1>3. \A n \in Nat : n \in N
  <2> HIDE DEF N
  <2> QED BY <1>1, <1>2, EveryNumber
<1>4. Right(Len(seq))
  <2>1. Len(seq) \in N
    <3> HIDE DEF N
    <3> QED BY <1>0, <1>3
  <2>2. Len(seq) <= Len(seq)
    BY <1>0
  <2> HIDE DEF Right
  <2> QED BY <2>1, <2>2
<1>5. PICK kept : kept = KeepOnly(seq, S)
  OBVIOUS
<1>6. /\ kept \in Seq(T)
      /\ \A x : (\E j \in 1 .. Len(kept) : kept[j] = x) <=> x \in S /\ \E i \in 1 .. Len(seq) : seq[i] = x
      /\ IsInjective(seq) => \A i, j \in 1 .. Len(kept) : kept[i] = kept[j] => i = j
  BY <1>4, <1>5 DEF KeepOnly
<1>7. DOMAIN kept = 1 .. Len(kept)
  BY <1>6
<1>8. Range(kept) = Range(seq) \cap S
  BY <1>0, <1>6, <1>7 DEF Range
<1> QED BY <1>5, <1>6, <1>7, <1>8 DEF IsInjective

-----------------------------------------------------------------------------
(* The service registry.                                                    *)

\* What an instance nobody has registered yet is like, and what a check of an
\* instance that nothing has happened to since its round began has found: the
\* status it has read still stands, and the one it will write is right.
Untouched(i) == sStatus[i] = "UP" /\ Well(i) /\ sCheck[i] = NoCheck

CheckIsRight(i) ==
    /\ sCheck[i].stage = "probe" => /\ sCheck[i].read = sStatus[i]
                                    /\ sFresh[i] /\ i \in SProbed
    /\ sCheck[i].stage \in {"UP", "DOWN"} => /\ sCheck[i].read = sStatus[i]
                                             /\ sCheck[i].stage = "UP" <=> Well(i)
    /\ sCheck[i].stage = "none" /\ Registered(i) => (sStatus[i] = "UP" <=> Well(i))

RegistryInv ==
    /\ sList \in Seq(SInstances) /\ IsInjective(sList)
    /\ sNext \in Nat \ {0}
    /\ sStatus \in [SInstances -> {"UP", "DOWN"}]
    /\ sFresh \in [SInstances -> BOOLEAN]
    /\ sHealthy \in [SInstances -> BOOLEAN]
    /\ sCalm \in [SInstances -> BOOLEAN]
    /\ sCheck \in [SInstances -> [stage : {"none", "todo", "probe", "UP", "DOWN"},
                                  read : {"UP", "DOWN"}]]
    /\ \A i \in SInstances : /\ Registered(i) => i < sNext
                             /\ i >= sNext => Untouched(i)
                             /\ sCalm[i] => CheckIsRight(i)

\* The index `steps` turns before i in a list of n, which comes after its last again.
Back(i, steps, n) == IF i >= steps THEN i - steps ELSE i - steps + n

\* The picks made last from one list are the instances before the index, in order.
BalancerInv ==
    /\ sIndex \in Nat
    /\ sSeen \in [SCallers -> Seq(SInstances)]
    /\ \A c \in SCallers : IsInjective(sSeen[c])
    /\ sPicks \in [list : Seq(SInstances), picks : Seq(SInstances)]
    /\ IsInjective(sPicks.list)
    /\ Len(sPicks.picks) <= Len(sPicks.list)
    /\ sPicks.list # << >> => Len(sPicks.picks) > 0 /\ sIndex < Len(sPicks.list)
    /\ \A j \in 1 .. Len(sPicks.picks) :
          sPicks.picks[j] = sPicks.list[Back(sIndex, Len(sPicks.picks) - j + 1, Len(sPicks.list)) + 1]

\* An instance of which nothing has changed but that others came or left.
LEMMA OthersKeep ==
    ASSUME RegistryInv, NEW i \in SInstances,
           sStatus'[i] = sStatus[i], sFresh'[i] = sFresh[i], sHealthy'[i] = sHealthy[i],
           sCheck'[i] = sCheck[i], sCalm'[i] = sCalm[i], sNext' = sNext,
           Registered(i)' => Registered(i)
    PROVE  /\ Registered(i)' => i < sNext'
           /\ i >= sNext' => Untouched(i)'
           /\ sCalm'[i] => CheckIsRight(i)'
BY DEF RegistryInv, Untouched, CheckIsRight, Well

\* Each step of the registry, one by one.
LEMMA RegistryStep ==
    ASSUME RegistryInv, [RegistryNext]_serviceVars PROVE RegistryInv'
<1> USE DEF NoCheck
<1>0. SInstances \subseteq Nat \ {0} /\ SMaxInstances \in Nat
  BY RegistryAssumption DEF SInstances
<1>1. CASE Register
  <2>1. PICK x : x = sNext
    OBVIOUS
  <2>2. x \in SInstances /\ x \notin Range(sList)
    BY <1>1, <2>1 DEF Register, RegistryInv, SInstances, Registered
  <2>3. /\ sList' = Append(sList, x) /\ sNext' = x + 1
        /\ UNCHANGED <<sStatus, sFresh, sHealthy, sCheck, sCalm>>
    BY <1>1, <2>1 DEF Register
  <2>4. sList' \in Seq(SInstances) /\ Range(sList') = Range(sList) \cup {x} /\ IsInjective(sList')
    <3>1. PICK l, m : l = sList /\ m = sList'
      OBVIOUS
    <3>2. /\ l \in Seq(SInstances) /\ m = Append(l, x) /\ IsInjective(l) /\ x \notin Range(l)
      BY <2>2, <2>3, <3>1 DEF RegistryInv
    <3>3. /\ m \in Seq(SInstances) /\ DOMAIN m = 1 .. Len(l) + 1 /\ DOMAIN l = 1 .. Len(l)
          /\ Len(l) \in Nat /\ m[Len(l) + 1] = x /\ \A i \in 1 .. Len(l) : m[i] = l[i]
      BY <2>2, <3>2
    <3>4. Range(m) = Range(l) \cup {x}
      BY <3>3 DEF Range
    <3>5. IsInjective(m)
      BY <3>2, <3>3 DEF IsInjective, Range
    <3> QED BY <3>1, <3>3, <3>4, <3>5
  <2>5. ASSUME NEW i \in SInstances
        PROVE  /\ Registered(i)' => i < sNext'
               /\ i >= sNext' => Untouched(i)'
               /\ sCalm'[i] => CheckIsRight(i)'
    <3>1. CASE i = x
      BY <3>1, <2>1, <2>3, <1>0 DEF RegistryInv, Untouched, CheckIsRight, Well
    <3>2. CASE i # x
      <4>1. Registered(i)' <=> Registered(i)
        BY <3>2, <2>4 DEF Registered
      <4> QED BY <3>2, <4>1, <2>1, <2>3, <1>0 DEF RegistryInv, Untouched, CheckIsRight, Well
    <3> QED BY <3>1, <3>2
  <2> QED BY <2>1, <2>3, <2>4, <2>5 DEF RegistryInv
<1>2. ASSUME NEW k \in SInstances, Deregister(k) PROVE RegistryInv'
  <2>1. UNCHANGED <<sNext, sStatus, sFresh, sHealthy, sCheck, sCalm>>
    BY <1>2 DEF Deregister
  <2>2. sList' \in Seq(SInstances) /\ Range(sList') \subseteq Range(sList) /\ IsInjective(sList')
    BY <1>2, SelectionKeeps DEF Deregister, RegistryInv
  <2>3. \A i \in SInstances : Registered(i)' => Registered(i)
    BY <2>2 DEF Registered
  <2>4. \A i \in SInstances : /\ Registered(i)' => i < sNext'
                              /\ i >= sNext' => Untouched(i)'
                              /\ sCalm'[i] => CheckIsRight(i)'
    BY <2>1, <2>3, OthersKeep
  <2> QED BY <2>1, <2>2, <2>4 DEF RegistryInv
<1>3. ASSUME NEW k \in SInstances, Heartbeat(k) \/ HeartbeatLapses(k) \/ HealthChanges(k)
      PROVE  RegistryInv'
  <2>1. /\ UNCHANGED <<sList, sNext, sCheck>> /\ Registered(k)
        /\ sCalm' = [sCalm EXCEPT ![k] = FALSE]
        /\ sStatus' \in [SInstances -> {"UP", "DOWN"}]
        /\ sFresh' \in [SInstances -> BOOLEAN]
        /\ sHealthy' \in [SInstances -> BOOLEAN]
        /\ \A i \in SInstances \ {k} : /\ sStatus'[i] = sStatus[i] /\ sFresh'[i] = sFresh[i]
                                       /\ sHealthy'[i] = sHealthy[i] /\ sCalm'[i] = sCalm[i]
    BY <1>3 DEF Heartbeat, HeartbeatLapses, HealthChanges, Disturb, RegistryInv
  <2>2. \A i \in SInstances : Registered(i)' <=> Registered(i)
    BY <2>1 DEF Registered
  <2>3. ASSUME NEW i \in SInstances
        PROVE  /\ Registered(i)' => i < sNext'
               /\ i >= sNext' => Untouched(i)'
               /\ sCalm'[i] => CheckIsRight(i)'
    <3>1. CASE i = k
      BY <3>1, <2>1, <2>2, <1>0 DEF RegistryInv
    <3>2. CASE i # k
      BY <3>2, <2>1, <2>2, OthersKeep
    <3> QED BY <3>1, <3>2
  <2> QED BY <2>1, <2>3 DEF RegistryInv
<1>4. CASE BeginRound
  <2>1. /\ UNCHANGED <<sList, sNext, sStatus, sFresh, sHealthy>>
        /\ sCalm' \in [SInstances -> BOOLEAN]
        /\ sCheck' \in [SInstances -> [stage : {"none", "todo", "probe", "UP", "DOWN"},
                                       read : {"UP", "DOWN"}]]
        /\ \A i \in SInstances :
              sCheck'[i] = IF Registered(i) THEN [stage |-> "todo", read |-> "UP"] ELSE NoCheck
    BY <1>4 DEF BeginRound
  <2>2. \A i \in SInstances : Registered(i)' <=> Registered(i)
    BY <2>1 DEF Registered
  <2>3. ASSUME NEW i \in SInstances
        PROVE  /\ Registered(i)' => i < sNext'
               /\ i >= sNext' => Untouched(i)'
               /\ sCalm'[i] => CheckIsRight(i)'
    BY <2>1, <2>2, <1>0 DEF RegistryInv, Untouched, CheckIsRight, Well
  <2> QED BY <2>1, <2>3 DEF RegistryInv
<1>5. ASSUME NEW k \in SInstances, StartCheck(k) \/ Probe(k) PROVE RegistryInv'
  <2>1. /\ UNCHANGED <<sList, sNext, sStatus, sFresh, sHealthy, sCalm>>
        /\ sCheck' \in [SInstances -> [stage : {"none", "todo", "probe", "UP", "DOWN"},
                                       read : {"UP", "DOWN"}]]
        /\ \A i \in SInstances \ {k} : sCheck'[i] = sCheck[i]
    <3>1. CASE StartCheck(k)
      BY <3>1 DEF StartCheck, RegistryInv
    <3>2. CASE Probe(k)
      BY <3>2 DEF Probe, RegistryInv
    <3> QED BY <1>5, <3>1, <3>2
  <2>2. \A i \in SInstances : Registered(i)' <=> Registered(i)
    BY <2>1 DEF Registered
  <2>3. sCheck[k] # NoCheck /\ (sCalm[k] => CheckIsRight(k)')
    <3>1. CASE StartCheck(k)
      BY <3>1 DEF StartCheck, RegistryInv, CheckIsRight, Well
    <3>2. CASE Probe(k)
      BY <3>2 DEF Probe, RegistryInv, CheckIsRight, Well
    <3> QED BY <3>1, <3>2, <1>5
  <2>4. ASSUME NEW i \in SInstances
        PROVE  /\ Registered(i)' => i < sNext'
               /\ i >= sNext' => Untouched(i)'
               /\ sCalm'[i] => CheckIsRight(i)'
    <3>1. CASE i = k
      BY <3>1, <2>1, <2>2, <2>3, <1>0 DEF RegistryInv, Untouched
    <3>2. CASE i # k
      BY <3>2, <2>1, <2>2, OthersKeep
    <3> QED BY <3>1, <3>2
  <2> QED BY <2>1, <2>4 DEF RegistryInv
<1>6. ASSUME NEW k \in SInstances, FinishCheck(k) PROVE RegistryInv'
  <2>1. /\ UNCHANGED <<sList, sNext, sFresh, sHealthy, sCalm>>
        /\ sStatus' \in [SInstances -> {"UP", "DOWN"}]
        /\ sCheck' = [sCheck EXCEPT ![k] = NoCheck]
        /\ sCheck[k].stage \in {"UP", "DOWN"}
        /\ sStatus'[k] = IF sCheck[k].stage = sCheck[k].read THEN sStatus[k] ELSE sCheck[k].stage
        /\ \A i \in SInstances \ {k} : sStatus'[i] = sStatus[i]
    BY <1>6 DEF FinishCheck, ChecksOut, RegistryInv
  <2>2. \A i \in SInstances : Registered(i)' <=> Registered(i)
    BY <2>1 DEF Registered
  <2>3. sCheck' \in [SInstances -> [stage : {"none", "todo", "probe", "UP", "DOWN"},
                                    read : {"UP", "DOWN"}]]
    BY <2>1 DEF RegistryInv
  <2>4. sCheck'[k] = NoCheck /\ \A i \in SInstances \ {k} : sCheck'[i] = sCheck[i]
    BY <2>1 DEF RegistryInv
  <2>5. sCheck[k] # NoCheck /\ (sCalm[k] => CheckIsRight(k)')
    BY <2>1, <2>4 DEF RegistryInv, CheckIsRight, Well
  <2>6. ASSUME NEW i \in SInstances
        PROVE  /\ Registered(i)' => i < sNext'
               /\ i >= sNext' => Untouched(i)'
               /\ sCalm'[i] => CheckIsRight(i)'
    <3>1. CASE i = k
      BY <3>1, <2>1, <2>2, <2>5, <1>0 DEF RegistryInv, Untouched
    <3>2. CASE i # k
      BY <3>2, <2>1, <2>2, <2>4, OthersKeep
    <3> QED BY <3>1, <3>2
  <2> QED BY <2>1, <2>3, <2>6 DEF RegistryInv
<1>7. CASE UNCHANGED registryVars
  BY <1>7 DEF registryVars, RegistryInv, Untouched, CheckIsRight, Well, Registered
<1>8. ASSUME NEW c \in SCallers, AskRegistry(c) \/ Pick(c) PROVE UNCHANGED registryVars
  BY <1>8 DEF AskRegistry, Pick
<1> QED BY <1>1, <1>2, <1>3, <1>4, <1>5, <1>6, <1>7, <1>8 DEF RegistryNext, serviceVars

\* One turn further every pick is one turn longer ago, and the one just made is the last.
LEMMA TurnsGoBack ==
    ASSUME NEW n \in Nat \ {0}, NEW i \in 0 .. n - 1, NEW k, k = IF i = n - 1 THEN 0 ELSE i + 1
    PROVE  /\ k \in 0 .. n - 1
           /\ Back(k, 1, n) = i
           /\ \A d \in 1 .. n - 1 : Back(k, d + 1, n) = Back(i, d, n)
           /\ \A d, e \in 1 .. n : Back(k, d, n) = Back(k, e, n) => d = e
           /\ \A d \in 1 .. n : Back(k, d, n) \in 0 .. n - 1
BY DEF Back

\* A remainder is what is left over, and nothing else is.
LEMMA Remainder ==
    ASSUME NEW n \in Nat \ {0}, NEW s \in Nat
    PROVE  /\ s % n \in 0 .. n - 1
           /\ \E q \in Nat : s = n * q + (s % n)
           /\ \A q \in Nat, r \in 0 .. n - 1 : s = n * q + r => s % n = r
<1>1. s % n \in 0 .. n - 1
  OBVIOUS
<1>2. s \div n \in Nat /\ s = n * (s \div n) + (s % n)
  OBVIOUS
<1>3. ASSUME NEW q \in Nat, NEW r \in 0 .. n - 1, s = n * q + r PROVE s % n = r
  <2>1. PICK p \in Nat, t \in 0 .. n - 1 : s = n * p + t /\ t = s % n
    BY <1>1, <1>2
  <2>2. n * q + r = n * p + t
    BY <1>3, <2>1
  <2>3. ASSUME q < p PROVE FALSE
    <3>1. PICK d \in Nat : p = q + d + 1
      BY <2>3
    <3>2. n * p = n * q + n * d + n /\ n * q \in Nat /\ n * d \in Nat
      BY <3>1
    <3> QED BY <2>2, <3>2
  <2>4. ASSUME p < q PROVE FALSE
    <3>1. PICK d \in Nat : q = p + d + 1
      BY <2>4
    <3>2. n * q = n * p + n * d + n /\ n * p \in Nat /\ n * d \in Nat
      BY <3>1
    <3> QED BY <2>2, <3>2
  <2>5. p = q
    BY <2>3, <2>4
  <2> QED BY <2>1, <2>2, <2>5
<1> QED BY <1>1, <1>2, <1>3

\* The next index of the list, counted with a remainder.
LEMMA NextTurn ==
    ASSUME NEW n \in Nat \ {0}, NEW s \in Nat
    PROVE  /\ s % n \in 0 .. n - 1
           /\ (s + 1) % n = IF s % n = n - 1 THEN 0 ELSE (s % n) + 1
           /\ s < n => s % n = s
<1>1. PICK q \in Nat, r \in 0 .. n - 1 : s = n * q + r /\ r = s % n
  BY Remainder
<1>2. (s + 1) % n = IF r = n - 1 THEN 0 ELSE r + 1
  <2>1. CASE r = n - 1
    <3>1. s + 1 = n * (q + 1) + 0 /\ q + 1 \in Nat /\ 0 \in 0 .. n - 1 /\ s + 1 \in Nat
      BY <1>1, <2>1
    <3>2. \A p \in Nat, t \in 0 .. n - 1 : s + 1 = n * p + t => (s + 1) % n = t
      BY <3>1, Remainder
    <3>3. (s + 1) % n = 0
      BY <3>1, <3>2
    <3> QED BY <2>1, <3>3
  <2>2. CASE r # n - 1
    <3>1. s + 1 = n * q + (r + 1) /\ r + 1 \in 0 .. n - 1 /\ s + 1 \in Nat
      BY <1>1, <2>2
    <3>2. \A p \in Nat, t \in 0 .. n - 1 : s + 1 = n * p + t => (s + 1) % n = t
      BY <3>1, Remainder
    <3>3. (s + 1) % n = r + 1
      BY <3>1, <3>2
    <3> QED BY <2>2, <3>3
  <2> QED BY <2>1, <2>2
<1>3. ASSUME s < n PROVE s % n = s
  <2>1. s = n * 0 + s /\ s \in 0 .. n - 1 /\ 0 \in Nat
    BY <1>3
  <2> QED BY <2>1, Remainder
<1> QED BY <1>1, <1>2, <1>3

\* Taking turns keeps the order of the picks.
LEMMA BalancerStep ==
    ASSUME RegistryInv, BalancerInv, [RegistryNext]_serviceVars PROVE BalancerInv'
<1>1. ASSUME NEW c \in SCallers, AskRegistry(c) PROVE BalancerInv'
  <2>1. /\ sSeen' = [sSeen EXCEPT ![c] = Discover]
        /\ UNCHANGED <<sIndex, sPicks>>
    BY <1>1 DEF AskRegistry
  <2>2. Discover \in Seq(SInstances) /\ IsInjective(Discover)
    BY SelectionKeeps DEF Discover, RegistryInv
  <2>3. sSeen' \in [SCallers -> Seq(SInstances)] /\ \A d \in SCallers : IsInjective(sSeen'[d])
    <3>1. sSeen' \in [SCallers -> Seq(SInstances)]
      BY <2>1, <2>2 DEF BalancerInv
    <3>2. ASSUME NEW d \in SCallers PROVE sSeen'[d] = Discover \/ sSeen'[d] = sSeen[d]
      BY <2>1 DEF BalancerInv
    <3>3. \A d \in SCallers : IsInjective(sSeen[d])
      BY DEF BalancerInv
    <3>4. ASSUME NEW d \in SCallers PROVE IsInjective(sSeen'[d])
      BY <2>2, <3>2, <3>3
    <3> QED BY <3>1, <3>4
  <2> QED BY <2>1, <2>3 DEF BalancerInv
<1>2. ASSUME NEW c \in SCallers, Pick(c) PROVE BalancerInv'
  <2>1. PICK list, i : list = sSeen[c] /\ i = sIndex % Len(list)
    OBVIOUS
  <2>2. /\ list \in Seq(SInstances) /\ list # << >> /\ IsInjective(list)
        /\ sSeen' = [sSeen EXCEPT ![c] = << >>]
    BY <1>2, <2>1 DEF Pick, BalancerInv
  <2>3. PICK n, k : n = Len(list) /\ k = sIndex'
    OBVIOUS
  <2>4. n \in Nat \ {0} /\ DOMAIN list = 1 .. n /\ \A j \in 1 .. n : list[j] \in SInstances
    BY <2>2, <2>3
  <2>5. /\ i \in 0 .. n - 1 /\ k = IF i = n - 1 THEN 0 ELSE i + 1
        /\ sIndex < n => i = sIndex
    <3>1. sIndex \in Nat /\ i = sIndex % n /\ k = (sIndex + 1) % n
      BY <1>2, <2>1, <2>3 DEF Pick, NextIndex, BalancerInv
    <3>2. n \in Nat \ {0}
      BY <2>4
    <3> QED BY <3>1, <3>2, NextTurn
  <2>6. /\ k \in 0 .. n - 1
        /\ Back(k, 1, n) = i
        /\ \A d \in 1 .. n - 1 : Back(k, d + 1, n) = Back(i, d, n)
    BY <2>4, <2>5, TurnsGoBack
  <2>7. PICK earlier : earlier = IF sPicks.list = list THEN sPicks.picks ELSE << >>
    OBVIOUS
  <2>8. /\ earlier \in Seq(SInstances) /\ Len(earlier) <= n
        /\ \A j \in 1 .. Len(earlier) : earlier[j] = list[Back(i, Len(earlier) - j + 1, n) + 1]
    <3>1. CASE sPicks.list = list
      <4>1. earlier = sPicks.picks /\ sPicks.picks \in Seq(SInstances) /\ i = sIndex
        BY <2>2, <2>3, <2>5, <2>7, <3>1 DEF BalancerInv
      <4> QED BY <2>3, <3>1, <4>1 DEF BalancerInv
    <3>2. CASE sPicks.list # list
      BY <2>4, <2>7, <3>2
    <3> QED BY <3>1, <3>2
  <2>9. PICK kept, picks : /\ kept = IF Len(earlier) = n THEN Tail(earlier) ELSE earlier
                           /\ picks = Append(kept, list[i + 1])
    OBVIOUS
  <2>10. sPicks' = [list |-> list, picks |-> picks]
    BY <1>2, <2>1, <2>3, <2>7, <2>9 DEF Pick
  <2>11. /\ kept \in Seq(SInstances) /\ Len(kept) < n
         /\ \A j \in 1 .. Len(kept) : kept[j] = list[Back(i, Len(kept) - j + 1, n) + 1]
    <3>1. CASE Len(earlier) # n
      BY <2>4, <2>8, <2>9, <3>1
    <3>2. CASE Len(earlier) = n
      <4>1. earlier # << >> /\ kept = Tail(earlier)
        BY <2>4, <2>8, <2>9, <3>2
      <4>2. /\ kept \in Seq(SInstances) /\ Len(kept) = n - 1
            /\ \A j \in 1 .. n - 1 : kept[j] = earlier[j + 1]
        BY <2>4, <2>8, <3>2, <4>1
      <4>3. ASSUME NEW j \in 1 .. n - 1 PROVE kept[j] = list[Back(i, Len(kept) - j + 1, n) + 1]
        <5>1. j + 1 \in 1 .. Len(earlier) /\ Len(earlier) - (j + 1) + 1 = Len(kept) - j + 1
          BY <2>4, <3>2, <4>2
        <5>2. earlier[j + 1] = list[Back(i, Len(earlier) - (j + 1) + 1, n) + 1]
          BY <2>8, <5>1
        <5> QED BY <4>2, <5>1, <5>2
      <4> QED BY <2>4, <4>2, <4>3
    <3> QED BY <3>1, <3>2
  <2>12. /\ picks \in Seq(SInstances) /\ Len(picks) = Len(kept) + 1 /\ Len(kept) \in Nat
         /\ picks[Len(kept) + 1] = list[i + 1]
         /\ \A j \in 1 .. Len(kept) : picks[j] = kept[j]
    BY <2>4, <2>5, <2>9, <2>11
  <2>13. ASSUME NEW j \in 1 .. Len(picks) PROVE picks[j] = list[Back(k, Len(picks) - j + 1, n) + 1]
    <3>1. CASE j = Len(picks)
      <4>1. Len(picks) - j + 1 = 1
        BY <2>12, <3>1
      <4> QED BY <2>6, <2>12, <3>1, <4>1
    <3>2. CASE j # Len(picks)
      <4>1. PICK d : d = Len(kept) - j + 1
        OBVIOUS
      <4>2. j \in 1 .. Len(kept) /\ d \in 1 .. n - 1 /\ Len(picks) - j + 1 = d + 1
        BY <2>4, <2>11, <2>12, <3>2, <4>1
      <4>3. picks[j] = list[Back(i, d, n) + 1] /\ Back(k, d + 1, n) = Back(i, d, n)
        BY <2>6, <2>11, <2>12, <4>1, <4>2
      <4> QED BY <4>2, <4>3
    <3> QED BY <3>1, <3>2
  <2>14. sSeen' \in [SCallers -> Seq(SInstances)] /\ \A d \in SCallers : IsInjective(sSeen'[d])
    <3>1. sSeen' \in [SCallers -> Seq(SInstances)]
      BY <2>2 DEF BalancerInv
    <3>2. \A d \in SCallers : sSeen'[d] = << >> \/ sSeen'[d] = sSeen[d]
      BY <2>2 DEF BalancerInv
    <3>3. IsInjective(<< >>)
      BY DEF IsInjective
    <3>4. \A d \in SCallers : IsInjective(sSeen[d])
      BY DEF BalancerInv
    <3> QED BY <3>1, <3>2, <3>3, <3>4
  <2>15. sIndex' \in Nat /\ sIndex' < n /\ Len(picks) > 0 /\ Len(picks) <= n
    BY <2>3, <2>4, <2>6, <2>11, <2>12
  <2>16. /\ sPicks'.list = list /\ sPicks'.picks = picks
         /\ sPicks' \in [list : Seq(SInstances), picks : Seq(SInstances)]
    BY <2>2, <2>10, <2>12
  <2> QED BY <2>2, <2>3, <2>13, <2>14, <2>15, <2>16 DEF BalancerInv
<1>3. CASE UNCHANGED balancerVars
  BY <1>3 DEF balancerVars, BalancerInv
<1>4. CASE UNCHANGED serviceVars
  BY <1>3, <1>4 DEF serviceVars
<1>5. CASE Register \/ BeginRound
  BY <1>3, <1>5 DEF Register, BeginRound
<1>6. ASSUME NEW i \in SInstances,
             \/ Deregister(i) \/ Heartbeat(i) \/ HeartbeatLapses(i) \/ HealthChanges(i)
             \/ StartCheck(i) \/ Probe(i) \/ FinishCheck(i)
      PROVE  BalancerInv'
  BY <1>3, <1>6 DEF Deregister, Heartbeat, HeartbeatLapses, HealthChanges, StartCheck, Probe, FinishCheck
<1> QED BY <1>1, <1>2, <1>4, <1>5, <1>6 DEF RegistryNext

LEMMA RegistryInvHolds == RegistrySpec => [](RegistryInv /\ BalancerInv)
<1>1. RegistryInit => RegistryInv /\ BalancerInv
  <2> SUFFICES ASSUME RegistryInit PROVE RegistryInv /\ BalancerInv
    OBVIOUS
  <2>1. IsInjective(<< >>) /\ Range(<< >>) = {} /\ << >> \in Seq(SInstances)
    BY DEF IsInjective, Range
  <2>2. RegistryInv
    <3>1. \A i \in SInstances : Untouched(i) /\ ~ Registered(i) /\ ~ sCalm[i]
      BY <2>1 DEF RegistryInit, Untouched, Well, Registered, NoCheck
    <3> QED BY <2>1, <3>1 DEF RegistryInit, RegistryInv, NoCheck
  <2>3. BalancerInv
    BY <2>1 DEF RegistryInit, BalancerInv
  <2> QED BY <2>2, <2>3
<1>2. RegistryInv /\ BalancerInv /\ [RegistryNext]_serviceVars => (RegistryInv /\ BalancerInv)'
  BY RegistryStep, BalancerStep
<1> QED BY <1>1, <1>2, PTL DEF RegistrySpec

\* For any number of instances that come, go, beat and fail at any time, and checks of
\* the same round at any stage: a round of health checks leaves every instance nothing
\* happened to with the right status (_check_single_instance).
THEOREM RoundsSetStatus == RegistrySpec => []RoundSetsStatus
<1>1. RegistryInv /\ BalancerInv => RoundSetsStatus
  BY DEF RegistryInv, CheckIsRight, RoundSetsStatus
<1> QED BY <1>1, RegistryInvHolds, PTL

\* Callers that find one list are given its instances in turn, however many threads
\* ask at once and whatever other lists were served before (get_instance).
THEOREM TurnsAreTaken == RegistrySpec => []RoundRobin
<1>1. RegistryInv /\ BalancerInv => RoundRobin
  <2> SUFFICES ASSUME BalancerInv PROVE IsInjective(sPicks.picks)
    BY DEF RoundRobin
  <2>1. PICK list, picks, n, m : /\ list = sPicks.list /\ picks = sPicks.picks
                                 /\ n = Len(list) /\ m = Len(picks)
    OBVIOUS
  <2>2. /\ list \in Seq(SInstances) /\ picks \in Seq(SInstances) /\ m <= n /\ IsInjective(list)
        /\ DOMAIN list = 1 .. n /\ DOMAIN picks = 1 .. m /\ n \in Nat /\ m \in Nat
        /\ \A j \in 1 .. m : picks[j] = list[Back(sIndex, m - j + 1, n) + 1]
        /\ m > 0 => sIndex \in 0 .. n - 1
    BY <2>1 DEF BalancerInv
  <2> SUFFICES ASSUME NEW i \in 1 .. m, NEW j \in 1 .. m, picks[i] = picks[j] PROVE i = j
    BY <2>1, <2>2 DEF IsInjective
  <2>3. PICK d, e : d = m - i + 1 /\ e = m - j + 1
    OBVIOUS
  <2>4. d \in 1 .. n /\ e \in 1 .. n /\ sIndex \in 0 .. n - 1 /\ n \in Nat \ {0}
    BY <2>2, <2>3
  <2>5. /\ Back(sIndex, d, n) \in 0 .. n - 1 /\ Back(sIndex, e, n) \in 0 .. n - 1
        /\ Back(sIndex, d, n) = Back(sIndex, e, n) => d = e
    BY <2>4 DEF Back
  <2>6. list[Back(sIndex, d, n) + 1] = list[Back(sIndex, e, n) + 1]
    BY <2>2, <2>3
  <2>7. Back(sIndex, d, n) = Back(sIndex, e, n)
    BY <2>2, <2>5, <2>6 DEF IsInjective
  <2> QED BY <2>2, <2>3, <2>5, <2>7
<1> QED BY <1>1, RegistryInvHolds, PTL

-----------------------------------------------------------------------------
(* Logical clocks.                                                          *)

\* What has happened at n so far, causes included: the past of its next event.
Known(n) == Upto(EventsAt(n))

ClockEvent == [node : LNodes, pt : LTimes, past : SUBSET Nat, lamport : Nat,
               vector : [LNodes -> Nat], hybrid : Nat \X Nat]

ClocksTyped ==
    /\ lTime \in [LNodes -> Nat]
    /\ lVector \in [LNodes -> [LNodes -> Nat]]
    /\ lHybrid \in [LNodes -> Nat \X Nat]
    /\ lEvents \in Seq(ClockEvent)

\* Causes come earlier, the causes of a cause are causes, and so is whatever
\* has happened earlier at the same node.
PastsAreClosed ==
    \A j \in 1 .. Len(lEvents) :
        /\ \A i \in lEvents[j].past : i \in 1 .. j - 1 /\ lEvents[i].past \subseteq lEvents[j].past
        /\ \A i \in 1 .. j - 1 : lEvents[i].node = lEvents[j].node => i \in lEvents[j].past

\* The vector v tells the events of S from all the others.
VectorTells(S, v) ==
    \A i \in 1 .. Len(lEvents) :
        IF i \in S THEN \A k \in LNodes : lEvents[i].vector[k] <= v[k]
        ELSE v[lEvents[i].node] < lEvents[i].vector[lEvents[i].node]

HybridAtMost(s, t) == s = t \/ HybridLess(s, t)

\* The hybrid timestamp h is no less than those of S, its physical part is the
\* latest time read in S, and its counter counts events of S.
HybridCovers(S, h) ==
    /\ \A i \in S : HybridAtMost(lEvents[i].hybrid, h) /\ lEvents[i].pt <= h[1]
    /\ S = {} => h = <<0, 0>>
    /\ S # {} => (\E k \in S : h[1] = lEvents[k].pt) /\ h[2] < Cardinality(S)

Stamped(S, t, v, h) ==
    /\ \A i \in S : lEvents[i].lamport <= t
    /\ VectorTells(S, v)
    /\ HybridCovers(S, h)

\* The clocks of a node fit what it knows, a timestamp fits its event's causes
\* and is greater than theirs, and nobody counts more events of a node than it
\* has had.
ClocksFit ==
    /\ \A n \in LNodes : Stamped(Known(n), lTime[n], lVector[n], lHybrid[n])
    /\ \A j \in 1 .. Len(lEvents) :
          /\ Stamped(lEvents[j].past \cup {j}, lEvents[j].lamport, lEvents[j].vector,
                     lEvents[j].hybrid)
          /\ \A i \in lEvents[j].past : /\ lEvents[i].lamport < lEvents[j].lamport
                                        /\ HybridLess(lEvents[i].hybrid, lEvents[j].hybrid)
          /\ \A n \in LNodes : lEvents[j].vector[n] <= lVector[n][n]
    /\ \A m, n \in LNodes : lVector[m][n] <= lVector[n][n]

LInv == ClocksTyped /\ PastsAreClosed /\ ClocksFit

\* What a node knows are events that have happened, their causes and all its own.
LEMMA KnownIsClosed ==
    ASSUME ClocksTyped, PastsAreClosed, NEW n \in LNodes
    PROVE  /\ Known(n) \subseteq 1 .. Len(lEvents)
           /\ \A i \in Known(n) : lEvents[i].past \subseteq Known(n)
           /\ EventsAt(n) \subseteq Known(n)
<1>0. Len(lEvents) \in Nat
  BY DEF ClocksTyped
<1>1. ASSUME NEW i \in Known(n) PROVE i \in 1 .. Len(lEvents) /\ lEvents[i].past \subseteq Known(n)
  <2>1. CASE i \in EventsAt(n)
    BY <2>1 DEF Known, Upto, EventsAt
  <2>2. ASSUME NEW j \in EventsAt(n), i \in lEvents[j].past
        PROVE  i \in 1 .. Len(lEvents) /\ lEvents[i].past \subseteq Known(n)
    <3>1. j \in 1 .. Len(lEvents)
      BY DEF EventsAt
    <3>2. i \in 1 .. j - 1 /\ lEvents[i].past \subseteq lEvents[j].past
      BY <3>1, <2>2 DEF PastsAreClosed
    <3>3. lEvents[j].past \subseteq Known(n)
      BY DEF Known, Upto
    <3> QED BY <1>0, <3>1, <3>2, <3>3
  <2> QED BY <2>1, <2>2 DEF Known, Upto
<1> QED BY <1>1 DEF Known, Upto


\* A timestamp later than another, or than what is at most the other.
LEMMA HybridOrder ==
    ASSUME NEW a \in Nat \X Nat, NEW b \in Nat \X Nat, NEW c \in Nat \X Nat
    PROVE  /\ HybridAtMost(a, b) /\ HybridLess(b, c) => HybridLess(a, c) /\ a[1] <= c[1]
           /\ HybridLess(a, b) => HybridAtMost(a, b) /\ ~ HybridAtMost(b, a)
           /\ HybridAtMost(a, b) => a[1] <= b[1]
<1> QED BY DEF HybridAtMost, HybridLess

\* What an event that n records must satisfy for all clocks to fit again: its past
\* is closed and has all n knows, its timestamp is greater than those of its past.
Recordable(len, n, pt, S, t, v, h) ==
    /\ S \in SUBSET (1 .. len) /\ len \in Nat /\ len = Len(lEvents)
    /\ t \in Nat /\ v \in [LNodes -> Nat] /\ h \in Nat \X Nat
    /\ Known(n) \subseteq S
    /\ \A i \in S : lEvents[i].past \subseteq S
    /\ \A i \in S : lEvents[i].lamport < t
    /\ VectorTells(S, v)
    /\ v[n] = lVector[n][n] + 1
    /\ \A k \in LNodes \ {n} : v[k] <= lVector[k][k]
    /\ \A i \in S : HybridLess(lEvents[i].hybrid, h) /\ lEvents[i].pt <= h[1]
    /\ pt <= h[1]
    /\ h[1] = pt \/ \E k \in S : h[1] = lEvents[k].pt
    /\ h[2] <= Cardinality(S)

LEMMA RecordFits ==
    ASSUME LInv, NEW len, NEW n \in LNodes, NEW pt \in LTimes, NEW S, NEW t, NEW v, NEW h,
           Record(n, pt, S, t, v, h), Recordable(len, n, pt, S, t, v, h)
    PROVE  LInv'
<1>a. /\ S \in SUBSET (1 .. len) /\ len \in Nat /\ len = Len(lEvents)
      /\ t \in Nat /\ v \in [LNodes -> Nat] /\ h \in Nat \X Nat
      /\ Known(n) \subseteq S
      /\ \A i \in S : lEvents[i].past \subseteq S
      /\ \A i \in S : lEvents[i].lamport < t
      /\ VectorTells(S, v)
      /\ v[n] = lVector[n][n] + 1
      /\ \A k \in LNodes \ {n} : v[k] <= lVector[k][k]
      /\ \A i \in S : HybridLess(lEvents[i].hybrid, h) /\ lEvents[i].pt <= h[1]
      /\ pt <= h[1]
      /\ h[1] = pt \/ \E k \in S : h[1] = lEvents[k].pt
      /\ h[2] <= Cardinality(S)
  BY DEF Recordable
<1> USE <1>a
<1> DEFINE new == [node |-> n, pt |-> pt, past |-> S, lamport |-> t, vector |-> v, hybrid |-> h]
<1>1. len \in Nat /\ new \in ClockEvent /\ lEvents \in Seq(ClockEvent)
  <2>1. S \in SUBSET Nat
    BY DEF LInv, ClocksTyped
  <2> QED BY <2>1 DEF LInv, ClocksTyped, ClockEvent
<1>2. /\ lEvents' = Append(lEvents, new)
      /\ lEvents' \in Seq(ClockEvent) /\ Len(lEvents') = len + 1
      /\ \A i \in 1 .. len : lEvents'[i] = lEvents[i]
      /\ lEvents'[len + 1] = new
  BY <1>1 DEF Record
<1>3. /\ lTime' = [lTime EXCEPT ![n] = t]
      /\ lVector' = [lVector EXCEPT ![n] = v]
      /\ lHybrid' = [lHybrid EXCEPT ![n] = h]
  BY DEF Record
<1>typ. ClocksTyped
  BY DEF LInv
<1>clo. PastsAreClosed
  BY DEF LInv
<1>fit. ClocksFit
  BY DEF LInv
<1>ev. ASSUME NEW i \in 1 .. len
       PROVE  /\ lEvents[i] \in ClockEvent
              /\ lEvents[i].node \in LNodes /\ lEvents[i].vector \in [LNodes -> Nat]
              /\ lEvents[i].lamport \in Nat /\ lEvents[i].hybrid \in Nat \X Nat
              /\ lEvents[i].past \subseteq 1 .. i - 1
  <2>1. lEvents[i] \in ClockEvent
    BY <1>1
  <2>2. lEvents[i].past \subseteq 1 .. i - 1
    BY <1>clo DEF PastsAreClosed
  <2> QED BY <2>1, <2>2 DEF ClockEvent
<1>fin. /\ IsFiniteSet(S) /\ Cardinality(S) \in Nat
        /\ IsFiniteSet(S \cup {len + 1})
        /\ Cardinality(S \cup {len + 1}) = Cardinality(S) + 1
  <2>1. IsFiniteSet(1 .. len)
    <3>1. 1 \in Int /\ len \in Int
      BY <1>1
    <3> QED BY <3>1, FS_Interval
  <2>2. IsFiniteSet(S)
    BY <2>1, FS_Subset
  <2>3. len + 1 \notin S
    BY <1>1
  <2> QED BY <2>2, <2>3, FS_AddElement, FS_CardinalityType
<1>4. ClocksTyped'
  BY <1>2, <1>3, <1>typ DEF ClocksTyped
<1>5. PastsAreClosed'
  <2>1. ASSUME NEW j \in 1 .. len + 1, NEW i \in lEvents'[j].past
        PROVE  i \in 1 .. j - 1 /\ lEvents'[i].past \subseteq lEvents'[j].past
    <3>1. CASE j \in 1 .. len
      <4>1. i \in 1 .. j - 1 /\ lEvents[i].past \subseteq lEvents[j].past
        BY <3>1, <1>2, <1>clo, <2>1 DEF PastsAreClosed
      <4> QED BY <4>1, <3>1, <1>1, <1>2
    <3>2. CASE j = len + 1
      <4>1. i \in S
        BY <3>2, <1>2, <2>1
      <4> QED BY <4>1, <3>2, <1>1, <1>2
    <3>3. j \in 1 .. len \/ j = len + 1
      OBVIOUS
    <3> QED BY <3>1, <3>2, <3>3
  <2>2. ASSUME NEW j \in 1 .. len + 1, NEW i \in 1 .. j - 1, lEvents'[i].node = lEvents'[j].node
        PROVE  i \in lEvents'[j].past
    <3>1. CASE j \in 1 .. len
      BY <3>1, <1>1, <1>2, <1>clo, <2>2 DEF PastsAreClosed
    <3>2. CASE j = len + 1
      <4>1. i \in 1 .. len /\ lEvents[i].node = n
        BY <3>2, <1>1, <1>2, <2>2
      <4>2. i \in Known(n)
        BY <4>1 DEF Known, Upto, EventsAt
      <4> QED BY <4>2, <3>2, <1>2
    <3>3. j \in 1 .. len \/ j = len + 1
      OBVIOUS
    <3> QED BY <3>1, <3>2, <3>3
  <2> QED BY <2>1, <2>2, <1>2 DEF PastsAreClosed
\* What the nodes know now.
<1>6. ASSUME NEW m \in LNodes PROVE Known(m)' = IF m = n THEN S \cup {len + 1} ELSE Known(m)
  <2>1. EventsAt(m)' = IF m = n THEN EventsAt(m) \cup {len + 1} ELSE EventsAt(m)
    BY <1>1, <1>2 DEF EventsAt
  <2>2. \A i \in EventsAt(m) : i \in 1 .. len /\ lEvents'[i].past = lEvents[i].past
    BY <1>2 DEF EventsAt
  <2>3. lEvents'[len + 1].past = S
    BY <1>2
  <2>4. EventsAt(m) \cup UNION {lEvents[i].past : i \in EventsAt(m)} = Known(m)
    BY DEF Known, Upto
  <2>5. Known(m)' = EventsAt(m)' \cup UNION {lEvents'[i].past : i \in EventsAt(m)'}
    BY DEF Known, Upto
  <2>6. CASE m # n
    <3>1. {lEvents'[i].past : i \in EventsAt(m)'} = {lEvents[i].past : i \in EventsAt(m)}
      BY <2>1, <2>2, <2>6
    <3> QED BY <3>1, <2>1, <2>4, <2>5, <2>6
  <2>7. CASE m = n
    <3>1. {lEvents'[i].past : i \in EventsAt(m)'} = {lEvents[i].past : i \in EventsAt(m)} \cup {S}
      BY <2>1, <2>2, <2>3, <2>7
    <3>2. UNION {lEvents'[i].past : i \in EventsAt(m)'}
            = (UNION {lEvents[i].past : i \in EventsAt(m)}) \cup S
      BY <3>1
    <3>3. Known(m)' = Known(m) \cup {len + 1} \cup S
      BY <3>2, <2>1, <2>4, <2>5, <2>7
    <3> QED BY <3>3, <2>7
  <2> QED BY <2>6, <2>7
\* What fitted the clocks of others, or an earlier event, still does.
<1>7. ASSUME NEW T \in SUBSET (1 .. len), NEW tt, NEW vv \in [LNodes -> Nat], NEW hh,
             Stamped(T, tt, vv, hh), vv[n] <= lVector[n][n]
      PROVE  Stamped(T, tt, vv, hh)'
  <2>1. \A i \in T : lEvents'[i] = lEvents[i]
    BY <1>2
  <2>2. VectorTells(T, vv)'
    <3> SUFFICES ASSUME NEW i \in 1 .. len + 1
                 PROVE  IF i \in T THEN \A k \in LNodes : lEvents'[i].vector[k] <= vv[k]
                        ELSE vv[lEvents'[i].node] < lEvents'[i].vector[lEvents'[i].node]
      BY <1>2 DEF VectorTells
    <3>1. CASE i \in 1 .. len
      BY <3>1, <1>2, <1>7 DEF Stamped, VectorTells
    <3>2. CASE i = len + 1
      <4>1. i \notin T /\ lEvents'[i].node = n /\ lEvents'[i].vector = v
        BY <3>2, <1>1, <1>2
      <4>2. lVector[n][n] \in Nat
        BY <1>typ DEF ClocksTyped
      <4> QED BY <4>1, <4>2, <1>7
    <3>3. i \in 1 .. len \/ i = len + 1
      OBVIOUS
    <3> QED BY <3>1, <3>2, <3>3
  <2>3. HybridCovers(T, hh)'
    BY <2>1, <1>7 DEF Stamped, HybridCovers
  <2> QED BY <2>1, <2>2, <2>3, <1>7 DEF Stamped
\* The new event and the clocks that stamped it fit.
<1>8. Stamped(S \cup {len + 1}, t, v, h)'
  <2>1. \A i \in S : lEvents'[i] = lEvents[i]
    BY <1>2
  <2>2. \A i \in S \cup {len + 1} : lEvents'[i].lamport <= t
    <3>1. ASSUME NEW i \in S PROVE lEvents'[i].lamport <= t
      <4>1. i \in 1 .. len
        OBVIOUS
      <4>2. lEvents[i].lamport \in Nat /\ lEvents'[i] = lEvents[i] /\ lEvents[i].lamport < t
        BY <4>1, <2>1, <1>ev
      <4> QED BY <4>2
    <3> QED BY <3>1, <1>2
  <2>3. VectorTells(S \cup {len + 1}, v)'
    <3> SUFFICES ASSUME NEW i \in 1 .. len + 1
                 PROVE  IF i \in S \cup {len + 1} THEN \A k \in LNodes : lEvents'[i].vector[k] <= v[k]
                        ELSE v[lEvents'[i].node] < lEvents'[i].vector[lEvents'[i].node]
      BY <1>2 DEF VectorTells
    <3>1. CASE i \in 1 .. len
      BY <3>1, <1>1, <1>2 DEF VectorTells
    <3>2. CASE i = len + 1
      BY <3>2, <1>2
    <3>3. i \in 1 .. len \/ i = len + 1
      OBVIOUS
    <3> QED BY <3>1, <3>2, <3>3
  <2>4. HybridCovers(S \cup {len + 1}, h)'
    <3>1. ASSUME NEW i \in S \cup {len + 1}
          PROVE  HybridAtMost(lEvents'[i].hybrid, h) /\ lEvents'[i].pt <= h[1]
      BY <2>1, <1>2 DEF HybridAtMost
    <3>2. \E k \in S \cup {len + 1} : h[1] = lEvents'[k].pt
      BY <2>1, <1>2
    <3>3. h[2] < Cardinality(S \cup {len + 1})
      BY <1>fin
    <3> QED BY <3>1, <3>2, <3>3 DEF HybridCovers, HybridAtMost
  <2> QED BY <2>2, <2>3, <2>4 DEF Stamped
<1>9. ClocksFit'
  <2>0. \A m, k \in LNodes : lVector[m][k] \in Nat
    BY <1>typ DEF ClocksTyped
  <2>1. ASSUME NEW m \in LNodes
        PROVE  Stamped(Known(m), lTime[m], lVector[m], lHybrid[m])'
    <3>1. PICK K, tt, vv, hh : /\ K = Known(m)' /\ tt = lTime'[m]
                               /\ vv = lVector'[m] /\ hh = lHybrid'[m]
      OBVIOUS
    <3>2. Stamped(K, tt, vv, hh)'
      <4>1. CASE m = n
        <5>1. K = S \cup {len + 1} /\ tt = t /\ vv = v /\ hh = h
          BY <4>1, <3>1, <1>3, <1>6, <1>typ DEF ClocksTyped
        <5> QED BY <5>1, <1>8
      <4>2. CASE m # n
        <5>1. K = Known(m) /\ tt = lTime[m] /\ vv = lVector[m] /\ hh = lHybrid[m]
          BY <4>2, <3>1, <1>3, <1>6, <1>typ DEF ClocksTyped
        <5>2. /\ Known(m) \subseteq 1 .. len
              /\ vv \in [LNodes -> Nat] /\ vv[n] <= lVector[n][n]
          BY <5>1, <1>typ, <1>clo, <1>fit, KnownIsClosed DEF ClocksTyped, ClocksFit
        <5>3. Stamped(K, tt, vv, hh)
          BY <5>1, <1>fit DEF ClocksFit
        <5> QED BY <5>1, <5>2, <5>3, <1>7
      <4> QED BY <4>1, <4>2
    <3> QED BY <3>1, <3>2 DEF Stamped, VectorTells, HybridCovers
  <2>2. ASSUME NEW j \in 1 .. len + 1
        PROVE  /\ Stamped(lEvents[j].past \cup {j}, lEvents[j].lamport, lEvents[j].vector,
                          lEvents[j].hybrid)'
               /\ \A i \in lEvents'[j].past : /\ lEvents'[i].lamport < lEvents'[j].lamport
                                              /\ HybridLess(lEvents'[i].hybrid, lEvents'[j].hybrid)
               /\ \A m \in LNodes : lEvents'[j].vector[m] <= lVector'[m][m]
    <3>1. PICK K, tt, vv, hh : /\ K = lEvents'[j].past \cup {j} /\ tt = lEvents'[j].lamport
                               /\ vv = lEvents'[j].vector /\ hh = lEvents'[j].hybrid
      OBVIOUS
    <3>2. CASE j \in 1 .. len
      <4>1. /\ K = lEvents[j].past \cup {j} /\ tt = lEvents[j].lamport
            /\ vv = lEvents[j].vector /\ hh = lEvents[j].hybrid
            /\ lEvents'[j] = lEvents[j]
        BY <3>1, <3>2, <1>2
      <4>2. K \subseteq 1 .. len /\ vv \in [LNodes -> Nat]
        BY <4>1, <3>2, <1>1, <1>ev, SMTT(15)
      <4>3. Stamped(K, tt, vv, hh)
        BY <4>1, <3>2, <1>fit DEF ClocksFit
      <4>4. \A m \in LNodes : vv[m] <= lVector[m][m]
        BY <4>1, <3>2, <1>fit DEF ClocksFit
      <4>5. Stamped(K, tt, vv, hh)'
        BY <4>2, <4>3, <4>4, <1>7
      <4>6. Stamped(lEvents[j].past \cup {j}, lEvents[j].lamport, lEvents[j].vector,
                    lEvents[j].hybrid)'
        BY <4>5, <3>1 DEF Stamped, VectorTells, HybridCovers
      <4>7. \A i \in lEvents[j].past : i \in 1 .. len
        BY <3>2, <1>ev, <1>1
      <4>8. \A i \in lEvents'[j].past : /\ lEvents'[i].lamport < lEvents'[j].lamport
                                        /\ HybridLess(lEvents'[i].hybrid, lEvents'[j].hybrid)
        BY <4>1, <4>7, <3>2, <1>2, <1>fit DEF ClocksFit
      <4>9. ASSUME NEW m \in LNodes PROVE vv[m] <= lVector'[m][m]
        <5>1. CASE m = n
          <6>1. lVector'[m][m] = lVector[m][m] + 1
            BY <5>1, <1>3, <1>typ DEF ClocksTyped
          <6> QED BY <6>1, <4>2, <4>4, <2>0
        <5>2. CASE m # n
          BY <5>2, <1>3, <1>typ, <4>4 DEF ClocksTyped
        <5> QED BY <5>1, <5>2
      <4> QED BY <4>1, <4>6, <4>8, <4>9
    <3>3. CASE j = len + 1
      <4>1. K = S \cup {len + 1} /\ tt = t /\ vv = v /\ hh = h /\ lEvents'[j] = new
        BY <3>1, <3>3, <1>2
      <4>2. Stamped(K, tt, vv, hh)'
        BY <4>1, <1>8
      <4>3. Stamped(lEvents[j].past \cup {j}, lEvents[j].lamport, lEvents[j].vector,
                    lEvents[j].hybrid)'
        BY <4>2, <3>1 DEF Stamped, VectorTells, HybridCovers
      <4>4. \A i \in S : lEvents'[i].lamport < t /\ HybridLess(lEvents'[i].hybrid, h)
        BY <1>2
      <4>5. ASSUME NEW m \in LNodes PROVE v[m] <= lVector'[m][m]
        <5>1. CASE m = n
          BY <5>1, <1>3, <1>typ DEF ClocksTyped
        <5>2. CASE m # n
          BY <5>2, <1>3, <1>typ DEF ClocksTyped
        <5> QED BY <5>1, <5>2
      <4> QED BY <4>1, <4>3, <4>4, <4>5
    <3> QED BY <3>2, <3>3, <1>1
  <2>3. ASSUME NEW m \in LNodes, NEW k \in LNodes PROVE lVector'[m][k] <= lVector'[k][k]
    <3>1. lVector'[k][k] = IF k = n THEN lVector[n][n] + 1 ELSE lVector[k][k]
      BY <1>3, <1>typ DEF ClocksTyped
    <3>2. lVector'[m][k] = IF m = n THEN v[k] ELSE lVector[m][k]
      BY <1>3, <1>typ DEF ClocksTyped
    <3>3. lVector[m][k] <= lVector[k][k]
      BY <1>fit DEF ClocksFit
    <3> QED BY <3>1, <3>2, <3>3, <2>0
  <2> QED BY <2>1, <2>2, <2>3, <1>2 DEF ClocksFit
<1> QED BY <1>4, <1>5, <1>9 DEF LInv

LEMMA LaterIsOne ==
    \A a, b \in Nat : /\ Later(a, b) \in Nat /\ a <= Later(a, b) /\ b <= Later(a, b)
                      /\ Later(a, b) = a \/ Later(a, b) = b
                      /\ b <= a => Later(a, b) = a
BY DEF Later

\* tick, send: nothing but what the node knows has caused the event.
LEMMA LocalFits ==
    ASSUME LInv, NEW n \in LNodes, NEW pt \in LTimes, LocalOrSend(n, pt) PROVE LInv'
<1>1. PICK S, len, h, k : /\ S = Known(n) /\ len = Len(lEvents) /\ h = HybridNow(lHybrid[n], pt)
                          /\ k = lHybrid[n]
  OBVIOUS
<1>2. PICK t, v : t = lTime[n] + 1 /\ v = [lVector[n] EXCEPT ![n] = @ + 1]
  OBVIOUS
<1>3. /\ S \in SUBSET (1 .. len) /\ len \in Nat
      /\ \A i \in S : lEvents[i].past \subseteq S
  BY <1>1, KnownIsClosed DEF LInv, ClocksTyped
<1>4. Record(n, pt, S, t, v, h)
  BY <1>1, <1>2 DEF LocalOrSend, Known
<1>5. /\ lTime[n] \in Nat /\ lVector[n] \in [LNodes -> Nat] /\ k \in Nat \X Nat
      /\ pt \in Nat \ {0}
  BY <1>1, LTimesAssumption DEF LInv, ClocksTyped
<1>6. t \in Nat /\ v \in [LNodes -> Nat] /\ v[n] = lVector[n][n] + 1
  BY <1>2, <1>5
<1>7. Stamped(S, lTime[n], lVector[n], k)
  BY <1>1 DEF LInv, ClocksFit
<1>ev. ASSUME NEW i \in 1 .. len
       PROVE  /\ lEvents[i].node \in LNodes /\ lEvents[i].vector \in [LNodes -> Nat]
              /\ lEvents[i].lamport \in Nat /\ lEvents[i].hybrid \in Nat \X Nat
              /\ lEvents[i].pt \in Nat
  <2>1. lEvents[i] \in ClockEvent
    BY <1>1 DEF LInv, ClocksTyped
  <2> QED BY <2>1, LTimesAssumption DEF ClockEvent
<1>8. ASSUME NEW i \in S PROVE lEvents[i].lamport < t
  BY <1>7, <1>2, <1>3, <1>5, <1>ev DEF Stamped
<1>9. VectorTells(S, v)
  <2> SUFFICES ASSUME NEW i \in 1 .. len
               PROVE  IF i \in S THEN \A x \in LNodes : lEvents[i].vector[x] <= v[x]
                      ELSE v[lEvents[i].node] < lEvents[i].vector[lEvents[i].node]
    BY <1>1 DEF VectorTells
  <2>1. IF i \in S THEN \A x \in LNodes : lEvents[i].vector[x] <= lVector[n][x]
        ELSE lVector[n][lEvents[i].node] < lEvents[i].vector[lEvents[i].node]
    BY <1>1, <1>7 DEF Stamped, VectorTells
  <2>2. ASSUME i \notin S PROVE lEvents[i].node # n
    BY <1>1, <2>2, KnownIsClosed DEF LInv, EventsAt
  <2>3. \A x \in LNodes : v[x] = IF x = n THEN lVector[n][n] + 1 ELSE lVector[n][x]
    BY <1>2, <1>5
  <2> QED BY <2>1, <2>2, <2>3, <1>5, <1>ev
<1>10. \A x \in LNodes \ {n} : v[x] <= lVector[x][x]
  BY <1>2, <1>5 DEF LInv, ClocksFit
<1>11. h \in Nat \X Nat /\ HybridLess(k, h) /\ pt <= h[1] /\ k[1] <= h[1]
  BY <1>1, <1>5 DEF HybridNow, HybridLess
<1>12. ASSUME NEW i \in S PROVE HybridLess(lEvents[i].hybrid, h) /\ lEvents[i].pt <= h[1]
  <2>1. HybridAtMost(lEvents[i].hybrid, k) /\ lEvents[i].pt <= k[1]
    BY <1>7 DEF Stamped, HybridCovers
  <2> QED BY <2>1, <1>3, <1>5, <1>11, <1>ev, HybridOrder
<1>13. S # {} \/ k[1] < pt
  BY <1>5, <1>7 DEF Stamped, HybridCovers
<1>14. h[1] = pt \/ \E x \in S : h[1] = lEvents[x].pt
  BY <1>1, <1>5, <1>7, <1>13 DEF Stamped, HybridCovers, HybridNow
<1>15. h[2] <= Cardinality(S)
  <2>1. IsFiniteSet(S)
    <3>1. 1 \in Int /\ len \in Int
      BY <1>3
    <3> QED BY <3>1, <1>3, FS_Interval, FS_Subset
  <2>2. Cardinality(S) \in Nat
    BY <2>1, FS_CardinalityType
  <2> QED BY <2>2, <1>1, <1>5, <1>7, <1>13 DEF Stamped, HybridCovers, HybridNow
<1>16. len \in Nat /\ len = Len(lEvents) /\ Known(n) \subseteq S /\ h \in Nat \X Nat
  BY <1>1, <1>3, <1>11
<1>17. pt <= h[1] /\ \A i \in S : HybridLess(lEvents[i].hybrid, h) /\ lEvents[i].pt <= h[1]
  BY <1>11, <1>12
<1>18. Recordable(len, n, pt, S, t, v, h)
  BY <1>3, <1>6, <1>8, <1>9, <1>10, <1>14, <1>15, <1>16, <1>17 DEF Recordable
<1> QED BY <1>4, <1>18, RecordFits

\* receive: the message's causes have caused the event as well.
LEMMA ReceiveFits ==
    ASSUME LInv, NEW n \in LNodes, NEW pt \in LTimes, NEW c \in 1 .. Len(lEvents), Receive(n, c, pt)
    PROVE  LInv'
<1>1. PICK len, k, m, own : /\ len = Len(lEvents) /\ k = lHybrid[n] /\ m = lEvents[c]
                            /\ own = Known(n)
  OBVIOUS
<1>2. PICK S, t, v, h : /\ S = own \cup (m.past \cup {c}) /\ t = Later(lTime[n], m.lamport) + 1
                        /\ v = VectorReceive(lVector[n], m.vector, n)
                        /\ h = HybridReceive(k, m.hybrid, pt)
  OBVIOUS
<1>3. /\ len \in Nat /\ c \in 1 .. len
      /\ own \subseteq 1 .. len /\ \A i \in own : lEvents[i].past \subseteq own
  BY <1>1, KnownIsClosed DEF LInv, ClocksTyped
<1>4. \A i \in m.past : i \in 1 .. len /\ lEvents[i].past \subseteq m.past
  BY <1>1, <1>3 DEF LInv, PastsAreClosed
<1>5. S \in SUBSET (1 .. len) /\ \A i \in S : lEvents[i].past \subseteq S
  BY <1>1, <1>2, <1>3, <1>4
<1>6. Record(n, pt, S, t, v, h)
  <2>1. UNION {lEvents[i].past : i \in EventsAt(n) \cup {c}}
          = (UNION {lEvents[i].past : i \in EventsAt(n)}) \cup m.past
    BY <1>1
  <2>2. Upto(EventsAt(n) \cup {c}) = S
    BY <2>1, <1>1, <1>2 DEF Upto, Known
  <2> QED BY <2>2, <1>1, <1>2 DEF Receive
<1>7. /\ lTime[n] \in Nat /\ lVector[n] \in [LNodes -> Nat] /\ k \in Nat \X Nat
      /\ pt \in Nat \ {0}
  BY <1>1, LTimesAssumption DEF LInv, ClocksTyped
<1>ev. ASSUME NEW i \in 1 .. len
       PROVE  /\ lEvents[i].node \in LNodes /\ lEvents[i].vector \in [LNodes -> Nat]
              /\ lEvents[i].lamport \in Nat /\ lEvents[i].hybrid \in Nat \X Nat
              /\ lEvents[i].pt \in Nat
  <2>1. lEvents[i] \in ClockEvent
    BY <1>1 DEF LInv, ClocksTyped
  <2> QED BY <2>1, LTimesAssumption DEF ClockEvent
<1>8. m.vector \in [LNodes -> Nat] /\ m.lamport \in Nat /\ m.hybrid \in Nat \X Nat
  BY <1>1, <1>3, <1>ev
<1>9. Stamped(own, lTime[n], lVector[n], k)
  BY <1>1 DEF LInv, ClocksFit
<1>10. /\ Stamped(m.past \cup {c}, m.lamport, m.vector, m.hybrid)
       /\ \A x \in LNodes : m.vector[x] <= lVector[x][x]
  BY <1>1 DEF LInv, ClocksFit
<1>11. \A x \in LNodes : lVector[n][x] <= lVector[x][x] /\ lVector[x][x] \in Nat
  BY DEF LInv, ClocksFit, ClocksTyped
<1>12. t \in Nat /\ v \in [LNodes -> Nat]
  <2>1. \A x \in LNodes : Later(lVector[n][x], m.vector[x]) \in Nat
    BY <1>7, <1>8 DEF Later
  <2>2. Later(lTime[n], m.lamport) \in Nat
    BY <1>7, <1>8, LaterIsOne
  <2> QED BY <2>1, <2>2, <1>2 DEF VectorReceive
<1>13. \A x \in LNodes : v[x] = Later(lVector[n][x], m.vector[x]) + IF x = n THEN 1 ELSE 0
  BY <1>2 DEF VectorReceive
<1>14. v[n] = lVector[n][n] + 1 /\ \A x \in LNodes \ {n} : v[x] <= lVector[x][x]
  <2>1. ASSUME NEW x \in LNodes
        PROVE  /\ lVector[n][x] \in Nat /\ m.vector[x] \in Nat
               /\ m.vector[x] <= lVector[x][x] /\ lVector[n][x] <= lVector[x][x]
    BY <1>7, <1>8, <1>10, <1>11
  <2>2. Later(lVector[n][n], m.vector[n]) = lVector[n][n]
    <3>1. PICK a \in Nat, b \in Nat : a = lVector[n][n] /\ b = m.vector[n] /\ b <= a
      BY <2>1
    <3>2. Later(a, b) = a
      BY <3>1, LaterIsOne
    <3> QED BY <3>1, <3>2
  <2>3. ASSUME NEW x \in LNodes \ {n} PROVE Later(lVector[n][x], m.vector[x]) <= lVector[x][x]
    <3>1. PICK a \in Nat, b \in Nat : a = lVector[n][x] /\ b = m.vector[x]
      BY <2>1
    <3>2. a <= lVector[x][x] /\ b <= lVector[x][x]
      BY <2>1, <3>1
    <3>3. Later(a, b) = a \/ Later(a, b) = b
      BY <3>1, LaterIsOne
    <3> QED BY <3>1, <3>2, <3>3
  <2>4. \A x \in LNodes \ {n} : v[x] = Later(lVector[n][x], m.vector[x])
    <3>1. \A x \in LNodes : Later(lVector[n][x], m.vector[x]) \in Nat
      BY <2>1, LaterIsOne
    <3> QED BY <3>1, <1>13
  <2> QED BY <2>2, <2>3, <2>4, <1>13
<1>15. ASSUME NEW i \in S PROVE lEvents[i].lamport < t
  <2>0. i \in 1 .. len /\ lEvents[i].lamport \in Nat
    BY <1>5, <1>ev
  <2>1. lEvents[i].lamport <= lTime[n] \/ lEvents[i].lamport <= m.lamport
    BY <1>2, <1>9, <1>10 DEF Stamped
  <2>2. PICK a \in Nat, b \in Nat : a = lTime[n] /\ b = m.lamport
    BY <1>7, <1>8
  <2>3. Later(a, b) \in Nat /\ a <= Later(a, b) /\ b <= Later(a, b)
    BY LaterIsOne
  <2>4. t = Later(a, b) + 1
    BY <1>2, <2>2
  <2> QED BY <2>0, <2>1, <2>2, <2>3, <2>4
<1>16. VectorTells(S, v)
  <2> SUFFICES ASSUME NEW i \in 1 .. len
               PROVE  IF i \in S THEN \A x \in LNodes : lEvents[i].vector[x] <= v[x]
                      ELSE v[lEvents[i].node] < lEvents[i].vector[lEvents[i].node]
    BY <1>1 DEF VectorTells
  <2>1. IF i \in own THEN \A x \in LNodes : lEvents[i].vector[x] <= lVector[n][x]
        ELSE lVector[n][lEvents[i].node] < lEvents[i].vector[lEvents[i].node]
    BY <1>1, <1>9 DEF Stamped, VectorTells
  <2>2. IF i \in m.past \cup {c} THEN \A x \in LNodes : lEvents[i].vector[x] <= m.vector[x]
        ELSE m.vector[lEvents[i].node] < lEvents[i].vector[lEvents[i].node]
    BY <1>1, <1>10 DEF Stamped, VectorTells
  <2>3. ASSUME i \notin S PROVE lEvents[i].node # n
    BY <1>1, <1>2, <2>3, KnownIsClosed DEF LInv, EventsAt
  <2>4. \A x \in LNodes : /\ lVector[n][x] <= v[x] /\ m.vector[x] <= v[x]
                          /\ x # n => v[x] = lVector[n][x] \/ v[x] = m.vector[x]
    <3> SUFFICES ASSUME NEW x \in LNodes
                 PROVE  /\ lVector[n][x] <= v[x] /\ m.vector[x] <= v[x]
                        /\ x # n => v[x] = lVector[n][x] \/ v[x] = m.vector[x]
      OBVIOUS
    <3>1. PICK a \in Nat, b \in Nat : a = lVector[n][x] /\ b = m.vector[x]
      BY <1>7, <1>8
    <3>2. /\ Later(a, b) \in Nat /\ a <= Later(a, b) /\ b <= Later(a, b)
          /\ Later(a, b) = a \/ Later(a, b) = b
      BY LaterIsOne
    <3>3. v[x] = Later(a, b) + IF x = n THEN 1 ELSE 0
      BY <1>13, <3>1
    <3> QED BY <3>1, <3>2, <3>3
  <2>5. CASE i \in S
    <3> SUFFICES ASSUME NEW x \in LNodes PROVE lEvents[i].vector[x] <= v[x]
      BY <2>5
    <3>1. lEvents[i].vector[x] <= lVector[n][x] \/ lEvents[i].vector[x] <= m.vector[x]
      BY <2>1, <2>2, <2>5, <1>2
    <3>2. lEvents[i].vector[x] \in Nat /\ lVector[n][x] \in Nat /\ m.vector[x] \in Nat /\ v[x] \in Nat
      BY <1>7, <1>8, <1>12, <1>ev
    <3> QED BY <3>1, <3>2, <2>4
  <2>6. CASE i \notin S
    BY <2>1, <2>2, <2>3, <2>4, <2>6, <1>2, <1>ev
  <2> QED BY <2>5, <2>6
<1>17. /\ h \in Nat \X Nat
       /\ HybridLess(k, h) /\ HybridLess(m.hybrid, h) /\ pt <= h[1] /\ k[1] <= h[1]
       /\ m.hybrid[1] <= h[1]
       /\ \/ h[1] = pt /\ h[2] = 0
          \/ h[1] = k[1] /\ pt <= k[1] /\ h[2] = k[2] + 1
          \/ h[1] = m.hybrid[1] /\ h[2] = m.hybrid[2] + 1
  <2>1. PICK mh : mh = m.hybrid
    OBVIOUS
  <2>2. k \in Nat \X Nat /\ mh \in Nat \X Nat /\ pt \in Nat /\ h = HybridReceive(k, mh, pt)
    BY <2>1, <1>2, <1>7, <1>8
  <2>3. /\ h \in Nat \X Nat
        /\ HybridLess(k, h) /\ HybridLess(mh, h) /\ pt <= h[1] /\ k[1] <= h[1] /\ mh[1] <= h[1]
        /\ \/ h[1] = pt /\ h[2] = 0
           \/ h[1] = k[1] /\ pt <= k[1] /\ h[2] = k[2] + 1
           \/ h[1] = mh[1] /\ h[2] = mh[2] + 1
    BY <2>2 DEF HybridReceive, Later, HybridLess
  <2> QED BY <2>1, <2>3
<1>18. ASSUME NEW i \in S PROVE HybridLess(lEvents[i].hybrid, h) /\ lEvents[i].pt <= h[1]
  <2>1. \/ HybridAtMost(lEvents[i].hybrid, k) /\ lEvents[i].pt <= k[1]
        \/ HybridAtMost(lEvents[i].hybrid, m.hybrid) /\ lEvents[i].pt <= m.hybrid[1]
    BY <1>2, <1>9, <1>10 DEF Stamped, HybridCovers
  <2>2. lEvents[i].hybrid \in Nat \X Nat /\ lEvents[i].pt \in Nat
    BY <1>5, <1>ev
  <2>3. PICK eh, mh : eh = lEvents[i].hybrid /\ mh = m.hybrid
    OBVIOUS
  <2>4. eh \in Nat \X Nat /\ mh \in Nat \X Nat /\ h \in Nat \X Nat
    BY <2>2, <2>3, <1>8, <1>17
  <2>5. CASE HybridAtMost(eh, k) /\ lEvents[i].pt <= k[1]
    <3>1. HybridLess(eh, h)
      BY <2>4, <2>5, <1>7, <1>17, HybridOrder
    <3> QED BY <3>1, <2>2, <2>3, <2>4, <2>5, <1>7, <1>17
  <2>6. CASE HybridAtMost(eh, mh) /\ lEvents[i].pt <= mh[1]
    <3>1. HybridLess(eh, h)
      BY <2>3, <2>4, <2>6, <1>17, HybridOrder
    <3> QED BY <3>1, <2>2, <2>3, <2>4, <2>6, <1>17
  <2> QED BY <2>1, <2>3, <2>5, <2>6
<1>19. own # {} \/ k[1] < pt
  BY <1>7, <1>9 DEF Stamped, HybridCovers
<1>20. /\ \E x \in m.past \cup {c} : m.hybrid[1] = lEvents[x].pt
       /\ m.hybrid[2] < Cardinality(m.past \cup {c})
       /\ own # {} => (\E x \in own : k[1] = lEvents[x].pt) /\ k[2] < Cardinality(own)
  BY <1>9, <1>10 DEF Stamped, HybridCovers
<1>21. h[1] = pt \/ \E x \in S : h[1] = lEvents[x].pt
  BY <1>2, <1>7, <1>17, <1>19, <1>20
<1>22. h[2] <= Cardinality(S)
  <2>1. IsFiniteSet(S)
    <3>1. 1 \in Int /\ len \in Int
      BY <1>3
    <3> QED BY <3>1, <1>5, FS_Interval, FS_Subset
  <2>2. /\ Cardinality(S) \in Nat
        /\ Cardinality(own) \in Nat /\ Cardinality(own) <= Cardinality(S)
        /\ Cardinality(m.past \cup {c}) \in Nat
        /\ Cardinality(m.past \cup {c}) <= Cardinality(S)
    BY <2>1, <1>2, FS_CardinalityType, FS_Subset
  <2>3. k[1] \in Nat /\ k[2] \in Nat /\ m.hybrid[2] \in Nat /\ h[2] \in Nat
    BY <1>7, <1>8, <1>17
  <2>4. CASE h[1] = k[1] /\ pt <= k[1] /\ h[2] = k[2] + 1
    BY <2>2, <2>3, <2>4, <1>7, <1>19, <1>20
  <2>5. CASE h[1] = m.hybrid[1] /\ h[2] = m.hybrid[2] + 1
    BY <2>2, <2>3, <2>5, <1>20
  <2>6. CASE h[2] = 0
    BY <2>2, <2>6
  <2> QED BY <2>4, <2>5, <2>6, <1>17
<1>23. own \subseteq S /\ own = Known(n)
  BY <1>1, <1>2
<1>24. len \in Nat /\ len = Len(lEvents)
  BY <1>1, <1>3
<1>25. h \in Nat \X Nat /\ pt <= h[1]
  BY <1>17
<1>26. Recordable(len, n, pt, S, t, v, h)
  BY <1>5, <1>12, <1>14, <1>15, <1>16, <1>18, <1>21, <1>22, <1>23, <1>24, <1>25 DEF Recordable
<1> QED BY <1>6, <1>26, RecordFits

LEMMA LInvHolds == LSpec => []LInv
<1>1. LInit => LInv
  <2> SUFFICES ASSUME LInit PROVE LInv
    OBVIOUS
  <2>1. Len(lEvents) = 0 /\ ClocksTyped
    BY DEF LInit, ClocksTyped
  <2>2. PastsAreClosed
    BY <2>1 DEF PastsAreClosed
  <2>3. ASSUME NEW n \in LNodes PROVE Known(n) = {}
    BY <2>1 DEF Known, Upto, EventsAt
  <2>4. ClocksFit
    BY <2>1, <2>3 DEF ClocksFit, LInit, Stamped, VectorTells, HybridCovers
  <2> QED BY <2>1, <2>2, <2>4 DEF LInv
<1>2. LInv /\ [LNext]_lVars => LInv'
  <2> SUFFICES ASSUME LInv, [LNext]_lVars PROVE LInv'
    OBVIOUS
  <2>1. ASSUME NEW n \in LNodes, NEW pt \in LTimes, LocalOrSend(n, pt) PROVE LInv'
    BY <2>1, LocalFits
  <2>2. ASSUME NEW n \in LNodes, NEW pt \in LTimes, NEW i \in 1 .. Len(lEvents), Receive(n, i, pt)
        PROVE  LInv'
    BY <2>2, ReceiveFits
  <2>3. CASE UNCHANGED lVars
    <3>1. ClocksTyped' /\ PastsAreClosed'
      BY <2>3 DEF lVars, LInv, ClocksTyped, PastsAreClosed
    <3>2. \A n : Known(n)' = Known(n)
      BY <2>3 DEF lVars, Known, Upto, EventsAt
    <3>3. ClocksFit'
      <4>1. ASSUME NEW n \in LNodes PROVE Stamped(Known(n), lTime[n], lVector[n], lHybrid[n])'
        <5>1. Stamped(Known(n), lTime[n], lVector[n], lHybrid[n])
          BY DEF LInv, ClocksFit
        <5> QED BY <5>1, <2>3, <3>2 DEF lVars, Stamped, VectorTells, HybridCovers
      <4>2. ASSUME NEW j \in 1 .. Len(lEvents)
            PROVE  Stamped(lEvents[j].past \cup {j}, lEvents[j].lamport, lEvents[j].vector,
                           lEvents[j].hybrid)'
        <5>1. Stamped(lEvents[j].past \cup {j}, lEvents[j].lamport, lEvents[j].vector,
                      lEvents[j].hybrid)
          BY DEF LInv, ClocksFit
        <5> QED BY <5>1, <2>3 DEF lVars, Stamped, VectorTells, HybridCovers
      <4>3. /\ \A j \in 1 .. Len(lEvents) :
                  /\ \A i \in lEvents[j].past : /\ lEvents[i].lamport < lEvents[j].lamport
                                                /\ HybridLess(lEvents[i].hybrid, lEvents[j].hybrid)
                  /\ \A n \in LNodes : lEvents[j].vector[n] <= lVector[n][n]
            /\ \A m, n \in LNodes : lVector[m][n] <= lVector[n][n]
        BY DEF LInv, ClocksFit
      <4> QED BY <4>1, <4>2, <4>3, <2>3 DEF lVars, ClocksFit
    <3> QED BY <3>1, <3>3 DEF LInv
  <2> QED BY <2>1, <2>2, <2>3 DEF LNext
<1> QED BY <1>1, <1>2, PTL DEF LSpec

\* What the vectors say is what has happened: an event comes before another exactly
\* when it is among its causes.
LEMMA VectorsTell ==
    ASSUME LInv, NEW i \in 1 .. Len(lEvents), NEW j \in 1 .. Len(lEvents)
    PROVE  VectorBefore(lEvents[i].vector, lEvents[j].vector) <=> i \in lEvents[j].past
<1>ev. ASSUME NEW x \in 1 .. Len(lEvents)
       PROVE  lEvents[x].node \in LNodes /\ lEvents[x].vector \in [LNodes -> Nat]
  <2>1. lEvents[x] \in ClockEvent
    BY DEF LInv, ClocksTyped
  <2> QED BY <2>1 DEF ClockEvent
<1>0. Len(lEvents) \in Nat
  BY DEF LInv, ClocksTyped
<1>tell. ASSUME NEW x \in 1 .. Len(lEvents), NEW y \in 1 .. Len(lEvents)
         PROVE  IF x \in lEvents[y].past \cup {y}
                THEN \A k \in LNodes : lEvents[x].vector[k] <= lEvents[y].vector[k]
                ELSE lEvents[y].vector[lEvents[x].node] < lEvents[x].vector[lEvents[x].node]
  BY DEF LInv, ClocksFit, Stamped, VectorTells
<1>past. /\ \A x \in lEvents[j].past : x < j
         /\ \A x \in lEvents[i].past : x < i
  <2>1. \A x \in lEvents[j].past : x \in 1 .. j - 1
    BY DEF LInv, PastsAreClosed
  <2>2. \A x \in lEvents[i].past : x \in 1 .. i - 1
    BY DEF LInv, PastsAreClosed
  <2> QED BY <2>1, <2>2
<1>1. CASE i = j
  BY <1>1, <1>past, <1>ev DEF VectorBefore
<1>2. CASE i \in lEvents[j].past
  <2>1. j \notin lEvents[i].past \cup {i}
    BY <1>2, <1>past, <1>0
  <2>2. lEvents[i].vector[lEvents[j].node] < lEvents[j].vector[lEvents[j].node]
    BY <2>1, <1>tell
  <2>3. \A k \in LNodes : lEvents[i].vector[k] <= lEvents[j].vector[k]
    BY <1>2, <1>tell
  <2> QED BY <1>2, <2>2, <2>3, <1>ev DEF VectorBefore
<1>3. CASE i # j /\ i \notin lEvents[j].past
  <2>1. lEvents[j].vector[lEvents[i].node] < lEvents[i].vector[lEvents[i].node]
    BY <1>3, <1>tell
  <2> QED BY <1>3, <2>1, <1>ev DEF VectorBefore
<1> QED BY <1>1, <1>2, <1>3

\* For any nodes, physical clocks that read any times, and messages that are late,
\* overtaken or delivered again: Lamport and hybrid timestamps grow along causes, the
\* vectors tell causes from concurrency, and a hybrid timestamp is no further than
\* the latest time read among its causes (lamport_clock.py, vector_clock.py,
\* hybrid_clock.py).
THEOREM TimestampsTell == LSpec => []TimestampsFollowCausality
<1>1. LInv => TimestampsFollowCausality
  <2> SUFFICES ASSUME LInv, NEW i \in 1 .. Len(lEvents), NEW j \in 1 .. Len(lEvents)
               PROVE  LET e == lEvents[i]
                          f == lEvents[j]
                      IN /\ i \in f.past => /\ e.lamport < f.lamport
                                            /\ HybridLess(e.hybrid, f.hybrid)
                         /\ VectorBefore(e.vector, f.vector) <=> i \in f.past
                         /\ VectorConcurrent(e.vector, f.vector) <=> i \notin f.past /\ j \notin e.past
                         /\ i # j => LamportLess(e, f) \/ LamportLess(f, e)
                         /\ i \in f.past \cup {j} => e.pt <= f.hybrid[1]
                         /\ \E k \in f.past \cup {j} : f.hybrid[1] = lEvents[k].pt
                         /\ f.hybrid[2] <= Cardinality(f.past)
    BY DEF TimestampsFollowCausality
  <2>0. Len(lEvents) \in Nat
    BY DEF LInv, ClocksTyped
  <2>1. ASSUME NEW x \in 1 .. Len(lEvents)
        PROVE  /\ lEvents[x].node \in Nat /\ lEvents[x].lamport \in Nat
               /\ lEvents[x].hybrid \in Nat \X Nat
    <3>1. lEvents[x] \in ClockEvent
      BY DEF LInv, ClocksTyped
    <3> QED BY <3>1, LNodesAssumption DEF ClockEvent
  <2>2. i \in lEvents[j].past => /\ lEvents[i].lamport < lEvents[j].lamport
                                 /\ HybridLess(lEvents[i].hybrid, lEvents[j].hybrid)
    BY DEF LInv, ClocksFit
  <2>3. j \in lEvents[i].past => lEvents[j].lamport < lEvents[i].lamport
    BY DEF LInv, ClocksFit
  <2>4. /\ VectorBefore(lEvents[i].vector, lEvents[j].vector) <=> i \in lEvents[j].past
        /\ VectorBefore(lEvents[j].vector, lEvents[i].vector) <=> j \in lEvents[i].past
    BY VectorsTell
  <2>5. i # j => LamportLess(lEvents[i], lEvents[j]) \/ LamportLess(lEvents[j], lEvents[i])
    <3>1. i < j /\ lEvents[i].node = lEvents[j].node => i \in lEvents[j].past
      BY <2>0 DEF LInv, PastsAreClosed
    <3>2. j < i /\ lEvents[i].node = lEvents[j].node => j \in lEvents[i].past
      BY <2>0 DEF LInv, PastsAreClosed
    <3> QED BY <3>1, <3>2, <2>0, <2>1, <2>2, <2>3 DEF LamportLess
  <2>6. HybridCovers(lEvents[j].past \cup {j}, lEvents[j].hybrid)
    BY DEF LInv, ClocksFit, Stamped
  <2>7. /\ i \in lEvents[j].past \cup {j} => lEvents[i].pt <= lEvents[j].hybrid[1]
        /\ \E k \in lEvents[j].past \cup {j} : lEvents[j].hybrid[1] = lEvents[k].pt
        /\ lEvents[j].hybrid[2] < Cardinality(lEvents[j].past \cup {j})
    BY <2>6 DEF HybridCovers
  <2>8. lEvents[j].hybrid[2] <= Cardinality(lEvents[j].past)
    <3>1. lEvents[j].past \subseteq 1 .. j - 1
      BY DEF LInv, PastsAreClosed
    <3>2. IsFiniteSet(lEvents[j].past)
      <4>1. 1 \in Int /\ j - 1 \in Int
        BY <2>0
      <4> QED BY <4>1, <3>1, FS_Interval, FS_Subset
    <3>3. j \notin lEvents[j].past
      BY <3>1, <2>0
    <3>4. /\ Cardinality(lEvents[j].past) \in Nat
          /\ Cardinality(lEvents[j].past \cup {j}) = Cardinality(lEvents[j].past) + 1
      BY <3>2, <3>3, FS_CardinalityType, FS_AddElement
    <3> QED BY <3>4, <2>1, <2>7
  <2> QED BY <2>2, <2>4, <2>5, <2>7, <2>8 DEF VectorConcurrent
<1> QED BY <1>1, LInvHolds, PTL

-----------------------------------------------------------------------------
(* Rate limiters.                                                           *)

AllGrants == Seq(Nat \X Nat)

\* The sum is well defined: it takes one grant after the other.
LEMMA GrantedSteps ==
    ASSUME NEW grants \in AllGrants
    PROVE  /\ Granted(grants)[0] = 0
           /\ \A k \in 1 .. Len(grants) : Granted(grants)[k] = Granted(grants)[k - 1] + grants[k][2]
<1> DEFINE step == [k \in Nat |-> [s \in Nat |-> IF k \in 1 .. Len(grants) THEN s + grants[k][2] ELSE s]]
           Loop(m) == m = [k \in 0 .. Len(grants) |-> IF k = 0 THEN 0 ELSE m[k - 1] + grants[k][2]]
<1>1. Len(grants) \in Nat /\ 0 \in Nat /\ \A k \in 1 .. Len(grants) : grants[k][2] \in Nat
  BY DEF AllGrants
<1>2. step \in [Nat -> [Nat -> Nat]]
  BY <1>1
<1>3. PICK m \in [0 .. Len(grants) -> Nat] : Stepwise(m, Len(grants), Nat, 0, step)
  <2> HIDE DEF step
  <2> QED BY <1>1, <1>2, RecursionDefines
<1>4. Loop(m)
  <2>1. ASSUME NEW k \in 0 .. Len(grants)
        PROVE  m[k] = IF k = 0 THEN 0 ELSE m[k - 1] + grants[k][2]
    <3>1. CASE k = 0
      BY <1>3, <3>1 DEF Stepwise
    <3>2. CASE k # 0
      <4>1. k \in 1 .. Len(grants) /\ k - 1 \in 0 .. Len(grants) /\ k \in Nat
        BY <1>1, <3>2
      <4>2. m[k - 1] \in Nat
        BY <1>3, <4>1
      <4>3. m[k] = step[k][m[k - 1]]
        <5> HIDE DEF step
        <5> QED BY <1>3, <4>1, <4>2 DEF Stepwise
      <4> QED BY <3>2, <4>1, <4>2, <4>3
    <3> QED BY <3>1, <3>2
  <2>2. m = [k \in 0 .. Len(grants) |-> m[k]]
    BY <1>3
  <2> QED BY <2>1, <2>2
<1>5. PICK f : f = Granted(grants)
  OBVIOUS
<1>6. Loop(f)
  <2>1. f = CHOOSE g : Loop(g)
    BY <1>5 DEF Granted
  <2> HIDE DEF Loop
  <2> QED BY <1>4, <2>1
<1>7. f[0] = 0
  <2>1. 0 \in 0 .. Len(grants)
    BY <1>1
  <2> QED BY <1>6, <2>1
<1>8. ASSUME NEW k \in 1 .. Len(grants) PROVE f[k] = f[k - 1] + grants[k][2]
  <2>1. k \in 0 .. Len(grants) /\ k # 0
    BY <1>1
  <2> QED BY <1>6, <2>1
<1> QED BY <1>5, <1>7, <1>8

LEMMA SumsAreNumbers ==
    ASSUME NEW grants \in AllGrants
    PROVE  /\ Granted(grants)[0] = 0
           /\ \A k \in 0 .. Len(grants) : Granted(grants)[k] \in Nat
<1>1. PICK f : f = Granted(grants)
  OBVIOUS
<1>2. Len(grants) \in Nat /\ f[0] = 0 /\ \A k \in 1 .. Len(grants) : f[k] = f[k - 1] + grants[k][2] /\ grants[k][2] \in Nat
  BY <1>1, GrantedSteps DEF AllGrants
<1> DEFINE N == {k \in Nat : k <= Len(grants) => f[k] \in Nat}
<1>3. 0 \in N
  BY <1>2
<1>4. ASSUME NEW n \in Nat, n \in N PROVE n + 1 \in N
  <2>1. ASSUME n + 1 <= Len(grants) PROVE f[n + 1] \in Nat
    <3>1. n + 1 \in 1 .. Len(grants) /\ (n + 1) - 1 = n /\ n <= Len(grants)
      BY <1>2, <2>1
    <3>2. PICK before, cost : before = f[n] /\ cost = grants[n + 1][2]
      OBVIOUS
    <3>3. before \in Nat
      BY <1>4, <3>1, <3>2
    <3>4. f[n + 1] = before + cost /\ cost \in Nat
      BY <1>2, <3>1, <3>2
    <3> QED BY <3>3, <3>4
  <2>2. n + 1 \in Nat
    OBVIOUS
  <2> QED BY <2>1, <2>2
<1>5. \A n \in Nat : n \in N
  <2> HIDE DEF N
  <2> QED BY <1>3, <1>4, EveryNumber
<1> QED BY <1>1, <1>2, <1>5

\* A grant more leaves the sums before it as they are and adds its tokens.
LEMMA GrantAdds ==
    ASSUME NEW grants \in AllGrants, NEW x \in Nat \X Nat
    PROVE  /\ Append(grants, x) \in AllGrants
           /\ \A k \in 0 .. Len(grants) : Granted(Append(grants, x))[k] = Granted(grants)[k]
           /\ Granted(Append(grants, x))[Len(grants) + 1] = Granted(grants)[Len(grants)] + x[2]
<1>1. PICK f, g, more : f = Granted(grants) /\ more = Append(grants, x) /\ g = Granted(more)
  OBVIOUS
<1>2. /\ more \in AllGrants /\ Len(grants) \in Nat /\ Len(more) = Len(grants) + 1
      /\ more[Len(grants) + 1] = x /\ \A k \in 1 .. Len(grants) : more[k] = grants[k]
  BY <1>1 DEF AllGrants
<1>3. /\ f[0] = 0 /\ \A k \in 1 .. Len(grants) : f[k] = f[k - 1] + grants[k][2]
      /\ g[0] = 0 /\ \A k \in 1 .. Len(more) : g[k] = g[k - 1] + more[k][2]
  BY <1>1, <1>2, GrantedSteps
<1> DEFINE N == {k \in Nat : k <= Len(grants) => g[k] = f[k]}
<1>4. 0 \in N
  BY <1>3
<1>5. ASSUME NEW n \in Nat, n \in N PROVE n + 1 \in N
  <2> SUFFICES ASSUME n + 1 <= Len(grants) PROVE g[n + 1] = f[n + 1]
    OBVIOUS
  <2>1. n + 1 \in 1 .. Len(grants) /\ n + 1 \in 1 .. Len(more) /\ (n + 1) - 1 = n
    BY <1>2
  <2> QED BY <1>2, <1>3, <1>5, <2>1
<1>6. \A n \in Nat : n \in N
  <2> HIDE DEF N
  <2> QED BY <1>4, <1>5, EveryNumber
<1>7. g[Len(grants) + 1] = f[Len(grants)] + x[2]
  <2>1. Len(grants) + 1 \in 1 .. Len(more) /\ (Len(grants) + 1) - 1 = Len(grants)
    BY <1>2
  <2>2. g[Len(grants)] = f[Len(grants)]
    BY <1>2, <1>6
  <2> QED BY <1>2, <1>3, <2>1, <2>2
<1> QED BY <1>1, <1>2, <1>6, <1>7

\* The elements of seq in S are those after the first m.
EndsIn(seq, S, m) == \A x \in 1 .. Len(seq) : seq[x] \in S <=> x > m

\* Of a sequence whose elements in S come last, the selection is its end.
LEMMA SelectionOfEnd ==
    ASSUME NEW T, NEW seq \in Seq(T), NEW S, NEW m \in 0 .. Len(seq),
           EndsIn(seq, S, m)
    PROVE  /\ KeepOnly(seq, S) \in Seq(T)
           /\ Len(KeepOnly(seq, S)) = Len(seq) - m
           /\ \A x \in 1 .. Len(seq) - m : KeepOnly(seq, S)[x] = seq[m + x]
<1>1. PICK f : f = KeepSteps(seq, S)
  OBVIOUS
<1>2. /\ Len(seq) \in Nat /\ m \in Nat /\ f[0] = << >>
      /\ \A k \in 1 .. Len(seq) : f[k] = IF seq[k] \in S THEN Append(f[k - 1], seq[k]) ELSE f[k - 1]
  BY <1>1, SelectionSteps
<1> DEFINE Past(k) == IF k <= m THEN 0 ELSE k - m
           N == {k \in Nat : k <= Len(seq) =>
                    /\ f[k] \in Seq(T) /\ Len(f[k]) = Past(k)
                    /\ \A x \in 1 .. Past(k) : f[k][x] = seq[m + x]}
<1>3. 0 \in N
  <2>1. Past(0) = 0 /\ f[0] \in Seq(T) /\ Len(f[0]) = 0
    BY <1>2
  <2> HIDE DEF Past
  <2> QED BY <2>1
<1>4. ASSUME NEW n \in Nat, n \in N PROVE n + 1 \in N
  <2> HIDE DEF Past
  <2> SUFFICES ASSUME n + 1 <= Len(seq)
               PROVE  /\ f[n + 1] \in Seq(T) /\ Len(f[n + 1]) = Past(n + 1)
                      /\ \A x \in 1 .. Past(n + 1) : f[n + 1][x] = seq[m + x]
    <3>1. n + 1 \in Nat
      OBVIOUS
    <3> QED BY <3>1
  <2> USE DEF Past
  <2>1. n + 1 \in 1 .. Len(seq) /\ (n + 1) - 1 = n
    BY <1>2
  <2>2. PICK s : s = f[n]
    OBVIOUS
  <2>3. s \in Seq(T) /\ Len(s) = Past(n) /\ \A x \in 1 .. Past(n) : s[x] = seq[m + x]
    <3> HIDE DEF Past
    <3>1. n <= Len(seq)
      BY <1>2
    <3> QED BY <1>4, <2>2, <3>1
  <2>4. CASE n + 1 > m
    <3>1. f[n + 1] = Append(s, seq[n + 1]) /\ seq[n + 1] \in T
      <4>1. seq[n + 1] \in S /\ seq[n + 1] \in T
        BY <2>1, <2>4 DEF EndsIn
      <4> QED BY <1>2, <2>1, <2>2, <4>1
    <3>2. Past(n + 1) = Past(n) + 1 /\ m + (Past(n) + 1) = n + 1 /\ Past(n) \in Nat
      BY <1>2, <2>4
    <3>3. PICK p : p = Past(n)
      OBVIOUS
    <3> HIDE DEF Past
    <3>4. /\ f[n + 1] \in Seq(T) /\ Len(f[n + 1]) = p + 1 /\ f[n + 1][p + 1] = seq[n + 1]
          /\ \A x \in 1 .. p : f[n + 1][x] = s[x]
      BY <2>3, <3>1, <3>2, <3>3
    <3>5. ASSUME NEW x \in 1 .. p + 1 PROVE f[n + 1][x] = seq[m + x]
      <4>1. CASE x = p + 1
        BY <3>2, <3>3, <3>4, <4>1
      <4>2. CASE x \in 1 .. p
        BY <2>3, <3>3, <3>4, <4>2
      <4> QED BY <3>2, <3>3, <4>1, <4>2
    <3> QED BY <3>2, <3>3, <3>4, <3>5
  <2>5. CASE ~ n + 1 > m
    <3>1. f[n + 1] = s /\ Past(n) = 0 /\ Past(n + 1) = 0
      BY <1>2, <2>1, <2>2, <2>5 DEF EndsIn
    <3> HIDE DEF Past
    <3> QED BY <2>3, <3>1
  <2> QED BY <2>4, <2>5
<1>5. \A n \in Nat : n \in N
  <2> HIDE DEF N
  <2> QED BY <1>3, <1>4, EveryNumber
<1>6. Past(Len(seq)) = Len(seq) - m
  BY <1>2
<1> QED BY <1>1, <1>2, <1>5, <1>6 DEF KeepOnly

-----------------------------------------------------------------------------
(* What every limiter keeps.                                                *)

Promised(kind) == IF kind = "token" THEN BaseRate ELSE TopRate

\* What AdmittedWithinRate says of the grants i to j, for the sums of grants.
Kept(kind, grants, sum, i, j) ==
    CASE kind \in {"token", "adaptive"} ->
            (sum[j] - sum[i - 1]) * RInterval <= Full + (grants[j][1] - grants[i][1]) * Promised(kind)
      [] kind = "leaky" -> sum[j] - sum[0] <= RCapacity + grants[j][1] \div RInterval
      [] kind \in {"window", "redis"} ->
            grants[j][1] - grants[i][1] < RWindow => sum[j] - sum[i - 1] <= RCapacity

LimiterTyped ==
    /\ rKind \in RKinds /\ rNow \in Nat /\ rRate \in RRates /\ rBudget \in Nat
    /\ rLast \in Nat /\ rLast <= rNow /\ rExpiry \in Nat
    /\ rStamps \in Seq(Nat) /\ rGrants \in AllGrants

\* What was spent since a grant, and what is left, came out of a full bucket and
\* of what was refilled since.
TokensCover ==
    rKind \in {"token", "adaptive"} =>
        /\ rBudget <= Full
        /\ rKind = "token" => rRate = BaseRate
        /\ \A i \in 1 .. Len(rGrants) :
              /\ rGrants[i][1] <= rLast
              /\ (Granted(rGrants)[Len(rGrants)] - Granted(rGrants)[i - 1]) * RInterval + rBudget
                    <= Full + (rLast - rGrants[i][1]) * Promised(rKind)

CountsGrants == \A k \in 0 .. Len(rGrants) : Granted(rGrants)[k] = k

\* What was let through is in the bucket or has leaked, one request an interval.
BucketCovers ==
    rKind = "leaky" =>
        /\ CountsGrants
        /\ \E leaked \in Nat : rLast = leaked * RInterval /\ Len(rGrants) = Len(rStamps) + leaked

\* The list is the end of the grants, and those before it are out of the window.
WindowCovers ==
    rKind \in {"window", "redis"} =>
        /\ CountsGrants
        /\ \A g \in 1 .. Len(rGrants) : rGrants[g][1] <= rNow
        /\ \A g \in 1 .. Len(rGrants), h \in 1 .. Len(rGrants) :
              g <= h => rGrants[g][1] <= rGrants[h][1]
        /\ \E out \in 0 .. Len(rGrants) :
              /\ Len(rStamps) = Len(rGrants) - out
              /\ \A x \in 1 .. Len(rStamps) : rStamps[x] = rGrants[out + x][1]
              /\ \A g \in 1 .. out : rGrants[g][1] <= rNow - RWindow
        /\ rKind = "redis" => \A g \in 1 .. Len(rGrants) : rGrants[g][1] + RWindow < rExpiry

LimiterInv == LimiterTyped /\ TokensCover /\ BucketCovers /\ WindowCovers /\ AdmittedWithinRate

LEMMA RatesAreBounded ==
    /\ TopRate \in RRates /\ \A r \in RRates : r <= TopRate
    /\ BaseRate \in RRates
    /\ Full \in Nat /\ \A kind : Promised(kind) \in Nat
<1>1. PICK low \in RRates, high \in RRates : \A r \in RRates : low <= r /\ r <= high
  BY LimiterAssumption
<1>2. TopRate \in RRates /\ \A r \in RRates : r <= TopRate
  BY <1>1 DEF TopRate
<1>3. BaseRate \in RRates
  BY <1>1 DEF BaseRate
<1>4. Full \in Nat
  BY LimiterAssumption DEF Full
<1> QED BY <1>2, <1>3, <1>4, LimiterAssumption DEF Promised

LEMMA KeptIsAll ==
    AdmittedWithinRate <=> \A i \in 1 .. Len(rGrants) : \A j \in i .. Len(rGrants) :
                              Kept(rKind, rGrants, Granted(rGrants), i, j)
BY DEF AdmittedWithinRate, Kept, Promised, Spell

\* What a request let through now adds to the grants and to their sums.
Grown(g, h, cost) ==
    /\ Len(g) \in Nat /\ h \in AllGrants /\ Len(h) = Len(g) + 1
    /\ h[Len(g) + 1] = <<rNow, cost>>
    /\ \A k \in 1 .. Len(g) : h[k] = g[k]
    /\ \A k \in 0 .. Len(g) : Granted(h)[k] = Granted(g)[k] /\ Granted(g)[k] \in Nat
    /\ Granted(h)[Len(g) + 1] = Granted(g)[Len(g)] + cost

LEMMA GrantsGrow ==
    ASSUME LimiterTyped, NEW cost \in Nat, Grant(cost)
    PROVE  Grown(rGrants, rGrants', cost)
<1>0. PICK g, h, n : g = rGrants /\ h = rGrants' /\ n = Len(g)
  OBVIOUS
<1>1. PICK x : x = <<rNow, cost>>
  OBVIOUS
<1>2. x \in Nat \X Nat /\ h = Append(g, x) /\ g \in AllGrants
  BY <1>0, <1>1 DEF LimiterTyped, Grant
<1>3. /\ h \in AllGrants
      /\ \A k \in 0 .. Len(g) : Granted(Append(g, x))[k] = Granted(g)[k]
      /\ Granted(Append(g, x))[Len(g) + 1] = Granted(g)[Len(g)] + x[2]
  BY <1>2, GrantAdds
<1>4. n \in Nat /\ Len(h) = n + 1 /\ h[n + 1] = x /\ \A k \in 1 .. n : h[k] = g[k]
  BY <1>0, <1>2 DEF AllGrants
<1>5. \A k \in 0 .. n : Granted(g)[k] \in Nat
  BY <1>0, <1>2, SumsAreNumbers
<1>6. \A k \in 0 .. n : Granted(h)[k] = Granted(g)[k]
  BY <1>0, <1>2, <1>3
<1>7. Granted(h)[n + 1] = Granted(g)[n] + cost
  <2>1. x[2] = cost
    BY <1>1
  <2> QED BY <1>0, <1>2, <1>3, <2>1
<1>8. /\ Len(g) \in Nat /\ h \in AllGrants /\ Len(h) = Len(g) + 1
      /\ h[Len(g) + 1] = <<rNow, cost>> /\ \A k \in 1 .. Len(g) : h[k] = g[k]
  BY <1>0, <1>1, <1>3, <1>4
<1>9. \A k \in 0 .. Len(g) : Granted(h)[k] = Granted(g)[k] /\ Granted(g)[k] \in Nat
  BY <1>0, <1>5, <1>6
<1> QED BY <1>0, <1>7, <1>8, <1>9 DEF Grown

\* The sums and times of the grants there were do not change with a new one.
LEMMA GrantKeeps ==
    ASSUME LimiterInv, NEW cost \in Nat, Grant(cost), rKind' = rKind,
           \A i \in 1 .. Len(rGrants) + 1 :
              Kept(rKind, rGrants', Granted(rGrants'), i, Len(rGrants) + 1)
    PROVE  AdmittedWithinRate'
<1>1. PICK g, h, f, s, n : /\ g = rGrants /\ h = rGrants' /\ f = Granted(g) /\ s = Granted(h) /\ n = Len(g)
  OBVIOUS
<1>2. LimiterTyped /\ n \in Nat
  BY <1>1 DEF LimiterInv, LimiterTyped, AllGrants
<1>3. Len(h) = n + 1 /\ \A k \in 1 .. n : h[k] = g[k]
  BY <1>1, <1>2, GrantsGrow DEF Grown
<1>4. \A k \in 0 .. n : s[k] = f[k]
  BY <1>1, <1>2, GrantsGrow DEF Grown
<1>5. ASSUME NEW i \in 1 .. n + 1, NEW j \in i .. n + 1 PROVE Kept(rKind, h, s, i, j)
  <2>1. CASE j = n + 1
    BY <1>1, <2>1
  <2>2. CASE j # n + 1
    <3>1. i \in 1 .. n /\ j \in i .. n /\ j \in 1 .. n /\ j \in 0 .. n /\ i - 1 \in 0 .. n /\ 0 \in 0 .. n
      BY <1>2, <2>2
    <3>2. Kept(rKind, g, f, i, j)
      BY <1>1, <3>1, KeptIsAll DEF LimiterInv
    <3>3. h[i] = g[i] /\ h[j] = g[j] /\ s[i - 1] = f[i - 1] /\ s[j] = f[j] /\ s[0] = f[0]
      BY <1>3, <1>4, <3>1
    <3> QED BY <3>2, <3>3 DEF Kept
  <2> QED BY <2>1, <2>2
<1>6. \A i \in 1 .. Len(rGrants') : \A j \in i .. Len(rGrants') :
         Kept(rKind', rGrants', Granted(rGrants'), i, j)
  BY <1>1, <1>3, <1>5
<1>7. 1 - 1 = 0
  OBVIOUS
<1> QED BY <1>6, <1>7 DEF AdmittedWithinRate, Kept, Promised, Spell

\* A limiter that lets nothing through keeps what it kept.
LEMMA NothingGranted ==
    ASSUME LimiterInv, UNCHANGED <<rKind, rGrants>>
    PROVE  AdmittedWithinRate'
BY DEF LimiterInv, AdmittedWithinRate, Spell

LEMMA LimiterStarts == RInit => LimiterInv
<1> SUFFICES ASSUME RInit PROVE LimiterInv
  OBVIOUS
<1>1. << >> \in AllGrants /\ Len(<< >>) = 0 /\ << >> \in Seq(Nat)
  BY DEF AllGrants
<1>2. LimiterTyped
  BY <1>1, RatesAreBounded DEF RInit, LimiterTyped
<1>3. TokensCover
  BY <1>1, RatesAreBounded DEF RInit, TokensCover
<1>4. CountsGrants
  <2>1. Granted(rGrants)[0] = 0
    BY <1>1, GrantedSteps DEF RInit
  <2> QED BY <1>1, <2>1 DEF RInit, CountsGrants
<1>5. BucketCovers
  <2>1. rLast = 0 * RInterval /\ Len(rGrants) = Len(rStamps) + 0 /\ 0 \in Nat
    BY <1>1, LimiterAssumption DEF RInit
  <2> QED BY <1>4, <2>1 DEF BucketCovers
<1>6. WindowCovers
  <2>1. 0 \in 0 .. Len(rGrants) /\ Len(rStamps) = Len(rGrants) - 0
    BY <1>1 DEF RInit
  <2>2. Len(rGrants) = 0 /\ Len(rStamps) = 0
    BY <1>1 DEF RInit
  <2>3. \E out \in 0 .. Len(rGrants) :
              /\ Len(rStamps) = Len(rGrants) - out
              /\ \A x \in 1 .. Len(rStamps) : rStamps[x] = rGrants[out + x][1]
              /\ \A g \in 1 .. out : rGrants[g][1] <= rNow - RWindow
    <3>1. /\ Len(rStamps) = Len(rGrants) - 0
          /\ \A x \in 1 .. Len(rStamps) : rStamps[x] = rGrants[0 + x][1]
          /\ \A g \in 1 .. 0 : rGrants[g][1] <= rNow - RWindow
      BY <2>1, <2>2
    <3> QED BY <2>1, <3>1
  <2>4. 1 .. Len(rGrants) = {}
    BY <2>2
  <2> QED BY <1>4, <2>3, <2>4 DEF WindowCovers
<1>7. AdmittedWithinRate
  BY <1>1 DEF RInit, AdmittedWithinRate
<1> QED BY <1>2, <1>3, <1>5, <1>6, <1>7 DEF LimiterInv

\* Time brings at most what was promised for it.
LEMMA Refills ==
    ASSUME NEW spent \in Int, NEW left \in Nat, NEW cost \in Nat,
           NEW full \in Nat, NEW rate \in Nat, NEW top \in Nat, rate <= top,
           NEW since \in Nat, NEW last \in Nat, NEW now \in Nat, since <= last, last <= now,
           NEW unit \in Nat,
           spent * unit + left <= full + (last - since) * top,
           NEW more \in Nat, more <= left + (now - last) * rate
    PROVE  (spent + cost) * unit + (more - cost * unit) <= full + (now - since) * top
<1>1. (spent + cost) * unit = spent * unit + cost * unit
  OBVIOUS
<1>2. PICK a, b : a = last - since /\ b = now - last
  OBVIOUS
<1>3. a \in Nat /\ b \in Nat /\ now - since = a + b
  BY <1>2
<1>4. (a + b) * top = a * top + b * top
  BY <1>3
<1>5. b * rate <= b * top
  <2>1. PICK d \in Nat : top = rate + d
    OBVIOUS
  <2>2. b * top = b * rate + b * d /\ b * d \in Nat
    BY <1>3, <2>1
  <2> QED BY <1>3, <2>2
<1>6. PICK p, q, r, u, v : p = spent * unit /\ q = cost * unit /\ r = a * top /\ u = b * top /\ v = b * rate
  OBVIOUS
<1>7. p \in Int /\ q \in Int /\ r \in Int /\ u \in Int /\ v \in Int
  BY <1>3, <1>6
<1> QED BY <1>1, <1>2, <1>3, <1>4, <1>5, <1>6, <1>7

LEMMA TokenStep ==
    ASSUME LimiterInv, NEW cost \in RCosts, TokenRequest(cost)
    PROVE  LimiterInv'
<1>1. PICK g, f, n, t, R : /\ g = rGrants /\ f = Granted(g) /\ n = Len(g)
                           /\ t = Refilled /\ R = Promised(rKind)
  OBVIOUS
<1>2. /\ cost \in Nat /\ RInterval \in Nat /\ RInterval > 0 /\ Full \in Nat /\ R \in Nat
      /\ rRate \in Nat /\ rRate <= R
  BY <1>1, RatesAreBounded, LimiterAssumption
     DEF LimiterInv, LimiterTyped, TokensCover, TokenRequest, Promised
<1>3. /\ g \in AllGrants /\ n \in Nat /\ rBudget \in Nat /\ rLast \in Nat /\ rNow \in Nat /\ rLast <= rNow
  BY <1>1 DEF LimiterInv, LimiterTyped, AllGrants
<1>4. t \in Nat /\ t <= Full /\ t <= rBudget + (rNow - rLast) * rRate
  <2>1. PICK d : d = (rNow - rLast) * rRate
    OBVIOUS
  <2>2. d \in Nat
    <3>1. rNow - rLast \in Nat
      BY <1>3
    <3> QED BY <1>2, <2>1, <3>1
  <2>3. t = AtMost(Full, rBudget + d)
    BY <1>1, <2>1 DEF Refilled
  <2> QED BY <1>2, <1>3, <2>1, <2>2, <2>3 DEF AtMost
<1>5. /\ rKind' = rKind /\ rNow' = rNow /\ rRate' = rRate /\ rLast' = rNow
      /\ UNCHANGED <<rStamps, rExpiry>>
      /\ rKind \in {"token", "adaptive"}
  BY DEF TokenRequest
<1>6. ASSUME NEW i \in 1 .. n
      PROVE  /\ g[i][1] \in Nat /\ g[i][1] <= rLast
             /\ f[n] - f[i - 1] \in Int
             /\ (f[n] - f[i - 1]) * RInterval + rBudget <= Full + (rLast - g[i][1]) * R
  <2>1. n \in 0 .. n /\ i - 1 \in 0 .. n
    BY <1>3
  <2>2. f[n] \in Nat /\ f[i - 1] \in Nat
    BY <1>1, <1>3, <2>1, SumsAreNumbers
  <2>3. g[i] \in Nat \X Nat
    BY <1>1, <1>3 DEF AllGrants
  <2>4. g[i][1] \in Nat
    BY <2>3
  <2>5. /\ g[i][1] <= rLast
        /\ (f[n] - f[i - 1]) * RInterval + rBudget <= Full + (rLast - g[i][1]) * R
    BY <1>1, <1>5 DEF LimiterInv, TokensCover
  <2> QED BY <2>2, <2>4, <2>5
<1>7. rKind \notin {"leaky", "window", "redis"}
  BY <1>5
<1>8. CASE t >= cost * RInterval
  <2>1. rBudget' = t - cost * RInterval /\ Grant(cost)
    BY <1>1, <1>8 DEF TokenRequest
  <2>2. PICK h, s : h = rGrants' /\ s = Granted(h)
    OBVIOUS
  <2>3. LimiterTyped
    BY DEF LimiterInv
  <2>4. /\ h \in AllGrants /\ \A k \in 0 .. n : s[k] = f[k]
        /\ s[n + 1] = f[n] + cost
    BY <1>1, <1>2, <2>1, <2>2, <2>3, GrantsGrow DEF Grown
  <2>5. Len(h) = n + 1 /\ h[n + 1] = <<rNow, cost>> /\ \A k \in 1 .. n : h[k] = g[k]
    BY <1>1, <1>2, <2>1, <2>2, <2>3, GrantsGrow DEF Grown
  <2>6. PICK q : q = cost * RInterval
    OBVIOUS
  <2>7. q \in Nat
    BY <1>2, <2>6
  <2>8. LimiterTyped'
    BY <1>3, <1>4, <1>5, <1>8, <2>1, <2>2, <2>4, <2>6, <2>7 DEF LimiterInv, LimiterTyped
  <2>9. ASSUME NEW i \in 1 .. n + 1
        PROVE  /\ h[i][1] \in Nat /\ h[i][1] <= rNow
               /\ (s[n + 1] - s[i - 1]) * RInterval + rBudget' <= Full + (rNow - h[i][1]) * R
               /\ (s[n + 1] - s[i - 1]) * RInterval \in Int
    <3>1. CASE i = n + 1
      <4>1. n \in 0 .. n /\ i - 1 = n
        BY <1>3, <3>1
      <4>2. f[n] \in Nat
        BY <1>1, <1>3, <4>1, SumsAreNumbers
      <4>3. s[n + 1] - s[i - 1] = cost
        BY <1>2, <2>4, <4>1, <4>2
      <4>4. (rNow - h[i][1]) * R = 0 /\ h[i][1] = rNow
        BY <1>2, <1>3, <2>5, <3>1
      <4> QED BY <1>2, <1>3, <1>4, <2>1, <2>6, <2>7, <4>3, <4>4
    <3>2. CASE i \in 1 .. n
      <4>1. n \in 0 .. n /\ i - 1 \in 0 .. n
        BY <1>3, <3>2
      <4>2. f[n] \in Nat /\ f[i - 1] \in Nat
        BY <1>1, <1>3, <4>1, SumsAreNumbers
      <4>3. PICK spent \in Int : spent = f[n] - f[i - 1]
        BY <4>2
      <4>4. s[n + 1] - s[i - 1] = spent + cost /\ h[i] = g[i]
        <5>1. s[n + 1] = f[n] + cost /\ s[i - 1] = f[i - 1]
          BY <2>4, <4>1
        <5>2. h[i] = g[i]
          BY <2>5, <3>2
        <5>3. PICK a \in Nat, b \in Nat : a = f[n] /\ b = f[i - 1]
          BY <4>2
        <5> QED BY <1>2, <4>3, <5>1, <5>2, <5>3
      <4>5. PICK since \in Nat : since = g[i][1] /\ since <= rLast
        BY <1>6, <3>2
      <4>6. spent * RInterval + rBudget <= Full + (rLast - since) * R
        BY <1>6, <3>2, <4>3, <4>5
      <4>7. (spent + cost) * RInterval + (t - cost * RInterval) <= Full + (rNow - since) * R
        BY <1>2, <1>3, <1>4, <4>5, <4>6, Refills
      <4>8. (spent + cost) * RInterval \in Int
        BY <1>2
      <4> QED BY <1>3, <2>1, <4>4, <4>5, <4>7, <4>8
    <3> QED BY <1>3, <3>1, <3>2
  <2>10. TokensCover'
    <3>1. rBudget' <= Full
      BY <1>2, <1>4, <2>1, <2>6, <2>7
    <3>2. rKind = "token" => rRate' = BaseRate
      BY <1>5 DEF LimiterInv, TokensCover
    <3>3. Promised(rKind') = R
      BY <1>1, <1>5
    <3> QED BY <1>5, <2>2, <2>5, <2>9, <3>1, <3>2, <3>3 DEF TokensCover
  <2>11. ASSUME NEW i \in 1 .. n + 1 PROVE Kept(rKind, h, s, i, n + 1)
    <3>1. (s[n + 1] - s[i - 1]) * RInterval + rBudget' <= Full + (rNow - h[i][1]) * R
      BY <2>9
    <3>2. rBudget' \in Nat /\ (s[n + 1] - s[i - 1]) * RInterval \in Int /\ (rNow - h[i][1]) * R \in Int
      <4>1. rBudget' \in Nat
        BY <2>8 DEF LimiterTyped
      <4>2. h[i][1] \in Nat /\ (s[n + 1] - s[i - 1]) * RInterval \in Int
        BY <2>9
      <4>3. R \in Nat /\ rNow \in Nat
        BY <1>2, <1>3
      <4> QED BY <4>1, <4>2, <4>3
    <3>3. (s[n + 1] - s[i - 1]) * RInterval <= Full + (rNow - h[i][1]) * R
      BY <1>2, <3>1, <3>2
    <3>4. h[n + 1][1] = rNow
      BY <2>5
    <3> QED BY <1>1, <1>5, <3>3, <3>4 DEF Kept
  <2>12. AdmittedWithinRate'
    <3>1. cost \in Nat /\ rKind' = rKind /\ Grant(cost)
      BY <1>2, <1>5, <2>1
    <3>2. \A i \in 1 .. Len(rGrants) + 1 : Kept(rKind, rGrants', Granted(rGrants'), i, Len(rGrants) + 1)
      BY <1>1, <2>2, <2>11
    <3> QED BY <3>1, <3>2, GrantKeeps
  <2> QED BY <1>5, <1>7, <2>8, <2>10, <2>12 DEF LimiterInv, BucketCovers, WindowCovers
<1>9. CASE ~ t >= cost * RInterval
  <2>1. rBudget' = t /\ rGrants' = rGrants
    BY <1>1, <1>9 DEF TokenRequest
  <2>2. LimiterTyped'
    BY <1>3, <1>4, <1>5, <2>1 DEF LimiterInv, LimiterTyped
  <2>3. ASSUME NEW i \in 1 .. n
        PROVE  /\ g[i][1] <= rNow
               /\ (f[n] - f[i - 1]) * RInterval + t <= Full + (rNow - g[i][1]) * R
    <3>1. PICK spent \in Int, since \in Nat : spent = f[n] - f[i - 1] /\ since = g[i][1] /\ since <= rLast
      BY <1>6
    <3>2. spent * RInterval + rBudget <= Full + (rLast - since) * R
      BY <1>6, <3>1
    <3>3. 0 \in Nat
      OBVIOUS
    <3>4. (spent + 0) * RInterval + (t - 0 * RInterval) <= Full + (rNow - since) * R
      BY <1>2, <1>3, <1>4, <3>1, <3>2, <3>3, Refills
    <3>5. spent + 0 = spent /\ t - 0 * RInterval = t
      BY <1>2, <1>4
    <3> QED BY <1>3, <3>1, <3>4, <3>5
  <2>4. TokensCover'
    <3>1. rKind = "token" => rRate' = BaseRate
      BY <1>5 DEF LimiterInv, TokensCover
    <3> QED BY <1>1, <1>4, <1>5, <2>1, <2>3, <3>1 DEF TokensCover
  <2>5. AdmittedWithinRate'
    BY <1>5, <2>1, NothingGranted
  <2> QED BY <1>5, <1>7, <2>2, <2>4, <2>5 DEF LimiterInv, BucketCovers, WindowCovers
<1> QED BY <1>8, <1>9

LEMMA AdjustStep ==
    ASSUME LimiterInv, NEW r \in RRates, AdjustRate(r)
    PROVE  LimiterInv'
<1>1. /\ rRate' \in RRates /\ rKind = "adaptive"
      /\ UNCHANGED <<rKind, rNow, rBudget, rLast, rStamps, rExpiry, rGrants>>
  BY DEF AdjustRate
<1>2. AdmittedWithinRate'
  BY <1>1, NothingGranted
<1>3. LimiterTyped'
  BY <1>1 DEF LimiterInv, LimiterTyped
<1>4. TokensCover'
  BY <1>1 DEF LimiterInv, TokensCover, Promised
<1> QED BY <1>1, <1>2, <1>3, <1>4 DEF LimiterInv, BucketCovers, WindowCovers

\* What counts one for each grant does so with one more.
LEMMA CountsGrow ==
    ASSUME LimiterTyped, CountsGrants, Grant(1)
    PROVE  CountsGrants'
<1>1. PICK g, h, n : g = rGrants /\ h = rGrants' /\ n = Len(g)
  OBVIOUS
<1>2. /\ n \in Nat /\ Len(h) = n + 1 /\ \A k \in 0 .. n : Granted(h)[k] = Granted(g)[k]
      /\ Granted(h)[n + 1] = Granted(g)[n] + 1
  BY <1>1, GrantsGrow DEF Grown
<1>3. \A k \in 0 .. n : Granted(g)[k] = k
  BY <1>1 DEF CountsGrants
<1>4. \A k \in 0 .. n + 1 : Granted(h)[k] = k
  <2>1. n \in 0 .. n
    BY <1>2
  <2>2. Granted(h)[n + 1] = n + 1
    BY <1>2, <1>3, <2>1
  <2> QED BY <1>2, <1>3, <2>2
<1> QED BY <1>1, <1>2, <1>4 DEF CountsGrants

LEMMA LeakyStep ==
    ASSUME LimiterInv, LeakyRequest
    PROVE  LimiterInv'
<1>1. /\ rKind = "leaky" /\ rLast' = rLast + Leaks * RInterval
      /\ UNCHANGED <<rKind, rNow, rRate, rBudget, rExpiry>>
  BY DEF LeakyRequest
<1>2. LimiterTyped /\ CountsGrants
  BY <1>1 DEF LimiterInv, BucketCovers
<1>3. PICK out, len : out = Leaks /\ len = Len(rStamps)
  OBVIOUS
<1>4. PICK leaked \in Nat : rLast = leaked * RInterval /\ Len(rGrants) = len + leaked
  BY <1>1, <1>3 DEF LimiterInv, BucketCovers
<1>5. /\ len \in Nat /\ rNow \in Nat /\ rLast \in Nat /\ rLast <= rNow
      /\ RInterval \in Nat /\ RInterval > 0 /\ RCapacity \in Nat
  BY <1>2, <1>3, LimiterAssumption DEF LimiterTyped
<1>6. /\ out \in 0 .. len /\ out * RInterval <= rNow - rLast
  <2>1. PICK q : q = (rNow - rLast) \div RInterval
    OBVIOUS
  <2>2. q \in Nat /\ q * RInterval <= rNow - rLast
    BY <1>5, <2>1
  <2>3. out \in Nat /\ out <= len /\ out <= q
    BY <1>3, <1>5, <2>1, <2>2 DEF Leaks, AtMost
  <2>4. out * RInterval <= q * RInterval
    <3>1. PICK d \in Nat : q = out + d
      BY <2>2, <2>3
    <3>2. q * RInterval = out * RInterval + d * RInterval /\ d * RInterval \in Nat /\ out * RInterval \in Nat
      BY <1>5, <2>3, <3>1
    <3> QED BY <3>2
  <2>5. out * RInterval \in Nat /\ q * RInterval \in Nat
    BY <1>5, <2>2, <2>3
  <2> QED BY <1>5, <2>2, <2>3, <2>4, <2>5
<1>7. PICK left, room : left = Leaked /\ room = Len(left)
  OBVIOUS
<1>8. left \in Seq(Nat) /\ room = len - out
  BY <1>2, <1>3, <1>5, <1>6, <1>7 DEF Leaked, LimiterTyped
<1>9. PICK gone : gone = leaked + out
  OBVIOUS
<1>10. gone \in Nat /\ rLast' = gone * RInterval /\ rLast' \in Nat /\ rLast' <= rNow
  <2>1. gone \in Nat /\ (leaked + out) * RInterval = leaked * RInterval + out * RInterval
    BY <1>5, <1>6, <1>9
  <2>2. out * RInterval \in Nat
    BY <1>5, <1>6
  <2>3. rLast' = rLast + out * RInterval
    BY <1>1, <1>3
  <2> QED BY <1>4, <1>5, <1>6, <1>9, <2>1, <2>2, <2>3
<1>11. Len(rGrants) = room + gone
  BY <1>4, <1>5, <1>6, <1>8, <1>9
<1>12. CASE room < RCapacity
  <2>1. rStamps' = Append(left, rNow) /\ Grant(1)
    BY <1>7, <1>12 DEF LeakyRequest
  <2>2. PICK g, h, n : g = rGrants /\ h = rGrants' /\ n = Len(g)
    OBVIOUS
  <2>3. /\ n \in Nat /\ h \in AllGrants /\ Len(h) = n + 1 /\ h[n + 1] = <<rNow, 1>>
    BY <1>2, <2>1, <2>2, GrantsGrow DEF Grown
  <2>4. CountsGrants'
    BY <1>2, <2>1, CountsGrow
  <2>5. rStamps' \in Seq(Nat) /\ Len(rStamps') = room + 1
    <3>1. Append(left, rNow) \in Seq(Nat) /\ Len(Append(left, rNow)) = room + 1
      <4>1. left \in Seq(Nat) /\ rNow \in Nat /\ Len(left) = room
        BY <1>5, <1>7, <1>8
      <4> QED BY <4>1
    <3> QED BY <2>1, <3>1
  <2>6. LimiterTyped'
    BY <1>1, <1>2, <1>10, <2>2, <2>3, <2>5 DEF LimiterTyped
  <2>7. BucketCovers'
    <3>1. Len(rGrants') = Len(rStamps') + gone
      <4>1. Len(rGrants') = Len(rGrants) + 1 /\ Len(rStamps') = room + 1
        BY <2>2, <2>3, <2>5
      <4>2. PICK many \in Nat : many = room
        BY <1>5, <1>6, <1>8
      <4> QED BY <1>10, <1>11, <4>1, <4>2
    <3> QED BY <1>10, <2>4, <3>1 DEF BucketCovers
  <2>8. n + 1 <= RCapacity + rNow \div RInterval
    <3>1. PICK q : q = rNow \div RInterval
      OBVIOUS
    <3>2. q \in Nat /\ rNow < (q + 1) * RInterval
      BY <1>5, <3>1
    <3>3. gone <= q
      <4> SUFFICES ASSUME gone > q PROVE FALSE
        BY <1>10, <3>2
      <4>1. PICK d \in Nat : gone = (q + 1) + d
        BY <1>10, <3>2
      <4>2. gone * RInterval = (q + 1) * RInterval + d * RInterval /\ d * RInterval \in Nat
        BY <1>5, <3>2, <4>1
      <4>3. (q + 1) * RInterval \in Nat
        BY <1>5, <3>2
      <4> QED BY <1>5, <1>10, <3>2, <4>2, <4>3
    <3> QED BY <1>5, <1>6, <1>8, <1>10, <1>11, <1>12, <2>2, <3>1, <3>2, <3>3
  <2>9. ASSUME NEW i \in 1 .. n + 1 PROVE Kept(rKind, h, Granted(h), i, n + 1)
    <3>1. Granted(h)[n + 1] = n + 1 /\ Granted(h)[0] = 0
      BY <2>2, <2>3, <2>4 DEF CountsGrants
    <3>2. h[n + 1][1] = rNow
      BY <2>3
    <3>3. Granted(h)[n + 1] - Granted(h)[0] <= RCapacity + h[n + 1][1] \div RInterval
      BY <2>3, <2>8, <3>1, <3>2
    <3> QED BY <1>1, <3>3 DEF Kept
  <2>10. AdmittedWithinRate'
    <3>1. 1 \in Nat /\ rKind' = rKind /\ Grant(1)
      BY <1>1, <2>1
    <3>2. \A i \in 1 .. Len(rGrants) + 1 : Kept(rKind, rGrants', Granted(rGrants'), i, Len(rGrants) + 1)
      BY <2>2, <2>9
    <3> QED BY <3>1, <3>2, GrantKeeps
  <2> QED BY <1>1, <2>6, <2>7, <2>10 DEF LimiterInv, TokensCover, WindowCovers
<1>13. CASE ~ room < RCapacity
  <2>1. rStamps' = left /\ rGrants' = rGrants
    BY <1>7, <1>13 DEF LeakyRequest
  <2>2. LimiterTyped'
    BY <1>1, <1>2, <1>8, <1>10, <2>1 DEF LimiterTyped
  <2>3. BucketCovers'
    <3>1. Len(rGrants') = Len(rStamps') + gone
      BY <1>7, <1>11, <2>1
    <3>2. CountsGrants'
      BY <1>2, <2>1 DEF CountsGrants
    <3> QED BY <1>10, <3>1, <3>2 DEF BucketCovers
  <2>4. AdmittedWithinRate'
    BY <1>1, <2>1, NothingGranted
  <2> QED BY <1>1, <2>2, <2>3, <2>4 DEF LimiterInv, TokensCover, WindowCovers
<1> QED BY <1>12, <1>13

\* Times in order that are in the window come after those that are not.
LEMMA WindowIsEnd ==
    ASSUME LimiterTyped, NEW n, n = Len(rStamps),
           \A x \in 1 .. n : rStamps[x] <= rNow,
           \A x \in 1 .. n, y \in 1 .. n : x <= y => rStamps[x] <= rStamps[y]
    PROVE  \E m \in 0 .. n : \A x \in 1 .. n : rStamps[x] \in Within <=> x > m
<1>1. PICK s : s = rStamps
  OBVIOUS
<1>2. /\ s \in Seq(Nat) /\ n \in Nat /\ rNow \in Nat /\ RWindow \in Nat /\ \A x \in 1 .. n : s[x] \in Nat
  BY <1>1, LimiterAssumption DEF LimiterTyped
<1>3. \A x \in 1 .. n : s[x] \in Within <=> s[x] > rNow - RWindow
  BY <1>1, <1>2 DEF Within
<1>4. PICK T : T = {x \in 1 .. n : s[x] \in Within}
  OBVIOUS
<1>5. CASE T = {}
  <2>1. n \in 0 .. n /\ \A x \in 1 .. n : s[x] \in Within <=> x > n
    BY <1>2, <1>4, <1>5
  <2> QED BY <1>1, <2>1
<1>6. CASE T # {}
  <2>1. T \in SUBSET Nat
    BY <1>4
  <2>2. PICK first \in T : \A y \in T : first <= y
    BY <1>6, <2>1, LeastNumber
  <2>3. first \in 1 .. n /\ s[first] > rNow - RWindow
    BY <1>3, <1>4, <2>2
  <2>4. ASSUME NEW x \in 1 .. n PROVE s[x] \in Within <=> x > first - 1
    <3>1. CASE x >= first
      <4>1. s[first] <= s[x] /\ s[x] \in Nat /\ s[first] \in Nat
        BY <1>1, <1>2, <2>3, <3>1
      <4>2. s[x] > rNow - RWindow
        BY <1>2, <2>3, <4>1
      <4> QED BY <1>3, <2>3, <3>1, <4>2
    <3>2. CASE ~ x >= first
      <4>1. x \notin T
        BY <2>2, <2>3, <3>2
      <4> QED BY <1>4, <2>3, <3>2, <4>1
    <3> QED BY <3>1, <3>2
  <2>5. first - 1 \in 0 .. n
    BY <1>2, <2>3
  <2> QED BY <1>1, <2>4, <2>5
<1> QED BY <1>5, <1>6

\* The times of seq are the end of the grants, and those before it are out of the window.
EndOfGrants(seq, grants) ==
    /\ seq \in Seq(Nat)
    /\ \E out \in 0 .. Len(grants) :
          /\ Len(seq) = Len(grants) - out
          /\ \A x \in 1 .. Len(seq) : seq[x] = grants[out + x][1]
          /\ \A i \in 1 .. out : grants[i][1] <= rNow - RWindow

\* The requests still in the window are the end of the grants, and all that are.
LEMMA WindowSlides ==
    ASSUME LimiterInv, rKind \in {"window", "redis"}
    PROVE  EndOfGrants(KeepOnly(rStamps, Within), rGrants)
<1>0. PICK g, n, recent : g = rGrants /\ n = Len(g) /\ recent = KeepOnly(rStamps, Within)
  OBVIOUS
<1>1. PICK s, l : s = rStamps /\ l = Len(s)
  OBVIOUS
<1>2. /\ s \in Seq(Nat) /\ l \in Nat /\ n \in Nat /\ rNow \in Nat /\ RWindow \in Nat
      /\ LimiterTyped
  BY <1>0, <1>1, LimiterAssumption DEF LimiterInv, LimiterTyped, AllGrants
<1>3. PICK out \in 0 .. n : /\ l = n - out
                            /\ \A x \in 1 .. l : s[x] = g[out + x][1]
                            /\ \A i \in 1 .. out : g[i][1] <= rNow - RWindow
  BY <1>0, <1>1 DEF LimiterInv, WindowCovers
<1>4. /\ \A i \in 1 .. n : g[i][1] <= rNow
      /\ \A i \in 1 .. n, j \in 1 .. n : i <= j => g[i][1] <= g[j][1]
  BY <1>0 DEF LimiterInv, WindowCovers
<1>5. \A x \in 1 .. l : out + x \in 1 .. n
  BY <1>2, <1>3
<1>6. /\ \A x \in 1 .. l : s[x] <= rNow
      /\ \A x \in 1 .. l, y \in 1 .. l : x <= y => s[x] <= s[y]
  <2>1. ASSUME NEW x \in 1 .. l, NEW y \in 1 .. l, x <= y PROVE s[x] <= s[y]
    <3>1. out + x \in 1 .. n /\ out + y \in 1 .. n /\ out + x <= out + y
      BY <1>2, <1>3, <2>1
    <3> QED BY <1>3, <1>4, <3>1
  <2> QED BY <1>3, <1>4, <1>5, <2>1
<1>7. PICK m \in 0 .. l : \A x \in 1 .. l : s[x] \in Within <=> x > m
  BY <1>1, <1>2, <1>6, WindowIsEnd
<1>8. /\ recent \in Seq(Nat) /\ Len(recent) = l - m
      /\ \A x \in 1 .. l - m : recent[x] = s[m + x]
  <2>1. PICK W : W = Within
    OBVIOUS
  <2>2. m \in 0 .. Len(s) /\ EndsIn(s, W, m)
    BY <1>1, <1>7, <2>1 DEF EndsIn
  <2>3. /\ KeepOnly(s, W) \in Seq(Nat)
        /\ Len(KeepOnly(s, W)) = Len(s) - m
        /\ \A x \in 1 .. Len(s) - m : KeepOnly(s, W)[x] = s[m + x]
    BY <1>2, <2>2, SelectionOfEnd
  <2> QED BY <1>0, <1>1, <2>1, <2>3
<1>9. PICK end : end = out + m
  OBVIOUS
<1>10. end \in 0 .. n /\ Len(recent) = n - end
  BY <1>2, <1>3, <1>7, <1>8, <1>9
<1>11. ASSUME NEW x \in 1 .. Len(recent) PROVE recent[x] = g[end + x][1]
  <2>1. x \in 1 .. l - m /\ m + x \in 1 .. l /\ out + (m + x) = end + x
    BY <1>2, <1>3, <1>7, <1>8, <1>9
  <2> QED BY <1>3, <1>8, <2>1
<1>12. ASSUME NEW i \in 1 .. end PROVE g[i][1] <= rNow - RWindow
  <2>1. CASE i <= out
    BY <1>3, <2>1
  <2>2. CASE ~ i <= out
    <3>1. PICK x : x = i - out
      OBVIOUS
    <3>2. x \in 1 .. l /\ ~ x > m /\ out + x = i
      BY <1>2, <1>3, <1>7, <1>9, <2>2, <3>1
    <3>3. s[x] = g[i][1] /\ s[x] \in Nat /\ s[x] <= rNow
      <4>1. s[x] = g[out + x][1] /\ s[x] <= rNow
        BY <1>3, <1>6, <3>2
      <4>2. s[x] = g[i][1]
        BY <3>2, <4>1
      <4>3. s[x] \in Nat
        BY <1>1, <1>2, <3>2
      <4> QED BY <4>1, <4>2, <4>3
    <3>4. s[x] \notin Within
      BY <1>7, <3>2
    <3> QED BY <1>2, <3>3, <3>4 DEF Within
  <2> QED BY <2>1, <2>2
<1> QED BY <1>0, <1>2, <1>8, <1>10, <1>11, <1>12 DEF EndOfGrants

\* A request is let through when fewer than the maximum are in the window.
LEMMA WindowMoves ==
    ASSUME LimiterInv, rKind \in {"window", "redis"},
           UNCHANGED <<rKind, rNow, rRate, rBudget, rLast>>,
           NEW recent, recent = KeepOnly(rStamps, Within),
           \/ /\ Len(recent) < RCapacity /\ rStamps' = Append(recent, rNow) /\ Grant(1)
              /\ rExpiry' = IF rKind = "redis" THEN rNow + RWindow + 1 ELSE rExpiry
           \/ rStamps' = recent /\ UNCHANGED <<rExpiry, rGrants>>
    PROVE  LimiterInv'
<1>1. PICK g, n : g = rGrants /\ n = Len(g)
  OBVIOUS
<1>2. /\ LimiterTyped /\ CountsGrants /\ rNow \in Nat /\ rExpiry \in Nat
      /\ RWindow \in Nat /\ RCapacity \in Nat /\ g \in AllGrants
  BY <1>1, LimiterAssumption DEF LimiterInv, LimiterTyped, WindowCovers
<1>3. /\ \A i \in 1 .. n : g[i][1] <= rNow
      /\ \A i \in 1 .. n, j \in 1 .. n : i <= j => g[i][1] <= g[j][1]
      /\ rKind = "redis" => \A i \in 1 .. n : g[i][1] + RWindow < rExpiry
  BY <1>1 DEF LimiterInv, WindowCovers
<1>4. /\ recent \in Seq(Nat) /\ n \in Nat
      /\ \E out \in 0 .. n :
            /\ Len(recent) = n - out
            /\ \A x \in 1 .. Len(recent) : recent[x] = g[out + x][1]
            /\ \A i \in 1 .. out : g[i][1] <= rNow - RWindow
  <2>1. EndOfGrants(recent, g)
    BY <1>1, WindowSlides
  <2>2. n \in Nat
    BY <1>1, <1>2 DEF AllGrants
  <2> QED BY <1>1, <2>1, <2>2 DEF EndOfGrants
<1>5. PICK out \in 0 .. n :
            /\ Len(recent) = n - out
            /\ \A x \in 1 .. Len(recent) : recent[x] = g[out + x][1]
            /\ \A i \in 1 .. out : g[i][1] <= rNow - RWindow
  BY <1>4
<1>6. rKind \notin {"token", "adaptive", "leaky"}
  OBVIOUS
<1>7. ASSUME Len(recent) < RCapacity, rStamps' = Append(recent, rNow), Grant(1),
             rExpiry' = IF rKind = "redis" THEN rNow + RWindow + 1 ELSE rExpiry
      PROVE  LimiterInv'
  <2>1. PICK h, stamps, l : h = rGrants' /\ stamps = Append(recent, rNow) /\ l = Len(recent)
    OBVIOUS
  <2>2. /\ h \in AllGrants /\ Len(h) = n + 1 /\ h[n + 1] = <<rNow, 1>>
        /\ \A k \in 1 .. n : h[k] = g[k]
    <3>1. 1 \in Nat /\ LimiterTyped /\ Grant(1) /\ g = rGrants /\ h = rGrants' /\ n = Len(g)
      BY <1>1, <1>2, <1>7, <2>1
    <3> QED BY <3>1, GrantsGrow DEF Grown
  <2>3. CountsGrants'
    BY <1>2, <1>7, CountsGrow
  <2>4. /\ stamps \in Seq(Nat) /\ l \in Nat /\ Len(stamps) = l + 1 /\ stamps[l + 1] = rNow
        /\ \A x \in 1 .. l : stamps[x] = recent[x]
    <3>1. recent \in Seq(Nat) /\ rNow \in Nat /\ Len(recent) = l
      BY <1>2, <1>4, <2>1
    <3> QED BY <2>1, <3>1
  <2>5. l = n - out /\ l < RCapacity /\ out \in Nat /\ out <= n
    BY <1>4, <1>5, <1>7, <2>1
  <2>6. LimiterTyped'
    BY <1>2, <1>7, <2>1, <2>2, <2>4 DEF LimiterTyped
  <2>7. ASSUME NEW i \in 1 .. n + 1 PROVE h[i][1] <= rNow
    <3>1. CASE i = n + 1
      BY <1>2, <2>2, <3>1
    <3>2. CASE i \in 1 .. n
      BY <1>3, <2>2, <3>2
    <3> QED BY <1>4, <3>1, <3>2
  <2>8. ASSUME NEW i \in 1 .. n + 1, NEW j \in 1 .. n + 1, i <= j PROVE h[i][1] <= h[j][1]
    <3>1. CASE j = n + 1
      BY <2>2, <2>7, <3>1
    <3>2. CASE j # n + 1
      <4>1. i \in 1 .. n /\ j \in 1 .. n
        BY <1>4, <2>8, <3>2
      <4> QED BY <1>3, <2>2, <2>8, <4>1
    <3> QED BY <3>1, <3>2
  <2>9. ASSUME NEW x \in 1 .. l + 1 PROVE stamps[x] = h[out + x][1]
    <3>1. CASE x = l + 1
      <4>1. out + x = n + 1
        BY <1>4, <2>5, <3>1
      <4> QED BY <2>2, <2>4, <3>1, <4>1
    <3>2. CASE x \in 1 .. l
      <4>1. out + x \in 1 .. n
        BY <1>4, <2>5, <3>2
      <4>2. recent[x] = g[out + x][1]
        BY <1>5, <2>1, <3>2
      <4> QED BY <2>2, <2>4, <3>2, <4>1, <4>2
    <3> QED BY <2>4, <3>1, <3>2
  <2>10. ASSUME NEW i \in 1 .. out PROVE h[i][1] <= rNow - RWindow
    <3>1. i \in 1 .. n
      BY <1>4, <2>5
    <3> QED BY <1>5, <2>2, <3>1
  <2>11. rKind = "redis" => \A i \in 1 .. n + 1 : h[i][1] + RWindow < rExpiry'
    <3> SUFFICES ASSUME rKind = "redis", NEW i \in 1 .. n + 1
                 PROVE  h[i][1] + RWindow < rExpiry'
      OBVIOUS
    <3>1. h[i] \in Nat \X Nat
      BY <1>4, <2>2 DEF AllGrants
    <3>2. h[i][1] \in Nat /\ h[i][1] <= rNow /\ rExpiry' = rNow + RWindow + 1
      BY <1>7, <2>7, <3>1
    <3> QED BY <1>2, <3>2
  <2>12. WindowCovers'
    <3>1. out \in 0 .. n + 1 /\ Len(stamps) = (n + 1) - out
      BY <1>4, <2>4, <2>5
    <3>2. /\ Len(rGrants') = n + 1 /\ rGrants' = h /\ rStamps' = stamps /\ Len(stamps) = l + 1
          /\ rNow' = rNow /\ rKind' = rKind
      BY <1>7, <2>1, <2>2, <2>4
    <3>3. \E o \in 0 .. n + 1 :
              /\ Len(stamps) = (n + 1) - o
              /\ \A x \in 1 .. Len(stamps) : stamps[x] = h[o + x][1]
              /\ \A i \in 1 .. o : h[i][1] <= rNow - RWindow
      BY <2>9, <2>10, <3>1, <3>2
    <3> QED BY <2>3, <2>7, <2>8, <2>11, <3>2, <3>3 DEF WindowCovers
  <2>13. ASSUME NEW i \in 1 .. n + 1 PROVE Kept(rKind, h, Granted(h), i, n + 1)
    <3>1. Granted(h)[n + 1] = n + 1 /\ Granted(h)[i - 1] = i - 1
      <4>1. n + 1 \in 0 .. Len(h) /\ i - 1 \in 0 .. Len(h)
        BY <1>4, <2>2
      <4> QED BY <2>1, <2>3, <4>1 DEF CountsGrants
    <3>2. ASSUME h[n + 1][1] - h[i][1] < RWindow PROVE (n + 1) - (i - 1) <= RCapacity
      <4>1. h[i] \in Nat \X Nat
        BY <1>4, <2>2 DEF AllGrants
      <4>2. h[i][1] \in Nat /\ h[n + 1][1] = rNow
        BY <2>2, <4>1
      <4>3. i \notin 1 .. out
        BY <1>2, <2>10, <3>2, <4>2
      <4> QED BY <1>2, <1>4, <2>5, <4>3
    <3> QED BY <1>6, <3>1, <3>2 DEF Kept
  <2>14. AdmittedWithinRate'
    <3>1. 1 \in Nat /\ rKind' = rKind /\ Grant(1)
      BY <1>7
    <3>2. \A i \in 1 .. Len(rGrants) + 1 : Kept(rKind, rGrants', Granted(rGrants'), i, Len(rGrants) + 1)
      BY <1>1, <2>1, <2>13
    <3> QED BY <3>1, <3>2, GrantKeeps
  <2> QED BY <1>6, <2>6, <2>12, <2>14 DEF LimiterInv, TokensCover, BucketCovers
<1>8. ASSUME rStamps' = recent, UNCHANGED <<rExpiry, rGrants>>
      PROVE  LimiterInv'
  <2>1. LimiterTyped'
    BY <1>2, <1>4, <1>8 DEF LimiterTyped
  <2>2. AdmittedWithinRate'
    BY <1>8, NothingGranted
  <2>3. CountsGrants'
    BY <1>2, <1>8 DEF CountsGrants
  <2>4. WindowCovers'
    BY <1>1, <1>3, <1>4, <1>8, <2>3 DEF WindowCovers
  <2> QED BY <1>6, <2>1, <2>2, <2>4 DEF LimiterInv, TokensCover, BucketCovers
<1> QED BY <1>7, <1>8

LEMMA WindowStep ==
    ASSUME LimiterInv, WindowRequest
    PROVE  LimiterInv'
<1>1. PICK recent : recent = KeepOnly(rStamps, Within)
  OBVIOUS
<1>2. /\ rKind = "window" /\ UNCHANGED <<rKind, rNow, rRate, rBudget, rLast, rExpiry>>
      /\ \/ Len(recent) < RCapacity /\ rStamps' = Append(recent, rNow) /\ Grant(1)
         \/ rStamps' = recent /\ UNCHANGED rGrants
  BY <1>1 DEF WindowRequest
<1> QED BY <1>1, <1>2, WindowMoves

\* A time no client has read before is not in the set yet.
LEMMA RedisStep ==
    ASSUME LimiterInv, RedisRequest, ~ RStale
    PROVE  LimiterInv'
<1>1. PICK recent : recent = KeepOnly(rStamps, Within)
  OBVIOUS
<1>2. /\ rKind = "redis" /\ UNCHANGED <<rKind, rNow, rRate, rBudget, rLast>>
      /\ \A g \in 1 .. Len(rGrants) : rGrants[g][1] # rNow
      /\ \/ /\ Len(recent) < RCapacity /\ Grant(1) /\ rExpiry' = rNow + RWindow + 1
            /\ rStamps' = IF rNow \in Members THEN recent ELSE Append(recent, rNow)
         \/ rStamps' = recent /\ UNCHANGED <<rExpiry, rGrants>>
  BY <1>1 DEF RedisRequest
<1>3. rNow \notin Members
  <2>1. PICK out \in 0 .. Len(rGrants) :
               /\ Len(rStamps) = Len(rGrants) - out
               /\ \A x \in 1 .. Len(rStamps) : rStamps[x] = rGrants[out + x][1]
    BY <1>2 DEF LimiterInv, WindowCovers
  <2>2. Len(rGrants) \in Nat
    BY DEF LimiterInv, LimiterTyped, AllGrants
  <2>3. ASSUME NEW x \in 1 .. Len(rStamps) PROVE rStamps[x] # rNow
    <3>1. out + x \in 1 .. Len(rGrants)
      BY <2>1, <2>2
    <3> QED BY <1>2, <2>1, <3>1
  <2> QED BY <2>3 DEF Members
<1>4. \/ /\ Len(recent) < RCapacity /\ rStamps' = Append(recent, rNow) /\ Grant(1)
         /\ rExpiry' = IF rKind = "redis" THEN rNow + RWindow + 1 ELSE rExpiry
      \/ rStamps' = recent /\ UNCHANGED <<rExpiry, rGrants>>
  BY <1>2, <1>3
<1>5. rKind \in {"window", "redis"}
  BY <1>2
<1> QED BY <1>1, <1>2, <1>4, <1>5, WindowMoves

\* Redis drops the set only when all its requests are out of the window.
LEMMA TickStep ==
    ASSUME LimiterInv, Tick
    PROVE  LimiterInv'
<1>1. /\ rNow' = rNow + 1 /\ UNCHANGED <<rKind, rRate, rBudget, rLast, rExpiry, rGrants>>
      /\ rStamps' = IF rKind = "redis" /\ rNow + 1 > rExpiry THEN << >> ELSE rStamps
  BY DEF Tick
<1>2. << >> \in Seq(Nat) /\ Len(<< >>) = 0
  OBVIOUS
<1>3. LimiterTyped'
  BY <1>1, <1>2 DEF LimiterInv, LimiterTyped
<1>4. AdmittedWithinRate'
  BY <1>1, NothingGranted
<1>5. TokensCover'
  BY <1>1 DEF LimiterInv, TokensCover
<1>6. BucketCovers'
  BY <1>1 DEF LimiterInv, BucketCovers, CountsGrants
<1>7. WindowCovers'
  <2> SUFFICES ASSUME rKind \in {"window", "redis"} PROVE WindowCovers'
    BY <1>1 DEF WindowCovers
  <2>1. PICK g, n : g = rGrants /\ n = Len(g)
    OBVIOUS
  <2>2. /\ g \in AllGrants /\ n \in Nat /\ rNow \in Nat /\ rExpiry \in Nat /\ RWindow \in Nat
    BY <2>1, LimiterAssumption DEF LimiterInv, LimiterTyped, AllGrants
  <2>3. \A i \in 1 .. n : g[i][1] \in Nat
    <3> SUFFICES ASSUME NEW i \in 1 .. n PROVE g[i][1] \in Nat
      OBVIOUS
    <3>1. g[i] \in Nat \X Nat
      BY <2>1, <2>2 DEF AllGrants
    <3> QED BY <3>1
  <2>4. /\ CountsGrants'
        /\ \A i \in 1 .. n : g[i][1] <= rNow'
        /\ \A i \in 1 .. n, j \in 1 .. n : i <= j => g[i][1] <= g[j][1]
        /\ rKind = "redis" => \A i \in 1 .. n : g[i][1] + RWindow < rExpiry
    <3>1. CountsGrants'
      BY <1>1 DEF LimiterInv, WindowCovers, CountsGrants
    <3>2. \A i \in 1 .. n : g[i][1] <= rNow
      BY <2>1 DEF LimiterInv, WindowCovers
    <3>3. \A i \in 1 .. n : g[i][1] <= rNow'
      BY <1>1, <2>2, <2>3, <3>2
    <3> QED BY <2>1, <3>1, <3>3 DEF LimiterInv, WindowCovers
  <2>5. \E out \in 0 .. n :
           /\ Len(rStamps') = n - out
           /\ \A x \in 1 .. Len(rStamps') : rStamps'[x] = g[out + x][1]
           /\ \A i \in 1 .. out : g[i][1] <= rNow' - RWindow
    <3>1. CASE rKind = "redis" /\ rNow + 1 > rExpiry
      <4>1. n \in 0 .. n /\ Len(rStamps') = n - n /\ Len(rStamps') = 0
        BY <1>1, <1>2, <2>2, <3>1
      <4>2. \A i \in 1 .. n : g[i][1] <= rNow' - RWindow
        BY <1>1, <2>2, <2>3, <2>4, <3>1
      <4> QED BY <4>1, <4>2
    <3>2. CASE ~ (rKind = "redis" /\ rNow + 1 > rExpiry)
      <4>1. rStamps' = rStamps
        BY <1>1, <3>2
      <4>2. PICK out \in 0 .. n : /\ Len(rStamps) = n - out
                                  /\ \A x \in 1 .. Len(rStamps) : rStamps[x] = g[out + x][1]
                                  /\ \A i \in 1 .. out : g[i][1] <= rNow - RWindow
        BY <2>1 DEF LimiterInv, WindowCovers
      <4>3. ASSUME NEW i \in 1 .. out PROVE g[i][1] <= rNow' - RWindow
        <5>1. i \in 1 .. n
          BY <2>2
        <5> QED BY <1>1, <2>2, <2>3, <4>2, <5>1
      <4> QED BY <4>1, <4>2, <4>3
    <3> QED BY <3>1, <3>2
  <2> QED BY <1>1, <2>1, <2>4, <2>5 DEF WindowCovers
<1> QED BY <1>3, <1>4, <1>5, <1>6, <1>7 DEF LimiterInv

\* In no stretch of time does a limiter let through more than it promises, at
\* whatever moments requests come and rates change (rate_limiter.py:22, 157 and
\* 183): the window of Redis where no two clients read one time, without which
\* two requests are one member of the set.
THEOREM RatesAreKept ==
    ASSUME RStale => "redis" \notin RKinds
    PROVE  RSpec => []AdmittedWithinRate
<1>1. RInit => LimiterInv
  BY LimiterStarts
<1>2. LimiterInv /\ [RNext]_rVars => LimiterInv'
  <2> SUFFICES ASSUME LimiterInv, [RNext]_rVars PROVE LimiterInv'
    OBVIOUS
  <2>1. ASSUME NEW cost \in RCosts, TokenRequest(cost) PROVE LimiterInv'
    BY <2>1, TokenStep
  <2>2. CASE LeakyRequest
    BY <2>2, LeakyStep
  <2>3. CASE WindowRequest
    BY <2>3, WindowStep
  <2>4. CASE RedisRequest
    <3>1. rKind = "redis" /\ rKind \in RKinds
      BY <2>4 DEF RedisRequest, LimiterInv, LimiterTyped
    <3> QED BY <2>4, <3>1, RedisStep
  <2>5. CASE Tick
    BY <2>5, TickStep
  <2>6. ASSUME NEW r \in RRates, AdjustRate(r) PROVE LimiterInv'
    BY <2>6, AdjustStep
  <2>7. CASE UNCHANGED rVars
    <3>1. UNCHANGED <<rKind, rNow, rRate, rBudget, rLast, rStamps, rExpiry, rGrants>>
      BY <2>7 DEF rVars
    <3>2. AdmittedWithinRate'
      BY <3>1, NothingGranted
    <3> QED BY <3>1, <3>2 DEF LimiterInv, LimiterTyped, TokensCover, BucketCovers, WindowCovers, CountsGrants
  <2> QED BY <2>1, <2>2, <2>3, <2>4, <2>5, <2>6, <2>7 DEF RNext, Request
<1>3. LimiterInv => AdmittedWithinRate
  BY DEF LimiterInv
<1> QED BY <1>1, <1>2, <1>3, PTL DEF RSpec

-----------------------------------------------------------------------------
(* Bloom filters.                                                           *)

LEMMA ScaleIsPositive ==
    ASSUME NEW n \in Nat
    PROVE  Scale(n) \in Nat \ {0}
<1> DEFINE V == Nat \ {0}
           step == [j \in Nat |-> [x \in V |-> 2 * x]]
           Loop(m) == m = [j \in 0 .. n |-> IF j = 0 THEN 1 ELSE 2 * m[j - 1]]
<1>1. step \in [Nat -> [V -> V]] /\ 1 \in V
  OBVIOUS
<1>2. PICK m \in [0 .. n -> V] : Stepwise(m, n, V, 1, step)
  <2> HIDE DEF V, step
  <2> QED BY <1>1, RecursionDefines
<1>3. Loop(m)
  <2>1. ASSUME NEW j \in 0 .. n PROVE m[j] = IF j = 0 THEN 1 ELSE 2 * m[j - 1]
    <3>1. CASE j = 0
      BY <1>2, <3>1 DEF Stepwise
    <3>2. CASE j # 0
      <4>1. j \in 1 .. n /\ j - 1 \in 0 .. n /\ j \in Nat
        BY <3>2
      <4>2. m[j] = step[j][m[j - 1]] /\ m[j - 1] \in V
        BY <1>2, <4>1 DEF Stepwise
      <4> QED BY <3>2, <4>1, <4>2
    <3> QED BY <3>1, <3>2
  <2>2. m = [j \in 0 .. n |-> m[j]]
    OBVIOUS
  <2> QED BY <2>1, <2>2
<1>4. PICK f : f = CHOOSE g : Loop(g)
  OBVIOUS
<1>5. Loop(f)
  <2> HIDE DEF Loop
  <2> QED BY <1>3, <1>4
<1>6. Scale(n) = f[n]
  BY <1>4 DEF Scale
<1>7. Stepwise(f, n, V, 1, step) /\ n \in 0 .. n
  <2>1. f[0] = 1
    <3>1. 0 \in 0 .. n
      OBVIOUS
    <3> QED BY <1>5, <3>1
  <2>2. ASSUME NEW j \in 1 .. n, f[j - 1] \in V PROVE f[j] = step[j][f[j - 1]]
    <3>1. j \in 0 .. n /\ j # 0 /\ j \in Nat
      OBVIOUS
    <3>2. f[j] = 2 * f[j - 1]
      BY <1>5, <3>1
    <3> QED BY <2>2, <3>1, <3>2
  <2>3. n \in 0 .. n
    OBVIOUS
  <2> HIDE DEF V, step, Loop
  <2> QED BY <2>1, <2>2, <2>3 DEF Stepwise
<1>8. f[n] \in V
  <2> HIDE DEF V, step
  <2> QED BY <1>1, <1>7, StepsStay
<1> QED BY <1>6, <1>8

\* The hashes of e that hit bucket idx of m, for seeds <<h1, h2>>.
HashesTo(seed, m, idx) == {i \in 0 .. BHashes - 1 : (seed[1] + i * seed[2]) % m = idx}

\* What was counted in bucket idx: <<element, which of its additions, hash>>.
Counted(seeds, added, m, idx) ==
    {p \in BElements \X Nat \X (0 .. BHashes - 1) :
        p[2] \in 1 .. added[p[1]] /\ p[3] \in HashesTo(seeds[p[1]], m, idx)}

LEMMA HashesAreFew ==
    ASSUME NEW seed, NEW m, NEW idx
    PROVE  /\ IsFiniteSet(HashesTo(seed, m, idx))
           /\ Cardinality(HashesTo(seed, m, idx)) \in Nat
           /\ Cardinality(HashesTo(seed, m, idx)) > 0 <=> HashesTo(seed, m, idx) # {}
<1>1. IsFiniteSet(0 .. BHashes - 1)
  <2>1. 0 \in Int /\ BHashes - 1 \in Int
    BY BloomAssumption
  <2> QED BY <2>1, FS_Interval
<1>2. HashesTo(seed, m, idx) \subseteq 0 .. BHashes - 1
  BY DEF HashesTo
<1>3. IsFiniteSet(HashesTo(seed, m, idx))
  BY <1>1, <1>2, FS_Subset
<1> QED BY <1>3, FS_CardinalityType, FS_EmptySet

\* more has one addition of e more than added.
Raised(added, more, e) ==
    /\ added \in [BElements -> Nat] /\ more \in [BElements -> Nat]
    /\ more = [added EXCEPT ![e] = @ + 1]

\* D has what C has and another n elements.
Larger(C, D, n) ==
    /\ IsFiniteSet(C) <=> IsFiniteSet(D)
    /\ IsFiniteSet(C) => Cardinality(D) = Cardinality(C) + n

\* One addition more counts once for each hash of the element.
LEMMA OneMore ==
    ASSUME NEW seeds, NEW added, NEW more, NEW e \in BElements, Raised(added, more, e), NEW m, NEW idx
    PROVE  Larger(Counted(seeds, added, m, idx), Counted(seeds, more, m, idx),
                  Cardinality(HashesTo(seeds[e], m, idx)))
<1>1. PICK H, C, D, c : /\ H = HashesTo(seeds[e], m, idx) /\ c = added[e] + 1
                        /\ C = Counted(seeds, added, m, idx) /\ D = Counted(seeds, more, m, idx)
  OBVIOUS
<1>2. c \in Nat /\ added[e] \in Nat /\ c = added[e] + 1 /\ more[e] = c /\ \A f \in BElements : f # e => more[f] = added[f]
  BY <1>1 DEF Raised
<1>3. H \subseteq 0 .. BHashes - 1
  BY <1>1 DEF HashesTo
<1>4. IsFiniteSet(H) /\ Cardinality(H) \in Nat
  BY <1>1, HashesAreFew
<1> DEFINE F == [h \in H |-> <<e, c, h>>]
           R == {<<e, c, h>> : h \in H}
<1>5. F \in Surjection(H, R) /\ F \in Injection(H, R)
  BY DEF Surjection, Injection, IsInjective
<1>6. IsFiniteSet(R) /\ Cardinality(R) = Cardinality(H)
  <2> HIDE DEF F, R
  <2> QED BY <1>4, <1>5, FS_Surjection
<1>7. D = C \cup R
  <2>1. ASSUME NEW p, p \in D PROVE p \in C \cup R
    <3>1. /\ p \in BElements \X Nat \X (0 .. BHashes - 1)
          /\ p[2] \in 1 .. more[p[1]] /\ p[3] \in HashesTo(seeds[p[1]], m, idx)
      BY <1>1, <2>1 DEF Counted
    <3>2. CASE p[1] = e /\ p[2] = c
      <4>1. p = <<e, c, p[3]>> /\ p[3] \in H
        BY <1>1, <3>1, <3>2
      <4> QED BY <4>1
    <3>3. CASE ~ (p[1] = e /\ p[2] = c)
      <4>1. p[2] \in 1 .. added[p[1]]
        BY <1>2, <3>1, <3>3
      <4> QED BY <1>1, <3>1, <4>1 DEF Counted
    <3> QED BY <3>2, <3>3
  <2>2. ASSUME NEW p, p \in C PROVE p \in D
    <3>1. /\ p \in BElements \X Nat \X (0 .. BHashes - 1)
          /\ p[2] \in 1 .. added[p[1]] /\ p[3] \in HashesTo(seeds[p[1]], m, idx)
      BY <1>1, <2>2 DEF Counted
    <3>2. p[2] \in 1 .. more[p[1]]
      <4>1. CASE p[1] = e
        BY <1>2, <3>1, <4>1
      <4>2. CASE p[1] # e
        BY <1>2, <3>1, <4>2
      <4> QED BY <4>1, <4>2
    <3> QED BY <1>1, <3>1, <3>2 DEF Counted
  <2>3. ASSUME NEW p, p \in R PROVE p \in D
    <3>1. PICK h \in H : p = <<e, c, h>>
      BY <2>3
    <3>2. p \in BElements \X Nat \X (0 .. BHashes - 1) /\ p[1] = e /\ p[2] = c /\ p[3] = h
      BY <1>2, <1>3, <3>1
    <3>3. p[2] \in 1 .. more[p[1]] /\ p[3] \in HashesTo(seeds[p[1]], m, idx)
      BY <1>1, <1>2, <3>1, <3>2
    <3> QED BY <1>1, <3>2, <3>3 DEF Counted
  <2> QED BY <2>1, <2>2, <2>3
<1>8. C \cap R = {}
  <2> SUFFICES ASSUME NEW p, p \in C, p \in R PROVE FALSE
    OBVIOUS
  <2>1. p[1] = e /\ p[2] = c
    OBVIOUS
  <2>2. p[2] \in 1 .. added[p[1]]
    BY <1>1 DEF Counted
  <2> QED BY <1>2, <2>1, <2>2
<1> HIDE DEF R
<1>9. IsFiniteSet(C) => IsFiniteSet(D) /\ Cardinality(D) = Cardinality(C) + Cardinality(H)
  <2> SUFFICES ASSUME IsFiniteSet(C) PROVE IsFiniteSet(D) /\ Cardinality(D) = Cardinality(C) + Cardinality(H)
    OBVIOUS
  <2>1. /\ IsFiniteSet(C \cup R)
        /\ Cardinality(C \cup R) = Cardinality(C) + Cardinality(R) - Cardinality(C \cap R)
    BY <1>6, FS_Union
  <2>2. Cardinality(C) \in Nat /\ Cardinality({}) = 0
    BY FS_CardinalityType, FS_EmptySet
  <2>3. Cardinality(C \cap R) = 0
    BY <1>8, <2>2
  <2>4. IsFiniteSet(D) /\ Cardinality(D) = Cardinality(C) + Cardinality(R) - 0
    BY <1>7, <2>1, <2>3
  <2>5. PICK x, y, z : x = Cardinality(C) /\ y = Cardinality(R) /\ z = Cardinality(D)
    OBVIOUS
  <2>6. x \in Nat /\ y \in Nat /\ z = x + y - 0
    BY <1>4, <1>6, <2>2, <2>4, <2>5
  <2>7. z = x + y
    BY <2>6
  <2> QED BY <1>6, <2>4, <2>5, <2>7
<1>10. IsFiniteSet(D) => IsFiniteSet(C)
  BY <1>7, FS_Subset
<1> QED BY <1>1, <1>9, <1>10 DEF Larger

Buckets == UNION {[0 .. k -> Nat] : k \in Int}

BLayer == [buckets : Buckets, count : Int, expected : Nat \ {0}]

\* The layer has all bits of e, and some layer does.
Has(seeds, layer, e) ==
    \A i \in DOMAIN layer.buckets :
        HashesTo(seeds[e], Cardinality(DOMAIN layer.buckets), i) # {} => layer.buckets[i] > 0

Finds(seeds, layers, e) == \E k \in 1 .. Len(layers) : Has(seeds, layers[k], e)

BTyped ==
    /\ bSeeds \in [BElements -> Int \X Int] /\ bAdded \in [BElements -> Nat]
    /\ bLayers \in Seq(BLayer) /\ Len(bLayers) > 0
    /\ bKind # "scalable" => Len(bLayers) = 1

\* A layer is left when it is full, and never earlier.
LayersFill ==
    bKind = "scalable" =>
        /\ bLayers[Len(bLayers)].count <= bLayers[Len(bLayers)].expected
        /\ \A k \in 1 .. Len(bLayers) - 1 : bLayers[k].count = bLayers[k].expected

\* A bit stays set; a counter counts the hashes of what is in the filter.
BitsStay ==
    bKind # "counting" => \A e \in BElements : bAdded[e] > 0 => Finds(bSeeds, bLayers, e)

Tally(seeds, added, buckets) ==
    \A i \in DOMAIN buckets :
        /\ IsFiniteSet(Counted(seeds, added, Cardinality(DOMAIN buckets), i))
        /\ buckets[i] = Cardinality(Counted(seeds, added, Cardinality(DOMAIN buckets), i))

CountersCount == bKind = "counting" => Tally(bSeeds, bAdded, bLayers[1].buckets)

BInv == BTyped /\ LayersFill /\ BitsStay /\ CountersCount

\* No counter of the filter has stopped counting.
Unsaturated ==
    bKind = "counting" => \A i \in DOMAIN bLayers[1].buckets : bLayers[1].buckets[i] < BLimit

LEMMA FindsIsContains ==
    \A e \in BElements : FilterContains(e) <=> Finds(bSeeds, bLayers, e)
<1> SUFFICES ASSUME NEW e \in BElements PROVE FilterContains(e) <=> Finds(bSeeds, bLayers, e)
  OBVIOUS
<1>1. ASSUME NEW l PROVE HoldsIn(l, e) <=> Has(bSeeds, l, e)
  <2>1. ASSUME NEW i
        PROVE  Hits(l, e, i) > 0 <=> HashesTo(bSeeds[e], Cardinality(DOMAIN l.buckets), i) # {}
    <3>1. Hits(l, e, i) = Cardinality(HashesTo(bSeeds[e], Cardinality(DOMAIN l.buckets), i))
      BY DEF Hits, HashesTo
    <3> QED BY <3>1, HashesAreFew
  <2> QED BY <2>1 DEF HoldsIn, Has
<1> QED BY <1>1 DEF FilterContains, Finds

\* What a layer becomes when e is added.
LEMMA PlusFills ==
    ASSUME BTyped, NEW l \in BLayer, NEW e \in BElements, NEW n, n = Plus(l, e)
    PROVE  /\ n \in BLayer /\ DOMAIN n.buckets = DOMAIN l.buckets
           /\ n.count = l.count + 1 /\ n.expected = l.expected
           /\ \A i \in DOMAIN l.buckets :
                 LET h == Cardinality(HashesTo(bSeeds[e], Cardinality(DOMAIN l.buckets), i))
                 IN n.buckets[i] = (IF l.buckets[i] + h > Limit THEN Limit ELSE l.buckets[i] + h)
<1>1. PICK k \in Int : l.buckets \in [0 .. k -> Nat]
  BY DEF BLayer, Buckets
<1> DEFINE b == [i \in 0 .. k |-> Filled(l.buckets[i], Hits(l, e, i))]
<1>2. n = [l EXCEPT !.count = l.count + 1, !.buckets = b]
  BY <1>1 DEF Plus
<1>3. \A i \in 0 .. k : Hits(l, e, i) = Cardinality(HashesTo(bSeeds[e], Cardinality(DOMAIN l.buckets), i))
  BY DEF Hits, HashesTo
<1>4. Limit \in Nat
  BY BloomAssumption DEF Limit
<1>5. b \in [0 .. k -> Nat]
  <2>1. ASSUME NEW i \in 0 .. k PROVE Filled(l.buckets[i], Hits(l, e, i)) \in Nat
    <3>1. Hits(l, e, i) \in Nat /\ l.buckets[i] \in Nat
      BY <1>1, <1>3, HashesAreFew
    <3> QED BY <1>4, <3>1 DEF Filled
  <2> QED BY <2>1
<1>6. \A i \in 0 .. k : b[i] = Filled(l.buckets[i], Hits(l, e, i))
  OBVIOUS
<1> HIDE DEF b
<1>7. n.count = l.count + 1 /\ n.expected = l.expected /\ n.buckets = b /\ n \in BLayer
  <2>1. b \in Buckets
    BY <1>5 DEF Buckets
  <2>2. l.count + 1 \in Int /\ l.expected \in Nat \ {0}
    BY DEF BLayer
  <2>3. n = [buckets |-> b, count |-> l.count + 1, expected |-> l.expected]
    BY <1>2 DEF BLayer
  <2> QED BY <2>1, <2>2, <2>3 DEF BLayer
<1> QED BY <1>1, <1>3, <1>5, <1>6, <1>7 DEF Filled

\* Adding an element sets its bits and clears none.
LEMMA PlusHas ==
    ASSUME BTyped, NEW l \in BLayer, NEW e \in BElements, NEW n, n = Plus(l, e)
    PROVE  /\ Has(bSeeds, n, e)
           /\ \A f \in BElements : Has(bSeeds, l, f) => Has(bSeeds, n, f)
<1>1. PICK k \in Int : l.buckets \in [0 .. k -> Nat]
  BY DEF BLayer, Buckets
<1>2. PICK m : m = Cardinality(DOMAIN l.buckets)
  OBVIOUS
<1>3. /\ DOMAIN n.buckets = DOMAIN l.buckets /\ DOMAIN l.buckets = 0 .. k
      /\ Limit \in Nat /\ Limit > 0
  BY <1>1, PlusFills, BloomAssumption DEF Limit
<1>4. ASSUME NEW i \in 0 .. k
      PROVE  /\ l.buckets[i] > 0 => n.buckets[i] > 0
             /\ HashesTo(bSeeds[e], m, i) # {} => n.buckets[i] > 0
  <2>1. PICK h : h = Cardinality(HashesTo(bSeeds[e], m, i))
    OBVIOUS
  <2>2. h \in Nat /\ (HashesTo(bSeeds[e], m, i) # {} => h > 0) /\ l.buckets[i] \in Nat
    BY <1>1, <2>1, HashesAreFew
  <2>3. n.buckets[i] = (IF l.buckets[i] + h > Limit THEN Limit ELSE l.buckets[i] + h)
    BY <1>2, <1>3, <2>1, PlusFills
  <2> QED BY <1>3, <2>2, <2>3
<1> QED BY <1>2, <1>3, <1>4 DEF Has

LEMMA NewLayerIsEmpty ==
    ASSUME NEW n \in Nat
    PROVE  /\ NewLayer(n) \in BLayer /\ NewLayer(n).count = 0
           /\ \A i \in DOMAIN NewLayer(n).buckets : NewLayer(n).buckets[i] = 0
<1>1. PICK k, x : k = BSize * Scale(n) - 1 /\ x = BExpected * Scale(n)
  OBVIOUS
<1>2. k \in Int /\ x \in Nat \ {0}
  BY <1>1, ScaleIsPositive, BloomAssumption
<1>3. NewLayer(n) = [buckets |-> [i \in 0 .. k |-> 0], count |-> 0, expected |-> x]
  BY <1>1 DEF NewLayer
<1>4. [i \in 0 .. k |-> 0] \in Buckets
  <2>1. [i \in 0 .. k |-> 0] \in [0 .. k -> Nat]
    OBVIOUS
  <2> QED BY <1>2, <2>1 DEF Buckets
<1> QED BY <1>2, <1>3, <1>4 DEF BLayer

LEMMA BloomStarts == BInit => BInv
<1> SUFFICES ASSUME BInit PROVE BInv
  OBVIOUS
<1>1. PICK l : l = NewLayer(0)
  OBVIOUS
<1>2. /\ l \in BLayer /\ l.count = 0 /\ \A i \in DOMAIN l.buckets : l.buckets[i] = 0
  BY <1>1, NewLayerIsEmpty
<1>3. bLayers = <<l>> /\ Len(bLayers) = 1 /\ bLayers[1] = l /\ bAdded = [e \in BElements |-> 0]
  BY <1>1 DEF BInit
<1>4. BTyped
  <2>1. 0 .. BSize - 1 \subseteq Int
    BY BloomAssumption
  <2>2. bSeeds \in [BElements -> Int \X Int]
    BY <2>1 DEF BInit
  <2>3. bLayers \in Seq(BLayer)
    BY <1>2, <1>3
  <2> QED BY <1>3, <2>2, <2>3 DEF BTyped
<1>5. LayersFill
  BY <1>2, <1>3 DEF LayersFill, BLayer
<1>6. BitsStay
  BY <1>3 DEF BitsStay
<1>7. CountersCount
  <2>1. \A m, i : Counted(bSeeds, bAdded, m, i) = {}
    BY <1>3 DEF Counted
  <2>2. IsFiniteSet({}) /\ Cardinality({}) = 0
    BY FS_EmptySet
  <2>3. Tally(bSeeds, bAdded, l.buckets)
    BY <1>2, <2>1, <2>2 DEF Tally
  <2> QED BY <1>3, <2>3 DEF CountersCount
<1> QED BY <1>4, <1>5, <1>6, <1>7 DEF BInv

\* Counters follow the additions, one more or one less.
LEMMA TallyAdds ==
    ASSUME BTyped, bKind = "counting", NEW l \in BLayer, NEW n, NEW e \in BElements, n = Plus(l, e),
           Tally(bSeeds, bAdded, l.buckets), NEW more, more = [bAdded EXCEPT ![e] = @ + 1],
           \A i \in DOMAIN n.buckets : n.buckets[i] < BLimit
    PROVE  Tally(bSeeds, more, n.buckets)
<1>1. PICK m : m = Cardinality(DOMAIN l.buckets)
  OBVIOUS
<1>2. DOMAIN n.buckets = DOMAIN l.buckets /\ Limit = BLimit /\ BLimit \in Nat
  BY PlusFills, BloomAssumption DEF Limit
<1>3. ASSUME NEW i \in DOMAIN l.buckets
      PROVE  /\ IsFiniteSet(Counted(bSeeds, more, m, i))
             /\ n.buckets[i] = Cardinality(Counted(bSeeds, more, m, i))
  <2>1. PICK h : h = Cardinality(HashesTo(bSeeds[e], m, i))
    OBVIOUS
  <2>2. h \in Nat
    BY <2>1, HashesAreFew
  <2>3. n.buckets[i] = (IF l.buckets[i] + h > Limit THEN Limit ELSE l.buckets[i] + h)
    BY <1>1, <2>1, PlusFills
  <2>4. n.buckets[i] < BLimit
    BY <1>2
  <2>5. n.buckets[i] = l.buckets[i] + h
    BY <1>2, <2>3, <2>4
  <2>6. IsFiniteSet(Counted(bSeeds, bAdded, m, i)) /\ l.buckets[i] = Cardinality(Counted(bSeeds, bAdded, m, i))
    BY <1>1 DEF Tally
  <2>7. Raised(bAdded, more, e)
    BY DEF BTyped, Raised
  <2>8. /\ IsFiniteSet(Counted(bSeeds, more, m, i))
        /\ Cardinality(Counted(bSeeds, more, m, i)) = Cardinality(Counted(bSeeds, bAdded, m, i)) + h
    <3>1. Larger(Counted(bSeeds, bAdded, m, i), Counted(bSeeds, more, m, i), h)
      BY <2>1, <2>7, OneMore
    <3> QED BY <2>6, <3>1 DEF Larger
  <2> QED BY <2>5, <2>6, <2>8
<1> QED BY <1>1, <1>2, <1>3 DEF Tally

LEMMA TallyRemoves ==
    ASSUME BTyped, NEW l \in BLayer, NEW n, NEW e \in BElements, bAdded[e] > 0, n = Minus(l, e),
           Tally(bSeeds, bAdded, l.buckets), NEW less, less = [bAdded EXCEPT ![e] = @ - 1]
    PROVE  n \in BLayer /\ Tally(bSeeds, less, n.buckets)
<1>1. PICK m : m = Cardinality(DOMAIN l.buckets)
  OBVIOUS
<1>2. PICK k \in Int : l.buckets \in [0 .. k -> Nat]
  BY DEF BLayer, Buckets
<1> DEFINE b == [i \in 0 .. k |-> Drained(l.buckets[i], Hits(l, e, i))]
<1>3. n = [l EXCEPT !.count = l.count - 1, !.buckets = b]
  BY <1>2 DEF Minus
<1>4. \A i \in 0 .. k : Hits(l, e, i) = Cardinality(HashesTo(bSeeds[e], m, i))
  BY <1>1 DEF Hits, HashesTo
<1>5. ASSUME NEW i \in 0 .. k
      PROVE  /\ b[i] \in Nat /\ IsFiniteSet(Counted(bSeeds, less, m, i))
             /\ b[i] = Cardinality(Counted(bSeeds, less, m, i))
  <2>1. PICK h, c : h = Cardinality(HashesTo(bSeeds[e], m, i)) /\ c = l.buckets[i]
    OBVIOUS
  <2>2. h \in Nat /\ c \in Nat /\ b[i] = Drained(c, h)
    BY <1>2, <1>4, <2>1, HashesAreFew
  <2>3. IsFiniteSet(Counted(bSeeds, bAdded, m, i)) /\ c = Cardinality(Counted(bSeeds, bAdded, m, i))
    BY <1>1, <1>2, <2>1 DEF Tally
  <2>4. Raised(less, bAdded, e)
    <3>1. less \in [BElements -> Nat] /\ bAdded \in [BElements -> Nat]
      BY DEF BTyped
    <3>2. less[e] + 1 = bAdded[e] /\ \A f \in BElements : f # e => less[f] = bAdded[f]
      BY <3>1
    <3>3. bAdded = [less EXCEPT ![e] = less[e] + 1]
      BY <3>1, <3>2
    <3> QED BY <3>1, <3>3 DEF Raised
  <2>5. /\ IsFiniteSet(Counted(bSeeds, less, m, i))
        /\ Cardinality(Counted(bSeeds, bAdded, m, i)) = Cardinality(Counted(bSeeds, less, m, i)) + h
    <3>1. Larger(Counted(bSeeds, less, m, i), Counted(bSeeds, bAdded, m, i), h)
      BY <2>1, <2>4, OneMore
    <3> QED BY <2>3, <3>1 DEF Larger
  <2>6. Cardinality(Counted(bSeeds, less, m, i)) \in Nat
    BY <2>5, FS_CardinalityType
  <2> QED BY <2>2, <2>3, <2>5, <2>6 DEF Drained
<1>6. b \in [0 .. k -> Nat]
  <2>1. \A i \in 0 .. k : b[i] \in Nat
    BY <1>5
  <2>2. b = [i \in 0 .. k |-> b[i]]
    OBVIOUS
  <2> HIDE DEF b
  <2> QED BY <2>1, <2>2
<1> HIDE DEF b
<1>7. n = [buckets |-> b, count |-> l.count - 1, expected |-> l.expected]
  BY <1>3 DEF BLayer
<1>8. n \in BLayer
  <2>1. b \in Buckets
    BY <1>6 DEF Buckets
  <2>2. l.count - 1 \in Int /\ l.expected \in Nat \ {0}
    BY DEF BLayer
  <2> QED BY <1>7, <2>1, <2>2 DEF BLayer
<1>9. n.buckets = b /\ DOMAIN b = 0 .. k /\ m = Cardinality(DOMAIN b)
  BY <1>1, <1>2, <1>6, <1>7
<1> QED BY <1>5, <1>8, <1>9 DEF Tally

\* A counter that counts an element is not zero.
LEMMA CountedIsFound ==
    ASSUME BTyped, bKind = "counting", Tally(bSeeds, bAdded, bLayers[1].buckets),
           NEW e \in BElements, bAdded[e] > 0
    PROVE  Finds(bSeeds, bLayers, e)
<1>1. PICK m, b : b = bLayers[1].buckets /\ m = Cardinality(DOMAIN b)
  OBVIOUS
<1>2. ASSUME NEW i \in DOMAIN b, HashesTo(bSeeds[e], m, i) # {} PROVE b[i] > 0
  <2>1. PICK h : h \in HashesTo(bSeeds[e], m, i)
    BY <1>2
  <2>2. <<e, 1, h>> \in Counted(bSeeds, bAdded, m, i)
    <3>1. 1 \in 1 .. bAdded[e] /\ h \in 0 .. BHashes - 1
      BY <2>1 DEF BTyped, HashesTo
    <3> QED BY <2>1, <3>1 DEF Counted
  <2>3. IsFiniteSet(Counted(bSeeds, bAdded, m, i)) /\ b[i] = Cardinality(Counted(bSeeds, bAdded, m, i))
    BY <1>1 DEF Tally
  <2>4. Cardinality(Counted(bSeeds, bAdded, m, i)) # 0 /\ Cardinality(Counted(bSeeds, bAdded, m, i)) \in Nat
    BY <2>2, <2>3, FS_EmptySet, FS_CardinalityType
  <2> QED BY <2>3, <2>4
<1>3. Has(bSeeds, bLayers[1], e)
  BY <1>1, <1>2 DEF Has
<1>4. 1 \in 1 .. Len(bLayers)
  BY DEF BTyped
<1> QED BY <1>3, <1>4 DEF Finds

LEMMA AddKeepsBloom ==
    ASSUME BInv, NEW e \in BElements, BAdd(e), Unsaturated'
    PROVE  BInv'
<1>1. PICK layers, last, old, n, more :
         /\ layers = ToFill /\ last = Len(layers) /\ old = layers[last]
         /\ n = Plus(old, e) /\ more = [bAdded EXCEPT ![e] = @ + 1]
  OBVIOUS
<1>2. BTyped
  BY DEF BInv
<1>3. /\ bLayers' = [layers EXCEPT ![last] = n] /\ bAdded' = more
      /\ bKind' = bKind /\ bSeeds' = bSeeds
  BY <1>1 DEF BAdd, Change
<1>4. PICK l : l = Len(bLayers)
  OBVIOUS
<1>5. l \in Nat \ {0} /\ bLayers \in Seq(BLayer) /\ bLayers[l] \in BLayer
  BY <1>2, <1>4 DEF BTyped
<1>6. \/ /\ layers = bLayers /\ last = l
         /\ ~ (bKind = "scalable" /\ bLayers[l].count >= bLayers[l].expected)
      \/ /\ layers = Append(bLayers, NewLayer(l)) /\ last = l + 1 /\ bKind = "scalable"
         /\ bLayers[l].count >= bLayers[l].expected
  BY <1>1, <1>4, <1>5, NewLayerIsEmpty DEF ToFill
<1>7. /\ layers \in Seq(BLayer) /\ last = Len(layers) /\ last \in Nat \ {0} /\ old \in BLayer
      /\ \A k \in 1 .. l : layers[k] = bLayers[k]
  BY <1>1, <1>4, <1>5, <1>6, NewLayerIsEmpty
<1>8. n \in BLayer /\ n.count = old.count + 1 /\ n.expected = old.expected
  BY <1>1, <1>2, <1>7, PlusFills
<1>9. /\ bLayers' \in Seq(BLayer) /\ Len(bLayers') = last /\ bLayers'[last] = n
      /\ \A k \in 1 .. last : k # last => bLayers'[k] = layers[k]
  BY <1>3, <1>7, <1>8
<1>10. BTyped'
  <2>1. bAdded' \in [BElements -> Nat]
    BY <1>1, <1>2, <1>3 DEF BTyped
  <2>2. bKind' # "scalable" => Len(bLayers') = 1
    BY <1>2, <1>3, <1>4, <1>6, <1>9 DEF BTyped
  <2> QED BY <1>2, <1>3, <1>7, <1>9, <2>1, <2>2 DEF BTyped
<1>11. LayersFill'
  <2> SUFFICES ASSUME bKind = "scalable"
               PROVE  /\ n.count <= n.expected
                      /\ \A k \in 1 .. last - 1 : bLayers'[k].count = bLayers'[k].expected
    BY <1>3, <1>9 DEF LayersFill
  <2>1. /\ bLayers[l].count <= bLayers[l].expected
        /\ \A k \in 1 .. l - 1 : bLayers[k].count = bLayers[k].expected
    BY <1>4 DEF BInv, LayersFill
  <2>2. CASE layers = bLayers /\ last = l /\ ~ bLayers[l].count >= bLayers[l].expected
    <3>1. bLayers[l].count \in Int /\ bLayers[l].expected \in Int
      BY <1>5 DEF BLayer
    <3>2. \A k \in 1 .. last - 1 : bLayers'[k] = bLayers[k]
      BY <1>5, <1>7, <1>9, <2>2
    <3> QED BY <1>1, <1>8, <2>1, <2>2, <3>1, <3>2
  <2>3. CASE layers = Append(bLayers, NewLayer(l)) /\ last = l + 1 /\ bLayers[l].count >= bLayers[l].expected
    <3>1. bLayers[l].count \in Int /\ bLayers[l].expected \in Int /\ bLayers[l].count = bLayers[l].expected
      <4>1. bLayers[l].count \in Int /\ bLayers[l].expected \in Int
        BY <1>5 DEF BLayer
      <4> QED BY <2>1, <2>3, <4>1
    <3>2. \A k \in 1 .. last - 1 : bLayers'[k] = bLayers[k] /\ (k = l \/ k \in 1 .. l - 1)
      BY <1>5, <1>7, <1>9, <2>3
    <3>3. old = NewLayer(l)
      BY <1>1, <1>5, <2>3
    <3>4. old.count = 0 /\ old.expected \in Nat \ {0}
      BY <1>5, <1>7, <3>3, NewLayerIsEmpty DEF BLayer
    <3>5. n.count <= n.expected
      BY <1>8, <3>4
    <3> QED BY <2>1, <3>1, <3>2, <3>5
  <2> QED BY <1>6, <2>2, <2>3
<1>12. BitsStay'
  <2> SUFFICES ASSUME bKind # "counting", NEW f \in BElements, more[f] > 0
               PROVE  Finds(bSeeds, bLayers', f)
    BY <1>3 DEF BitsStay
  <2>1. CASE f = e
    <3>1. Has(bSeeds, n, e)
      BY <1>1, <1>2, <1>7, PlusHas
    <3>2. last \in 1 .. last
      BY <1>7
    <3> QED BY <1>9, <2>1, <3>1, <3>2 DEF Finds
  <2>2. CASE f # e
    <3>1. bAdded[f] > 0
      BY <1>1, <1>2, <2>2 DEF BTyped
    <3>2. PICK k \in 1 .. l : Has(bSeeds, bLayers[k], f)
      BY <1>4, <3>1 DEF BInv, BitsStay, Finds
    <3>3. k \in 1 .. last /\ layers[k] = bLayers[k]
      BY <1>5, <1>6, <1>7
    <3>4. Has(bSeeds, bLayers'[k], f)
      <4>1. CASE k # last
        BY <1>9, <3>2, <3>3, <4>1
      <4>2. CASE k = last
        <5>1. Has(bSeeds, old, f)
          BY <1>1, <3>2, <3>3, <4>2
        <5>2. Has(bSeeds, n, f)
          BY <1>1, <1>2, <1>7, <5>1, PlusHas
        <5> QED BY <1>9, <4>2, <5>2
      <4> QED BY <4>1, <4>2
    <3> QED BY <1>9, <3>3, <3>4 DEF Finds
  <2> QED BY <2>1, <2>2
<1>13. CountersCount'
  <2> SUFFICES ASSUME bKind = "counting" PROVE Tally(bSeeds, more, bLayers'[1].buckets)
    BY <1>3 DEF CountersCount
  <2>1. l = 1 /\ last = 1 /\ old = bLayers[1] /\ bLayers'[1] = n
    BY <1>1, <1>2, <1>4, <1>6, <1>9 DEF BTyped
  <2>2. Tally(bSeeds, bAdded, old.buckets)
    BY <2>1 DEF BInv, CountersCount
  <2>3. \A i \in DOMAIN n.buckets : n.buckets[i] < BLimit
    BY <1>3, <2>1 DEF Unsaturated
  <2>4. Tally(bSeeds, more, n.buckets)
    BY <1>1, <1>2, <1>7, <2>2, <2>3, TallyAdds
  <2> QED BY <2>1, <2>4
<1> QED BY <1>10, <1>11, <1>12, <1>13 DEF BInv

LEMMA RemoveKeepsBloom ==
    ASSUME BInv, NEW e \in BElements, BRemove(e)
    PROVE  BInv'
<1>1. BTyped /\ bKind = "counting" /\ bAdded[e] > 0
  BY DEF BInv, BRemove
<1>2. Tally(bSeeds, bAdded, bLayers[1].buckets)
  BY <1>1 DEF BInv, CountersCount
<1>3. FilterContains(e)
  BY <1>1, <1>2, CountedIsFound, FindsIsContains
<1>4. PICK n, less : n = Minus(bLayers[1], e) /\ less = [bAdded EXCEPT ![e] = @ - 1]
  OBVIOUS
<1>5. bLayers' = <<n>> /\ UNCHANGED <<bKind, bSeeds>> /\ bAdded' = less
  <2>1. bAdded[e] + (-1) = bAdded[e] - 1
    BY <1>1 DEF BTyped
  <2>2. Change(e, <<Minus(bLayers[1], e)>>, -1)
    BY <1>3 DEF BRemove
  <2> QED BY <1>4, <2>1, <2>2 DEF Change
<1>6. bLayers[1] \in BLayer
  BY <1>1 DEF BTyped
<1>7. n \in BLayer /\ Tally(bSeeds, less, n.buckets)
  <2>1. PICK l : l = bLayers[1]
    OBVIOUS
  <2>2. BTyped /\ l \in BLayer /\ bAdded[e] > 0 /\ n = Minus(l, e) /\ Tally(bSeeds, bAdded, l.buckets)
    BY <1>1, <1>2, <1>4, <1>6, <2>1
  <2> QED BY <1>4, <2>2, TallyRemoves
<1>8. BTyped'
  <2>1. less \in [BElements -> Nat]
    BY <1>1, <1>4 DEF BTyped
  <2>2. <<n>> \in Seq(BLayer) /\ Len(<<n>>) = 1
    BY <1>7
  <2> QED BY <1>1, <1>5, <2>1, <2>2 DEF BTyped
<1> QED BY <1>1, <1>5, <1>7, <1>8 DEF BInv, LayersFill, BitsStay, CountersCount

LEMMA BloomInvHolds == BSpec /\ []Unsaturated => []BInv
<1>1. BInit => BInv
  BY BloomStarts
<1>2. BInv /\ Unsaturated' /\ [BNext]_bVars => BInv'
  <2> SUFFICES ASSUME BInv, Unsaturated', [BNext]_bVars PROVE BInv'
    OBVIOUS
  <2>1. CASE UNCHANGED bVars
    BY <2>1 DEF bVars, BInv, BTyped, LayersFill, BitsStay, CountersCount
  <2> QED BY <2>1, AddKeepsBloom, RemoveKeepsBloom DEF BNext
<1> QED BY <1>1, <1>2, PTL DEF BSpec

\* What was added to a filter and not removed since is found, whatever else was
\* added and removed and wherever it hashes to, while no counter of a counting
\* filter has reached its limit (CountingBloomFilter.add stops there, and
\* removals would then take away more than was counted); a layer of a scalable
\* filter is left when it is full and no earlier.
THEOREM NothingIsLost == BSpec /\ []Unsaturated => []NoFalseNegatives
<1>1. BInv => NoFalseNegatives
  <2> SUFFICES ASSUME BInv PROVE NoFalseNegatives
    OBVIOUS
  <2>1. ASSUME NEW e \in BElements, bAdded[e] > 0 PROVE FilterContains(e)
    <3>1. CASE bKind = "counting"
      BY <2>1, <3>1, CountedIsFound, FindsIsContains DEF BInv, CountersCount
    <3>2. CASE bKind # "counting"
      BY <2>1, <3>2, FindsIsContains DEF BInv, BitsStay
    <3> QED BY <3>1, <3>2
  <2>2. \A k \in 1 .. Len(bLayers) - 1 : bLayers[k].count = bLayers[k].expected
    <3>1. CASE bKind = "scalable"
      BY <3>1 DEF BInv, LayersFill
    <3>2. CASE bKind # "scalable"
      <4>1. Len(bLayers) = 1
        BY <3>2 DEF BInv, BTyped
      <4>2. \A k \in 1 .. Len(bLayers) - 1 : FALSE
        BY <4>1
      <4> QED BY <4>2
    <3> QED BY <3>1, <3>2
  <2> QED BY <2>1, <2>2 DEF NoFalseNegatives
<1> QED BY <1>1, BloomInvHolds, PTL

-----------------------------------------------------------------------------
(* The partition coordinator.  Its matrix, edited in place by every operation, *)
(* agrees with the faults in force.  The entries for crashed nodes may say     *)
(* anything: recover_node opens them towards nodes that are still down, and    *)
(* only can_communicate's own check of crashed_nodes makes up for it.          *)

\* Among live nodes an open entry has no active partition across it, and a
\* closed one has, unless a one-way block may have closed it.
Agrees(conn, ps, crashed) ==
    \A e \in Pairs :
        e[1] \notin crashed /\ e[2] \notin crashed =>
            /\ conn[e] => ~Separated(ps, e[1], e[2])
            /\ ~Separated(ps, e[1], e[2]) /\ e \notin OneWay => conn[e]

Inv == TypeOK /\ Agrees(connectivity, partitions, crashed_nodes)

\* The invariant is what can_communicate needs.
LEMMA InvImplies == Inv => FaultsAreObeyed /\ NothingLeftBehind
<1> SUFFICES ASSUME Inv, NEW a \in Node, NEW b \in Node
             PROVE  /\ CanCommunicate(a, b) => ~Separated(partitions, a, b)
                    /\ (/\ <<a, b>> \in Pairs \ OneWay
                        /\ a \notin crashed_nodes /\ b \notin crashed_nodes
                        /\ ~Separated(partitions, a, b)
                        => CanCommunicate(a, b))
  <2>1. \A e \in Pairs : e = <<e[1], e[2]>> /\ e[1] \in Node /\ e[2] \in Node
    BY DEF Pairs
  <2> QED BY <2>1 DEF FaultsAreObeyed, NothingLeftBehind
<1> DEFINE e == <<a, b>>
<1>1. e[1] = a /\ e[2] = b
  OBVIOUS
<1> QED BY <1>1 DEF Inv, Agrees, CanCommunicate

\* A coordinator starts with every link up and no fault recorded.
LEMMA InitInv == Init => Inv
<1> SUFFICES ASSUME Init PROVE Inv
  OBVIOUS
<1>1. TypeOK
  BY PartitionAssumption DEF Init, TypeOK
<1>2. Agrees(connectivity, partitions, crashed_nodes)
  BY DEF Init, Agrees, Separated, Active
<1> QED BY <1>1, <1>2 DEF Inv

\* Every partition, the new one included, has its edits in the matrix.
LEMMA CreateStep ==
    ASSUME Inv, NEW groups \in Groupings, NEW autoHeal \in BOOLEAN,
           CreatePartition(groups, autoHeal)
    PROVE  Inv'
<1> DEFINE id == partition_counter + 1
           p  == [groups |-> groups, autoHeal |-> autoHeal, elapsed |-> FALSE, active |-> TRUE]
<1>1. p \in Partition
  BY DEF Partition
<1>2. /\ id <= MaxPartitions /\ partition_counter' = id
      /\ partitions' = [i \in DOMAIN partitions \cup {id} |-> IF i = id THEN p ELSE partitions[i]]
      /\ connectivity' = [e \in Pairs |-> connectivity[e] /\ ~Separates(p, e[1], e[2])]
      /\ UNCHANGED crashed_nodes
  BY DEF CreatePartition
<1>3. TypeOK'
  <2>1. id \in 0 .. MaxPartitions /\ (1 .. partition_counter) \cup {id} = 1 .. id
    BY <1>2, PartitionAssumption DEF Inv, TypeOK
  <2>2. partitions' \in [1 .. id -> Partition]
    BY <1>1, <1>2, <2>1 DEF Inv, TypeOK
  <2>3. connectivity' \in [Pairs -> BOOLEAN]
    BY <1>2 DEF Inv, TypeOK
  <2> QED BY <1>2, <2>1, <2>2, <2>3 DEF Inv, TypeOK
<1>4. ASSUME NEW e \in Pairs
      PROVE  Separated(partitions', e[1], e[2]) <=>
                 Separated(partitions, e[1], e[2]) \/ Separates(p, e[1], e[2])
  <2>1. DOMAIN partitions = 1 .. partition_counter /\ id \notin DOMAIN partitions
    BY PartitionAssumption DEF Inv, TypeOK
  <2>2. DOMAIN partitions' = DOMAIN partitions \cup {id}
    BY <1>2
  <2>3. partitions'[id] = p /\ \A i \in DOMAIN partitions : partitions'[i] = partitions[i]
    BY <1>2, <2>1
  <2>4. Active(partitions') = Active(partitions) \cup {id}
    BY <2>2, <2>3 DEF Active
  <2>5. \A i \in Active(partitions) : partitions'[i] = partitions[i]
    BY <2>3 DEF Active
  <2> HIDE DEF p, id
  <2> QED BY <2>3, <2>4, <2>5 DEF Separated
<1>5. Agrees(connectivity', partitions', crashed_nodes')
  <2> HIDE DEF p, id
  <2> QED BY <1>2, <1>4 DEF Inv, Agrees
<1> QED BY <1>3, <1>5 DEF Inv

\* A matrix rebuilt from the partitions that remain, the crashed cut off.
LEMMA HealStep ==
    ASSUME Inv, NEW S, Heal(S)
    PROVE  Inv'
<1>1. partitions' \in [1 .. partition_counter -> Partition]
  <2>1. \A i \in 1 .. partition_counter : [partitions[i] EXCEPT !.active = FALSE] \in Partition
    BY DEF Inv, TypeOK, Partition
  <2> QED BY <2>1 DEF Heal, Healed, Inv, TypeOK
<1>2. connectivity' \in [Pairs -> BOOLEAN]
  BY DEF Heal, Cut, Connected
<1>3. TypeOK'
  BY <1>1, <1>2 DEF Heal, Inv, TypeOK
<1>4. Agrees(connectivity', partitions', crashed_nodes')
  BY DEF Heal, Cut, Connected, Agrees
<1> QED BY <1>3, <1>4 DEF Inv

\* Nothing is asked of a crashed node's entries.
LEMMA CrashStep ==
    ASSUME Inv, NEW n \in Node, CrashNode(n)
    PROVE  Inv'
<1>1. connectivity' \in [Pairs -> BOOLEAN]
  BY DEF CrashNode, Cut, Inv, TypeOK
<1>2. TypeOK'
  BY <1>1 DEF CrashNode, Inv, TypeOK
<1>3. Agrees(connectivity', partitions', crashed_nodes')
  BY DEF CrashNode, Cut, Inv, Agrees
<1> QED BY <1>2, <1>3 DEF Inv

\* A recovered node's links are opened, and the partitions applied again.
LEMMA RecoverStep ==
    ASSUME Inv, NEW n \in Node, RecoverNode(n)
    PROVE  Inv'
<1>1. connectivity' \in [Pairs -> BOOLEAN]
  BY DEF RecoverNode, Recovered, Inv, TypeOK
<1>2. TypeOK'
  BY <1>1 DEF RecoverNode, Inv, TypeOK
<1>3. Agrees(connectivity', partitions', crashed_nodes')
  BY DEF RecoverNode, Recovered, Inv, Agrees
<1> QED BY <1>2, <1>3 DEF Inv

\* Time passing leaves the active partitions what they were.
LEMMA ElapseStep ==
    ASSUME Inv, NEW i \in DOMAIN partitions, Elapse(i)
    PROVE  Inv'
<1>1. partitions' = [partitions EXCEPT ![i].elapsed = TRUE]
  BY DEF Elapse
<1>2. partitions' \in [1 .. partition_counter -> Partition]
  BY <1>1 DEF Inv, TypeOK, Partition
<1>3. TypeOK'
  BY <1>2 DEF Elapse, Inv, TypeOK
<1>4. /\ DOMAIN partitions' = DOMAIN partitions
      /\ \A j \in DOMAIN partitions : /\ partitions'[j].active = partitions[j].active
                                      /\ partitions'[j].groups = partitions[j].groups
  BY <1>1 DEF Inv, TypeOK, Partition
<1>5. Active(partitions') = Active(partitions)
  BY <1>4 DEF Active
<1>6. \A e \in Pairs : Separated(partitions', e[1], e[2]) <=> Separated(partitions, e[1], e[2])
  BY <1>4, <1>5 DEF Separated, Separates, Active
<1>7. Agrees(connectivity', partitions', crashed_nodes')
  BY <1>6 DEF Elapse, Inv, Agrees
<1> QED BY <1>3, <1>7 DEF Inv

\* A one-way block closes one entry, of a pair in OneWay.
LEMMA BlockStep ==
    ASSUME Inv, NEW e \in Pairs, BlockOneWay(e)
    PROVE  Inv'
<1>1. TypeOK'
  BY DEF BlockOneWay, Inv, TypeOK
<1>2. \A d \in Pairs : /\ connectivity'[d] => connectivity[d]
                       /\ d \notin OneWay => (connectivity[d] => connectivity'[d])
  <2>1. e \in OneWay /\ connectivity' = [connectivity EXCEPT ![e] = FALSE]
    BY DEF BlockOneWay
  <2> QED BY <2>1 DEF Inv, TypeOK
<1>3. UNCHANGED <<partitions, crashed_nodes>>
  BY DEF BlockOneWay
<1>4. Agrees(connectivity', partitions, crashed_nodes)
  BY <1>2 DEF Inv, Agrees
<1> QED BY <1>1, <1>3, <1>4 DEF Inv

\* Every operation of the coordinator keeps the invariant.
LEMMA NextInv == Inv /\ [Next]_vars => Inv'
<1> SUFFICES ASSUME Inv, [Next]_vars PROVE Inv'
  OBVIOUS
<1>1. CASE \E groups \in Groupings, autoHeal \in BOOLEAN : CreatePartition(groups, autoHeal)
  BY <1>1, CreateStep
<1>2. CASE \/ \E i \in DOMAIN partitions : HealPartition(i)
           \/ HealAll
           \/ AutoHeal
  BY <1>2, HealStep DEF HealPartition, HealAll, AutoHeal
<1>3. CASE \E n \in Node : CrashNode(n)
  BY <1>3, CrashStep
<1>4. CASE \E n \in Node : RecoverNode(n)
  BY <1>4, RecoverStep
<1>5. CASE \E i \in DOMAIN partitions : Elapse(i)
  BY <1>5, ElapseStep
<1>6. CASE \E e \in Pairs : BlockOneWay(e)
  BY <1>6, BlockStep
<1>7. CASE UNCHANGED vars
  BY <1>7 DEF vars, Inv, TypeOK, Agrees, Separated, Active
<1> QED BY <1>1, <1>2, <1>3, <1>4, <1>5, <1>6, <1>7 DEF Next

\* Partitions stay numbered without gaps and the matrix stays complete.
THEOREM Types == Spec => []TypeOK
<1>1. Inv => TypeOK
  BY DEF Inv
<1> QED BY <1>1, InitInv, NextInv, PTL DEF Spec

\* No message passes between nodes that an active partition keeps apart.
THEOREM FaultsHold == Spec => []FaultsAreObeyed
<1>1. Inv => FaultsAreObeyed
  BY InvImplies
<1> QED BY <1>1, InitInv, NextInv, PTL DEF Spec

\* Healed and recovered faults leave no trace.
THEOREM HealingIsComplete == Spec => []NothingLeftBehind
<1>1. Inv => NothingLeftBehind
  BY InvImplies
<1> QED BY <1>1, InitInv, NextInv, PTL DEF Spec

\* Both together, the matrix says what the faults in force say.
THEOREM MatrixHolds == Spec => []MatrixIsTrue
<1>1. FaultsAreObeyed /\ NothingLeftBehind => MatrixIsTrue
  BY DEF MatrixIsTrue
<1> QED BY <1>1, FaultsHold, HealingIsComplete, PTL

=============================================================================
