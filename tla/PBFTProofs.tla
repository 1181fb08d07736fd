------------------------------ MODULE PBFTProofs ------------------------------
(***************************************************************************)
(* Agreement within a view, for every cluster of 3f + 1 replicas of which  *)
(* at most f are Byzantine, whatever these send: no bound on Lies, Request,*)
(* views or sequence numbers is used.                                      *)
(***************************************************************************)
EXTENDS PBFT, FiniteSetTheorems, TLAPS

\* The faults PBFT is for.
FewFaults == total_nodes = 3 * f + 1 /\ Cardinality(Byzantine) <= f

-------------------------------------------------------------------------------
(* Types, and two facts the others need: a replica has accepted one           *)
(* PRE-PREPARE for a key, and has prepared what it has executed.              *)

Entry == Key \X Digest \X Request

OneAccepted ==
    \A n \in Honest, key \in Key : \A p, q \in Accepted(n, key) : p = q

ExecutedPrepared ==
    \A n \in Honest : \A x \in executed[n] : x[1] \in prepared_predicate[n]

Shape ==
    /\ view \in [Honest -> View]
    /\ status \in [Honest -> {"NORMAL", "VIEW_CHANGE"}]
    /\ seq_num \in [Honest -> 0 .. MaxSeq]
    /\ pre_prepares \in [Honest -> SUBSET Entry]
    /\ prepares \in [Honest -> SUBSET Votes]
    /\ commits \in [Honest -> SUBSET Votes]
    /\ prepared_predicate \in [Honest -> SUBSET Key]
    /\ executed \in [Honest -> SUBSET Entry]
    /\ view_change_log \in [Honest -> SUBSET (View \X Node)]
    /\ requests \subseteq Request \X Node
    /\ proposed \subseteq Request

TypeInv == Shape /\ OneAccepted /\ ExecutedPrepared

-------------------------------------------------------------------------------
(* The inductive invariant.  It is about COMMIT messages only: an honest      *)
(* replica sends one per key, because prepared_predicate lets it; another     *)
(* honest replica knows of none it did not send; and what is executed has the *)
(* commits of a quorum for its digest.                                        *)

Said(m, key, digest) == Message("commit", m, key, digest) \in msgs

SaidWhenPrepared ==
    \A m \in Honest, key \in Key, d \in Digest :
        Said(m, key, d) => key \in prepared_predicate[m]

SaidOnce ==
    \A m \in Honest, key \in Key : \A d, e \in Digest :
        Said(m, key, d) /\ Said(m, key, e) => d = e

HeardWasSaid ==
    \A n, m \in Honest, key \in Key, d \in Digest :
        <<key, m, d>> \in commits[n] => Said(m, key, d)

Counted ==
    \A n \in Honest : \A x \in executed[n] :
        Cardinality(Senders(commits[n], x[1], x[2])) >= CommitQuorum

CommitInv == SaidWhenPrepared /\ SaidOnce /\ HeardWasSaid /\ Counted

-------------------------------------------------------------------------------
(* Numbers of replicas.                                                       *)

\* f and the quorums of check_prepared and check_committed are natural numbers.
LEMMA Numbers == f \in Nat /\ total_nodes \in Nat /\ CommitQuorum \in Nat
<1>1. total_nodes \in Nat /\ total_nodes # 0
  BY PBFTAssumption, FS_CardinalityType, FS_EmptySet DEF total_nodes
<1>2. (total_nodes - 1) \div 3 \in Nat
  BY <1>1
<1> QED
  BY <1>1, <1>2 DEF f, CommitQuorum

\* Of the senders of 2f + 1 commits at least f + 1 are honest (check_committed).
LEMMA HonestPart ==
    ASSUME FewFaults, NEW S \in SUBSET Node, Cardinality(S) >= CommitQuorum
    PROVE  /\ IsFiniteSet(S \cap Honest)
           /\ Cardinality(S \cap Honest) >= f + 1
<1>1. IsFiniteSet(Node) /\ IsFiniteSet(S) /\ IsFiniteSet(Byzantine) /\ IsFiniteSet(S \cap Honest)
  BY PBFTAssumption, FS_Subset DEF Honest
<1>2. /\ IsFiniteSet(S \cap Byzantine)
      /\ Cardinality(S \cap Byzantine) <= Cardinality(Byzantine)
  BY <1>1, FS_Subset
<1>3. S \cap Honest = S \ Byzantine
  BY DEF Honest
<1>4. Cardinality(S \ Byzantine) = Cardinality(S) - Cardinality(S \cap Byzantine)
  BY <1>1, FS_Difference
<1>5. /\ Cardinality(S) \in Nat /\ Cardinality(S \cap Byzantine) \in Nat
      /\ Cardinality(Byzantine) \in Nat
  BY <1>1, <1>2, FS_CardinalityType
<1>6. Cardinality(S \cap Honest) = Cardinality(S) - Cardinality(S \cap Byzantine)
  BY <1>3, <1>4
<1>7. Cardinality(S) >= 2 * f + 1 /\ Cardinality(Byzantine) <= f /\ f \in Nat
  BY Numbers DEF FewFaults, CommitQuorum
<1>8. Cardinality(S) - Cardinality(S \cap Byzantine) >= f + 1
  BY <1>2, <1>5, <1>7
<1> QED
  BY <1>1, <1>6, <1>8

\* Two commit quorums share an honest replica (the 2f + 1 of check_committed).
LEMMA QuorumsIntersect ==
    ASSUME FewFaults, NEW S \in SUBSET Node, NEW T \in SUBSET Node,
           Cardinality(S) >= CommitQuorum, Cardinality(T) >= CommitQuorum
    PROVE  \E m \in Honest : m \in S /\ m \in T
<1> DEFINE H == S \cap Honest
           J == T \cap Honest
<1>1. /\ IsFiniteSet(H) /\ Cardinality(H) >= f + 1
      /\ IsFiniteSet(J) /\ Cardinality(J) >= f + 1
  BY HonestPart
<1>2. SUFFICES ASSUME H \cap J = {} PROVE FALSE
  OBVIOUS
<1>3. IsFiniteSet(Node) /\ IsFiniteSet(S) /\ IsFiniteSet(T)
  BY PBFTAssumption, FS_Subset
<1>4. /\ Cardinality(S \cup T) = Cardinality(S) + Cardinality(T) - Cardinality(S \cap T)
      /\ Cardinality(S \cup T) <= Cardinality(Node)
  BY <1>3, FS_Union, FS_Subset
<1>5. S \cap T \subseteq Byzantine
  BY <1>2 DEF Honest
<1>6. IsFiniteSet(S \cap T) /\ Cardinality(S \cap T) <= Cardinality(Byzantine)
  BY <1>3, <1>5, PBFTAssumption, FS_Subset
<1>7. /\ Cardinality(S) \in Nat /\ Cardinality(T) \in Nat /\ Cardinality(S \cap T) \in Nat
      /\ Cardinality(S \cup T) \in Nat /\ Cardinality(Byzantine) \in Nat
  BY <1>3, <1>6, PBFTAssumption, FS_Subset, FS_CardinalityType, FS_Union
<1> QED
  BY <1>4, <1>6, <1>7, Numbers DEF FewFaults, CommitQuorum, total_nodes

-------------------------------------------------------------------------------
(* Types.                                                                     *)

\* The PRE-PREPAREs a check is called with: those accepted for the key, with the digest.
AcceptedAs(accepted, key, digest) ==
    accepted \subseteq Entry /\ \A p \in accepted : p[1] = key /\ p[2] = digest

\* check_committed executes a prepared key's request (check_committed, execute_request).
LEMMA CheckCommittedTypes ==
    ASSUME Shape, ExecutedPrepared, NEW n \in Honest, NEW key \in Key, NEW digest \in Digest,
           NEW received, NEW preparedKeys, NEW accepted, AcceptedAs(accepted, key, digest),
           prepared_predicate[n] \subseteq preparedKeys, preparedKeys \in SUBSET Key,
           prepared_predicate' = [prepared_predicate EXCEPT ![n] = preparedKeys],
           \/ CheckCommitted(n, key, digest, received, preparedKeys, accepted)
           \/ UNCHANGED executed
    PROVE  executed' \in [Honest -> SUBSET Entry] /\ ExecutedPrepared'
<1>1. executed' \in [Honest -> SUBSET Entry]
  BY DEF CheckCommitted, Shape, AcceptedAs
<1>2. ASSUME NEW m \in Honest, NEW x \in executed'[m]
      PROVE  x[1] \in prepared_predicate'[m]
  <2>1. prepared_predicate[m] \subseteq prepared_predicate'[m] /\ prepared_predicate'[n] = preparedKeys
    BY DEF Shape
  <2>2. CASE x \in executed[m]
    BY <2>1, <2>2 DEF ExecutedPrepared
  <2>3. CASE x \notin executed[m]
    <3>1. m = n /\ key \in preparedKeys /\ x \in accepted
      BY <1>2, <2>3 DEF CheckCommitted, Shape
    <3> QED
      BY <2>1, <3>1 DEF AcceptedAs
  <2> QED
    BY <2>2, <2>3
<1> QED
  BY <1>1, <1>2 DEF ExecutedPrepared

\* check_prepared marks the key before it commits.
LEMMA CheckPreparedTypes ==
    ASSUME Shape, ExecutedPrepared, NEW n \in Honest, NEW key \in Key, NEW digest \in Digest,
           NEW received, NEW out, NEW accepted, AcceptedAs(accepted, key, digest),
           CheckPrepared(n, key, digest, received, out, accepted)
    PROVE  /\ commits' \in [Honest -> SUBSET Votes]
           /\ prepared_predicate' \in [Honest -> SUBSET Key]
           /\ executed' \in [Honest -> SUBSET Entry]
           /\ ExecutedPrepared'
<1>1. CASE UNCHANGED <<prepared_predicate, commits, executed>>
  BY <1>1 DEF Shape, ExecutedPrepared
<1>2. CASE ~UNCHANGED <<prepared_predicate, commits, executed>>
  <2> DEFINE keys == prepared_predicate[n] \cup {key}
  <2>1. /\ prepared_predicate' = [prepared_predicate EXCEPT ![n] = @ \cup {key}]
        /\ commits' = [commits EXCEPT ![n] = @ \cup {<<key, n, digest>>}]
        /\ CheckCommitted(n, key, digest, commits'[n], prepared_predicate'[n], accepted)
    BY <1>2 DEF CheckPrepared
  <2>2. /\ prepared_predicate' = [prepared_predicate EXCEPT ![n] = keys]
        /\ prepared_predicate'[n] = keys /\ keys \in SUBSET Key
        /\ prepared_predicate[n] \subseteq keys
    BY <2>1 DEF Shape
  <2>3. CheckCommitted(n, key, digest, commits'[n], keys, accepted)
    BY <2>1, <2>2
  <2>4. executed' \in [Honest -> SUBSET Entry] /\ ExecutedPrepared'
    <3> HIDE DEF keys
    <3> QED
      BY <2>2, <2>3, CheckCommittedTypes
  <2>5. commits' \in [Honest -> SUBSET Votes] /\ prepared_predicate' \in [Honest -> SUBSET Key]
    BY <2>1 DEF Shape, Votes, Honest
  <2> QED
    BY <2>4, <2>5
<1> QED
  BY <1>1, <1>2

\* What has been accepted for a key with a digest is one entry (handle_prepare,
\* handle_commit).
LEMMA AcceptedIsAs ==
    ASSUME TypeInv, NEW n \in Honest, NEW key \in Key, NEW digest, digest \in DigestsOf(n, key)
    PROVE  AcceptedAs(Accepted(n, key), key, digest)
  BY DEF TypeInv, OneAccepted, Shape, AcceptedAs, Accepted, DigestsOf

\* An accepted PRE-PREPARE of a Byzantine replica, or of the primary itself.
LEMMA AcceptStep ==
    ASSUME TypeInv, NEW n \in Honest, NEW key \in Key, NEW digest \in Digest, NEW request \in Request,
           pre_prepares' = [pre_prepares EXCEPT ![n] =
                               {p \in @ : p[1] # key} \cup {<<key, digest, request>>}]
    PROVE  pre_prepares' \in [Honest -> SUBSET Entry] /\ OneAccepted'
<1>1. pre_prepares' \in [Honest -> SUBSET Entry]
  BY DEF TypeInv, Shape, Entry
<1>2. ASSUME NEW m \in Honest, NEW k \in Key, NEW p \in Accepted(m, k)', NEW q \in Accepted(m, k)'
      PROVE  p = q
  <2>1. CASE m = n /\ k = key
    BY <1>2, <2>1 DEF TypeInv, Shape, Accepted
  <2>2. CASE ~(m = n /\ k = key)
    <3>1. p \in Accepted(m, k) /\ q \in Accepted(m, k)
      BY <1>2, <2>2 DEF TypeInv, Shape, Accepted
    <3> QED
      BY <3>1 DEF TypeInv, OneAccepted
  <2> QED
    BY <2>1, <2>2
<1> QED
  BY <1>1, <1>2 DEF OneAccepted

\* Every handler, and every call of propose and trigger_view_change.
LEMMA NextTypeInv == TypeInv /\ [Next]_vars => TypeInv'
<1> SUFFICES ASSUME TypeInv, [Next]_vars PROVE TypeInv'
  OBVIOUS
<1>1. ASSUME NEW n \in Honest, NEW r \in Request, NEW handled, HandleRequest(n, r, handled)
      PROVE  /\ pre_prepares' \in [Honest -> SUBSET Entry] /\ OneAccepted'
             /\ seq_num' \in [Honest -> 0 .. MaxSeq]
             /\ requests' \subseteq Request \X Node
             /\ UNCHANGED <<viewVars, prepares, commits, prepared_predicate, executed>>
  <2> DEFINE key == <<view[n], seq_num[n] + 1>>
             d == digestOf(r)
  <2>0. \A v \in View : primary(v) \in Node
    <3>1. total_nodes \in Nat /\ total_nodes > 0
      BY PBFTAssumption, FS_CardinalityType, FS_EmptySet DEF total_nodes
    <3>2. \A v \in View : v % total_nodes \in 0 .. total_nodes - 1
      BY <3>1, PBFTAssumption DEF View
    <3> QED
      BY <3>2, PBFTAssumption DEF primary
  <2>1. CASE n = primary(view[n])
    <3>1. /\ seq_num[n] < MaxSeq
          /\ seq_num' = [seq_num EXCEPT ![n] = @ + 1]
          /\ pre_prepares' = [pre_prepares EXCEPT ![n] =
                                  {p \in @ : p[1] # key} \cup {<<key, d, r>>}]
          /\ requests' = requests \ handled
          /\ UNCHANGED <<viewVars, prepares, commits, prepared_predicate, executed>>
      BY <1>1, <2>1 DEF HandleRequest
    <3>2. key \in Key /\ d \in Digest /\ seq_num[n] + 1 \in 0 .. MaxSeq
      BY <3>1, PBFTAssumption DEF TypeInv, Shape, Key, SeqNum, Digest
    <3>3. pre_prepares' \in [Honest -> SUBSET Entry] /\ OneAccepted'
      <4> HIDE DEF key, d
      <4> QED
        BY <3>1, <3>2, AcceptStep
    <3> QED
      BY <3>1, <3>2, <3>3 DEF TypeInv, Shape
  <2>2. CASE n # primary(view[n])
    <3>1. /\ requests' = (requests \ handled) \cup {<<r, primary(view[n])>>}
          /\ UNCHANGED <<viewVars, seq_num, pre_prepares, prepares, commits,
                         prepared_predicate, executed>>
      BY <1>1, <2>2 DEF HandleRequest
    <3>2. primary(view[n]) \in Node
      BY <2>0 DEF TypeInv, Shape
    <3> QED
      BY <3>1, <3>2 DEF TypeInv, Shape, OneAccepted, Accepted
  <2> QED
    BY <2>1, <2>2
<1>2. ASSUME NEW n \in Honest, NEW r \in Request, Propose(n, r) \/ ReceiveRequest(n, r)
      PROVE  TypeInv'
  <2>1. /\ \E handled : HandleRequest(n, r, handled)
        /\ proposed' \subseteq Request
    BY <1>2 DEF Propose, ReceiveRequest, TypeInv, Shape
  <2> QED
    BY <1>1, <2>1 DEF TypeInv, Shape, ExecutedPrepared, viewVars
<1>3. ASSUME NEW n \in Honest, NEW s \in Node, NEW key \in Key, NEW d \in Digest,
             NEW r \in Request, HandlePrePrepare(n, s, key, d, r)
      PROVE  TypeInv'
  <2> DEFINE received == prepares[n] \cup {<<key, n, d>>}
             out == {Message("prepare", n, key, d)}
             accepted == {<<key, d, r>>}
  <2>1. /\ Accepted(n, key) = {}
        /\ pre_prepares' = [pre_prepares EXCEPT ![n] = @ \cup accepted]
        /\ prepares' = [prepares EXCEPT ![n] = received]
        /\ CheckPrepared(n, key, d, received, out, accepted)
        /\ UNCHANGED <<viewVars, clientVars, seq_num>>
    BY <1>3 DEF HandlePrePrepare
  <2>2. {p \in pre_prepares[n] : p[1] # key} = pre_prepares[n]
    BY <2>1 DEF Accepted
  <2>3. pre_prepares' = [pre_prepares EXCEPT ![n] =
                            {p \in @ : p[1] # key} \cup {<<key, d, r>>}]
    BY <2>1, <2>2
  <2>4. pre_prepares' \in [Honest -> SUBSET Entry] /\ OneAccepted'
    BY <2>3, AcceptStep
  <2>5. AcceptedAs(accepted, key, d)
    BY DEF AcceptedAs, Entry
  <2>6. prepares' \in [Honest -> SUBSET Votes]
    BY <2>1 DEF TypeInv, Shape, Votes, Honest
  <2>7. /\ commits' \in [Honest -> SUBSET Votes]
        /\ prepared_predicate' \in [Honest -> SUBSET Key]
        /\ executed' \in [Honest -> SUBSET Entry]
        /\ ExecutedPrepared'
    <3> HIDE DEF accepted, received, out
    <3> QED
      BY <2>1, <2>5, CheckPreparedTypes DEF TypeInv
  <2> QED
    BY <2>1, <2>4, <2>6, <2>7 DEF TypeInv, Shape, viewVars, clientVars
<1>4. ASSUME NEW n \in Honest, NEW s \in Node, NEW key \in Key, NEW d \in Digest,
             HandlePrepare(n, s, key, d)
      PROVE  TypeInv'
  <2> DEFINE received == prepares[n] \cup {<<key, s, d>>}
  <2>1. /\ prepares' = [prepares EXCEPT ![n] = received]
        /\ UNCHANGED <<viewVars, clientVars, seq_num, pre_prepares>>
    BY <1>4 DEF HandlePrepare
  <2>2. prepares' \in [Honest -> SUBSET Votes]
    BY <2>1 DEF TypeInv, Shape, Votes
  <2>3. /\ commits' \in [Honest -> SUBSET Votes]
        /\ prepared_predicate' \in [Honest -> SUBSET Key]
        /\ executed' \in [Honest -> SUBSET Entry]
        /\ ExecutedPrepared'
    <3>1. CASE d \in DigestsOf(n, key)
      <4>1. CheckPrepared(n, key, d, received, {}, Accepted(n, key))
        BY <1>4, <3>1 DEF HandlePrepare
      <4>2. AcceptedAs(Accepted(n, key), key, d)
        BY <3>1, AcceptedIsAs
      <4> HIDE DEF received
      <4> QED
        BY <4>1, <4>2, CheckPreparedTypes DEF TypeInv
    <3>2. CASE d \notin DigestsOf(n, key)
      BY <1>4, <3>2 DEF HandlePrepare, TypeInv, Shape, ExecutedPrepared
    <3> QED
      BY <3>1, <3>2
  <2> QED
    BY <2>1, <2>2, <2>3 DEF TypeInv, Shape, viewVars, clientVars, OneAccepted, Accepted
<1>5. ASSUME NEW n \in Honest, NEW s \in Node, NEW key \in Key, NEW d \in Digest,
             HandleCommit(n, s, key, d)
      PROVE  TypeInv'
  <2> DEFINE received == commits[n] \cup {<<key, s, d>>}
  <2>1. /\ commits' = [commits EXCEPT ![n] = received]
        /\ UNCHANGED <<viewVars, clientVars, seq_num, pre_prepares, prepares, prepared_predicate>>
    BY <1>5 DEF HandleCommit
  <2>2. commits' \in [Honest -> SUBSET Votes]
    BY <2>1 DEF TypeInv, Shape, Votes
  <2>3. executed' \in [Honest -> SUBSET Entry] /\ ExecutedPrepared'
    <3>1. CASE d \in DigestsOf(n, key)
      <4> DEFINE keys == prepared_predicate[n]
      <4>1. CheckCommitted(n, key, d, received, keys, Accepted(n, key))
        BY <1>5, <3>1 DEF HandleCommit
      <4>2. AcceptedAs(Accepted(n, key), key, d)
        BY <3>1, AcceptedIsAs
      <4>3. /\ prepared_predicate' = [prepared_predicate EXCEPT ![n] = keys]
            /\ prepared_predicate[n] \subseteq keys /\ keys \in SUBSET Key
        BY <2>1 DEF TypeInv, Shape
      <4> HIDE DEF received, keys
      <4> QED
        BY <4>1, <4>2, <4>3, CheckCommittedTypes DEF TypeInv
    <3>2. CASE d \notin DigestsOf(n, key)
      BY <1>5, <3>2 DEF HandleCommit, TypeInv, Shape, ExecutedPrepared
    <3> QED
      BY <3>1, <3>2
  <2> QED
    BY <2>1, <2>2, <2>3 DEF TypeInv, Shape, viewVars, clientVars, OneAccepted, Accepted
<1>6. ASSUME NEW n \in Honest, NEW s \in Node, NEW v \in View,
             HandleViewChange(n, s, v) \/ HandleNewView(n, s, v)
      PROVE  TypeInv'
  BY <1>6 DEF HandleViewChange, HandleNewView, TypeInv, Shape, OneAccepted, Accepted,
              ExecutedPrepared, clientVars
<1>7. ASSUME NEW n \in Honest, TriggerViewChange(n) PROVE TypeInv'
  <2>1. view[n] + 1 \in View /\ n \in Node
    BY <1>7, PBFTAssumption DEF TriggerViewChange, TypeInv, Shape, View, Honest
  <2> QED
    BY <1>7, <2>1 DEF TriggerViewChange, TypeInv, Shape, OneAccepted, Accepted,
                      ExecutedPrepared, clientVars
<1>8. CASE UNCHANGED vars
  BY <1>8 DEF vars, viewVars, clientVars, TypeInv, Shape, OneAccepted, Accepted, ExecutedPrepared
<1> QED
  BY <1>2, <1>3, <1>4, <1>5, <1>6, <1>7, <1>8 DEF Next, Receive

\* Nothing is accepted or executed before the first request.
LEMMA InitTypeInv == Init => TypeInv
<1>1. 0 \in View /\ 0 \in 0 .. MaxSeq
  BY PBFTAssumption DEF View
<1> QED
  BY <1>1 DEF Init, TypeInv, Shape, OneAccepted, Accepted, ExecutedPrepared

LEMMA TypeInvHolds == Spec => []TypeInv
  BY InitTypeInv, NextTypeInv, PTL DEF Spec

-------------------------------------------------------------------------------
(* What the invariant is for.                                                 *)

\* An executed request has 2f + 1 commits, f + 1 of honest replicas that sent them.
LEMMA InvImpliesBacked == FewFaults /\ TypeInv /\ CommitInv => ExecutedIsBacked
<1> SUFFICES ASSUME FewFaults, TypeInv, CommitInv, NEW n \in Honest, NEW x \in executed[n]
             PROVE  Cardinality({m \in Honest : Message("commit", m, x[1], x[2]) \in msgs}) >= f + 1
  BY DEF ExecutedIsBacked
<1> DEFINE S == Senders(commits[n], x[1], x[2])
           B == {m \in Honest : Message("commit", m, x[1], x[2]) \in msgs}
<1>1. x[1] \in Key /\ x[2] \in Digest
  BY DEF TypeInv, Shape, Entry
<1>2. Cardinality(S) >= CommitQuorum /\ S \in SUBSET Node
  BY DEF CommitInv, Counted, Senders
<1>3. IsFiniteSet(S \cap Honest) /\ Cardinality(S \cap Honest) >= f + 1
  BY <1>2, HonestPart
<1>4. S \cap Honest \subseteq B
  BY <1>1 DEF CommitInv, HeardWasSaid, Said, Senders
<1>5. IsFiniteSet(B)
  BY PBFTAssumption, FS_Subset DEF Honest
<1>6. Cardinality(S \cap Honest) <= Cardinality(B)
  BY <1>4, <1>5, FS_Subset
<1>7. Cardinality(S \cap Honest) \in Nat /\ Cardinality(B) \in Nat
  BY <1>3, <1>5, FS_CardinalityType
<1> QED
  BY <1>3, <1>6, <1>7, Numbers

\* The honest replica in both quorums sent one commit for the key, and a digest is
\* made from one request.
LEMMA InvImpliesAgreement == FewFaults /\ TypeInv /\ CommitInv => AgreementInView
<1> SUFFICES ASSUME FewFaults, TypeInv, CommitInv, NEW m \in Honest, NEW n \in Honest,
                    NEW x \in executed[m], NEW y \in executed[n], x[1] = y[1]
             PROVE  x[2] = y[2]
  BY DEF AgreementInView, Genuine, digestOf
<1>1. x[1] \in Key /\ x[2] \in Digest /\ y[2] \in Digest
  BY DEF TypeInv, Shape, Entry
<1>2. /\ Cardinality(Senders(commits[m], x[1], x[2])) >= CommitQuorum
      /\ Cardinality(Senders(commits[n], x[1], y[2])) >= CommitQuorum
  BY DEF CommitInv, Counted
<1>3. PICK s \in Honest : /\ s \in Senders(commits[m], x[1], x[2])
                          /\ s \in Senders(commits[n], x[1], y[2])
  BY <1>2, QuorumsIntersect DEF Senders
<1>4. Said(s, x[1], x[2]) /\ Said(s, x[1], y[2])
  BY <1>1, <1>3 DEF CommitInv, HeardWasSaid, Senders
<1> QED
  BY <1>1, <1>4 DEF CommitInv, SaidOnce

-------------------------------------------------------------------------------
(* The steps.                                                                 *)

\* Nothing is said, heard or executed before the first request.
LEMMA InitCommitInv == Init => CommitInv
  BY DEF Init, CommitInv, SaidWhenPrepared, SaidOnce, HeardWasSaid, Counted, Said

\* A step that says no commit and leaves the commit phase's state alone: requests
\* and view changes, and prepares that complete nothing.
LEMMA QuietStep ==
    ASSUME CommitInv, NEW out, \A m \in out : m.type # "commit",
           msgs' = msgs \cup out, UNCHANGED <<prepared_predicate, commits, executed>>
    PROVE  CommitInv'
<1>1. \A m \in Node, key \in Key, d \in Digest : Said(m, key, d)' <=> Said(m, key, d)
  BY DEF Said, Message
<1>2. Honest \subseteq Node
  BY DEF Honest
<1>3. SaidWhenPrepared' /\ SaidOnce' /\ HeardWasSaid'
  BY <1>1, <1>2 DEF CommitInv, SaidWhenPrepared, SaidOnce, HeardWasSaid
<1>4. Counted'
  BY DEF CommitInv, Counted
<1> QED
  BY <1>3, <1>4 DEF CommitInv

\* A step that says nothing at all.
LEMMA SilentStep ==
    ASSUME CommitInv, UNCHANGED <<prepared_predicate, commits, executed, msgs>>
    PROVE  CommitInv'
<1> DEFINE out == {}
<1>1. msgs' = msgs \cup out /\ UNCHANGED <<prepared_predicate, commits, executed>>
  OBVIOUS
<1>2. \A m \in out : m.type # "commit"
  OBVIOUS
<1> HIDE DEF out
<1> QED
  BY <1>1, <1>2, QuietStep

\* More commits for a replica leave the quorums counted before.
LEMMA MoreSenders ==
    ASSUME NEW old, NEW new, old \subseteq new, NEW key, NEW d,
           Cardinality(Senders(old, key, d)) >= CommitQuorum
    PROVE  Cardinality(Senders(new, key, d)) >= CommitQuorum
<1>1. Senders(old, key, d) \subseteq Senders(new, key, d) /\ Senders(new, key, d) \subseteq Node
  BY DEF Senders
<1>2. IsFiniteSet(Senders(new, key, d))
  BY <1>1, PBFTAssumption, FS_Subset
<1>3. /\ IsFiniteSet(Senders(old, key, d))
      /\ Cardinality(Senders(old, key, d)) <= Cardinality(Senders(new, key, d))
  BY <1>1, <1>2, FS_Subset
<1>4. Cardinality(Senders(old, key, d)) \in Nat /\ Cardinality(Senders(new, key, d)) \in Nat
  BY <1>2, <1>3, FS_CardinalityType
<1> QED
  BY <1>3, <1>4, Numbers

\* check_committed executes what a quorum has committed, whatever else changed.
LEMMA CheckCommittedStep ==
    ASSUME Shape, Counted, NEW n \in Honest, NEW key \in Key, NEW digest \in Digest,
           NEW received, NEW preparedKeys, NEW accepted, AcceptedAs(accepted, key, digest),
           commits[n] \subseteq received,
           commits' = [commits EXCEPT ![n] = received],
           \/ CheckCommitted(n, key, digest, received, preparedKeys, accepted)
           \/ UNCHANGED executed
    PROVE  Counted'
<1>1. ASSUME NEW m \in Honest, NEW x \in executed'[m]
      PROVE  Cardinality(Senders(commits'[m], x[1], x[2])) >= CommitQuorum
  <2>1. commits[m] \subseteq commits'[m] /\ commits'[n] = received
    BY DEF Shape
  <2>2. CASE x \in executed[m]
    BY <2>1, <2>2, MoreSenders DEF Counted
  <2>3. CASE x \notin executed[m]
    <3>1. /\ m = n /\ x \in accepted
          /\ Cardinality(Senders(received, key, digest)) >= CommitQuorum
      BY <1>1, <2>3 DEF CheckCommitted, Shape
    <3>2. x[1] = key /\ x[2] = digest
      BY <3>1 DEF AcceptedAs
    <3> QED
      BY <2>1, <3>1, <3>2
  <2> QED
    BY <2>2, <2>3
<1> QED
  BY <1>1 DEF Counted

\* check_prepared says the one commit of this replica for the key: had it said
\* one before, the key would be in prepared_predicate.
LEMMA CheckPreparedStep ==
    ASSUME TypeInv, CommitInv, NEW n \in Honest, NEW key \in Key, NEW digest \in Digest,
           NEW received, NEW out, \A m \in out : m.type # "commit",
           NEW accepted, AcceptedAs(accepted, key, digest),
           CheckPrepared(n, key, digest, received, out, accepted)
    PROVE  CommitInv'
<1>1. CASE ~(/\ key \notin prepared_predicate[n]
             /\ Cardinality(Senders(received, key, digest)) >= PreparedQuorum)
  BY <1>1, QuietStep DEF CheckPrepared
<1>2. CASE /\ key \notin prepared_predicate[n]
           /\ Cardinality(Senders(received, key, digest)) >= PreparedQuorum
  <2> DEFINE mine == commits[n] \cup {<<key, n, digest>>}
  <2>1. /\ prepared_predicate' = [prepared_predicate EXCEPT ![n] = @ \cup {key}]
        /\ commits' = [commits EXCEPT ![n] = mine]
        /\ msgs' = msgs \cup out \cup {Message("commit", n, key, digest)}
        /\ CheckCommitted(n, key, digest, commits'[n], prepared_predicate'[n], accepted)
    BY <1>2 DEF CheckPrepared
  <2>2. Shape /\ SaidWhenPrepared /\ SaidOnce /\ HeardWasSaid /\ Counted
    BY DEF TypeInv, CommitInv
  <2>3. n \in Node /\ commits'[n] = mine /\ commits[n] \subseteq mine
    BY <2>1, <2>2 DEF Honest, Shape
  <2>4. Counted'
    <3>1. commits' = [commits EXCEPT ![n] = mine]
      BY <2>1
    <3>2. CheckCommitted(n, key, digest, mine, prepared_predicate'[n], accepted)
      BY <2>1, <2>3
    <3> HIDE DEF mine
    <3> QED
      BY <2>2, <2>3, <3>1, <3>2, CheckCommittedStep
  <2>6. \A m \in Honest, k \in Key, d \in Digest :
           Said(m, k, d)' <=> Said(m, k, d) \/ (m = n /\ k = key /\ d = digest)
    BY <2>1 DEF Said, Message
  <2>7. SaidWhenPrepared'
    BY <2>1, <2>2, <2>6 DEF SaidWhenPrepared, Shape
  <2>8. \A d \in Digest : ~Said(n, key, d)
    BY <1>2, <2>2 DEF SaidWhenPrepared
  <2>9. SaidOnce'
    BY <2>2, <2>6, <2>8 DEF SaidOnce
  <2>10. HeardWasSaid'
    BY <2>1, <2>2, <2>6 DEF HeardWasSaid, Shape
  <2> QED
    BY <2>4, <2>7, <2>9, <2>10 DEF CommitInv
<1> QED
  BY <1>1, <1>2

\* handle_commit hears what an honest replica said or a Byzantine one made up.
LEMMA HandleCommitStep ==
    ASSUME TypeInv, CommitInv, NEW n \in Honest, NEW s \in Node, NEW key \in Key,
           NEW digest \in Digest, HandleCommit(n, s, key, digest)
    PROVE  CommitInv'
<1> DEFINE received == commits[n] \cup {<<key, s, digest>>}
<1>1. /\ s \in Honest => Said(s, key, digest)
      /\ commits' = [commits EXCEPT ![n] = received]
      /\ \/ /\ digest \in DigestsOf(n, key)
            /\ CheckCommitted(n, key, digest, received, prepared_predicate[n], Accepted(n, key))
         \/ UNCHANGED executed
      /\ UNCHANGED <<prepared_predicate, msgs>>
  BY DEF HandleCommit, Sent, Said, Message, Honest
<1>2. Shape /\ SaidWhenPrepared /\ SaidOnce /\ HeardWasSaid /\ Counted
  BY DEF TypeInv, CommitInv
<1>3. commits[n] \subseteq received
  OBVIOUS
<1>4. Counted'
  <2>1. CASE /\ digest \in DigestsOf(n, key)
             /\ CheckCommitted(n, key, digest, received, prepared_predicate[n], Accepted(n, key))
    <3>1. AcceptedAs(Accepted(n, key), key, digest)
      BY <2>1, AcceptedIsAs
    <3> HIDE DEF received
    <3> QED
      BY <1>1, <1>2, <1>3, <2>1, <3>1, CheckCommittedStep
  <2>2. CASE UNCHANGED executed
    <3>1. AcceptedAs({}, key, digest)
      BY DEF AcceptedAs
    <3> HIDE DEF received
    <3> QED
      BY <1>1, <1>2, <1>3, <2>2, <3>1, CheckCommittedStep
  <2> QED
    BY <1>1, <2>1, <2>2
<1>5. SaidWhenPrepared' /\ SaidOnce'
  BY <1>1, <1>2 DEF SaidWhenPrepared, SaidOnce, Said
<1>6. HeardWasSaid'
  BY <1>1, <1>2 DEF HeardWasSaid, Said, Shape
<1> QED
  BY <1>4, <1>5, <1>6 DEF CommitInv

\* Every handler, and every call of propose and trigger_view_change.
LEMMA NextCommitInv == TypeInv /\ CommitInv /\ [Next]_vars => CommitInv'
<1> SUFFICES ASSUME TypeInv, CommitInv, [Next]_vars PROVE CommitInv'
  OBVIOUS
<1>1. ASSUME NEW n \in Honest, NEW r \in Request, NEW handled, HandleRequest(n, r, handled)
      PROVE  CommitInv'
  <2> DEFINE out == {PrePrepare(n, <<view[n], seq_num[n] + 1>>, digestOf(r), r)}
  <2>1. \A m \in out : m.type # "commit"
    BY DEF PrePrepare
  <2>2. /\ UNCHANGED <<prepared_predicate, commits, executed>>
        /\ UNCHANGED msgs \/ msgs' = msgs \cup out
    BY <1>1 DEF HandleRequest
  <2>3. CASE UNCHANGED msgs
    BY <2>2, <2>3, SilentStep
  <2>4. CASE msgs' = msgs \cup out
    <3> HIDE DEF out
    <3> QED
      BY <2>1, <2>2, <2>4, QuietStep
  <2> QED
    BY <2>2, <2>3, <2>4
<1>2. ASSUME NEW n \in Honest, NEW r \in Request, Propose(n, r) \/ ReceiveRequest(n, r)
      PROVE  CommitInv'
  BY <1>1, <1>2 DEF Propose, ReceiveRequest
<1>3. ASSUME NEW n \in Honest, NEW s \in Node, NEW key \in Key, NEW d \in Digest,
             NEW r \in Request, HandlePrePrepare(n, s, key, d, r)
      PROVE  CommitInv'
  <2>1. \A m \in {Message("prepare", n, key, d)} : m.type # "commit"
    BY DEF Message
  <2>2. AcceptedAs({<<key, d, r>>}, key, d)
    BY DEF AcceptedAs, Entry
  <2> QED
    BY <1>3, <2>1, <2>2, CheckPreparedStep DEF HandlePrePrepare
<1>4. ASSUME NEW n \in Honest, NEW s \in Node, NEW key \in Key, NEW d \in Digest,
             HandlePrepare(n, s, key, d)
      PROVE  CommitInv'
  <2> DEFINE received == prepares[n] \cup {<<key, s, d>>}
  <2>1. CASE /\ d \in DigestsOf(n, key)
             /\ CheckPrepared(n, key, d, received, {}, Accepted(n, key))
    BY <2>1, AcceptedIsAs, CheckPreparedStep
  <2>2. CASE UNCHANGED <<commits, prepared_predicate, executed, msgs>>
    BY <2>2, SilentStep
  <2> QED
    BY <1>4, <2>1, <2>2 DEF HandlePrepare
<1>5. ASSUME NEW n \in Honest, NEW s \in Node, NEW v \in View, HandleViewChange(n, s, v)
      PROVE  CommitInv'
  <2> DEFINE out == {ViewMessage("new-view", n, v)}
  <2>1. \A m \in out : m.type # "commit"
    BY DEF ViewMessage
  <2>2. /\ UNCHANGED <<prepared_predicate, commits, executed>>
        /\ UNCHANGED msgs \/ msgs' = msgs \cup out
    BY <1>5 DEF HandleViewChange
  <2> HIDE DEF out
  <2> QED
    BY <2>1, <2>2, QuietStep, SilentStep
<1>6. ASSUME NEW n \in Honest, NEW s \in Node, NEW v \in View, HandleNewView(n, s, v)
      PROVE  CommitInv'
  BY <1>6, SilentStep DEF HandleNewView
<1>7. ASSUME NEW n \in Honest, TriggerViewChange(n) PROVE CommitInv'
  <2> DEFINE out == {ViewMessage("view-change", n, view[n] + 1)}
  <2>1. \A m \in out : m.type # "commit"
    BY DEF ViewMessage
  <2>2. /\ UNCHANGED <<prepared_predicate, commits, executed>>
        /\ msgs' = msgs \cup out
    BY <1>7 DEF TriggerViewChange
  <2> HIDE DEF out
  <2> QED
    BY <2>1, <2>2, QuietStep
<1>8. CASE UNCHANGED vars
  BY <1>8, SilentStep DEF vars
<1> QED
  BY <1>2, <1>3, <1>4, <1>5, <1>6, <1>7, <1>8, HandleCommitStep DEF Next, Receive

\* The invariant in every reachable state.
LEMMA CommitInvHolds == Spec => [](TypeInv /\ CommitInv)
<1>1. Init => CommitInv
  BY InitCommitInv
<1>2. TypeInv /\ CommitInv /\ [Next]_vars => CommitInv'
  BY NextCommitInv
<1> QED
  BY <1>1, <1>2, TypeInvHolds, PTL DEF Spec

-------------------------------------------------------------------------------
(* The theorems.                                                              *)

\* The state keeps its shape, a key has one accepted PRE-PREPARE and only what is
\* prepared is executed, whatever Byzantine replicas send (handle_pre_prepare,
\* check_committed).
THEOREM TypesHold == Spec => []TypeOK
<1>1. TypeInv => TypeOK
  <2> SUFFICES ASSUME TypeInv PROVE TypeOK
    OBVIOUS
  <2>1. ASSUME NEW n \in Honest, NEW key \in Key PROVE Cardinality(Accepted(n, key)) <= 1
    <3>1. CASE Accepted(n, key) = {}
      BY <3>1, FS_EmptySet
    <3>2. CASE Accepted(n, key) # {}
      <4>1. PICK p \in Accepted(n, key) : Accepted(n, key) = {p}
        BY <3>2 DEF TypeInv, OneAccepted
      <4>2. Cardinality({p}) = 1
        BY FS_Singleton
      <4> QED
        BY <4>1, <4>2
    <3> QED
      BY <3>1, <3>2
  <2>2. \A n \in Honest : committed_predicate(n) \subseteq prepared_predicate[n]
    BY DEF TypeInv, ExecutedPrepared, committed_predicate
  <2> QED
    BY <2>1, <2>2 DEF TypeInv, Shape, TypeOK, Entry
<1> QED
  BY <1>1, TypeInvHolds, PTL

\* "Safety: All honest nodes agree", within a view: with 3f + 1 replicas and at most
\* f Byzantine ones, no two honest replicas execute different digests under one view
\* and sequence number, nor different requests where both PRE-PREPAREs were genuine
\* (check_prepared, check_committed); that they were is a condition, since a
\* Byzantine replica may embed another request (handle_pre_prepare).
THEOREM AgreementHolds == FewFaults => (Spec => []AgreementInView)
<1> SUFFICES ASSUME FewFaults PROVE Spec => []AgreementInView
  OBVIOUS
<1>1. TypeInv /\ CommitInv => AgreementInView
  BY InvImpliesAgreement
<1> QED
  BY <1>1, CommitInvHolds, PTL

\* "Consensus reached when 2f+1 nodes agree": under the same assumption, f + 1
\* honest replicas have said the commit of the digest of whatever one has executed
\* (check_committed).
THEOREM ExecutedHasQuorum == FewFaults => (Spec => []ExecutedIsBacked)
<1> SUFFICES ASSUME FewFaults PROVE Spec => []ExecutedIsBacked
  OBVIOUS
<1>1. TypeInv /\ CommitInv => ExecutedIsBacked
  BY InvImpliesBacked
<1> QED
  BY <1>1, CommitInvHolds, PTL

-------------------------------------------------------------------------------
(* View changes.  Every vote of an honest replica that is in a log has been   *)
(* sent, so a view that 2f + 1 votes lead to was asked for by f + 1 honest    *)
(* replicas, and so was every view a NEW-VIEW names.                          *)

AskedEnough(v) == Cardinality(Asked(v)) >= f + 1

Logged ==
    \A n, m \in Honest, v \in View : <<v, m>> \in view_change_log[n] => m \in Asked(v)

Announced ==
    \A m \in Node, v \in View : ViewMessage("new-view", m, v) \in msgs => AskedEnough(v)

Entered == \A n \in Honest : view[n] > 0 => AskedEnough(view[n])

ViewInv ==
    /\ view \in [Honest -> View]
    /\ view_change_log = [n \in Honest |-> view_change_log[n]]
    /\ Logged /\ Announced /\ Entered

\* What has been asked stays asked.
LEMMA AskedGrows ==
    ASSUME msgs \subseteq msgs', NEW v
    PROVE  /\ Asked(v) \subseteq Asked(v)'
           /\ AskedEnough(v) => AskedEnough(v)'
<1>1. Asked(v) \subseteq Asked(v)' /\ Asked(v)' \subseteq Node
  BY DEF Asked, Honest
<1>2. IsFiniteSet(Asked(v)')
  BY <1>1, PBFTAssumption, FS_Subset
<1>3. /\ Cardinality(Asked(v)) <= Cardinality(Asked(v)')
      /\ Cardinality(Asked(v)) \in Nat /\ Cardinality(Asked(v)') \in Nat
  BY <1>1, <1>2, FS_Subset, FS_CardinalityType
<1> QED
  BY <1>1, <1>3, Numbers DEF AskedEnough

\* A step that leaves views alone and announces none.
LEMMA ViewQuietStep ==
    ASSUME ViewInv, UNCHANGED <<view, view_change_log>>, NEW out,
           \A m \in out : m.type # "new-view",
           msgs' = msgs \cup out
    PROVE  ViewInv'
<1>1. \A v : AskedEnough(v) => AskedEnough(v)'
  BY AskedGrows
<1>2. \A v : Asked(v) \subseteq Asked(v)'
  BY AskedGrows
<1>3. \A m \in Node, v \in View :
         ViewMessage("new-view", m, v) \in msgs' => ViewMessage("new-view", m, v) \in msgs
  BY DEF ViewMessage
<1>4. Logged' /\ Announced' /\ Entered'
  BY <1>1, <1>2, <1>3 DEF ViewInv, Logged, Announced, Entered
<1> QED
  BY <1>4 DEF ViewInv

\* The three phases broadcast other messages.
LEMMA PhaseStep ==
    ASSUME ViewInv, UNCHANGED viewVars, NEW n, NEW key, NEW digest, NEW received, NEW out,
           NEW accepted, \A m \in out : m.type # "new-view",
           CheckPrepared(n, key, digest, received, out, accepted)
    PROVE  ViewInv'
<1> DEFINE more == out \cup {Message("commit", n, key, digest)}
<1>1. \A m \in more : m.type # "new-view"
  BY DEF Message
<1>2. msgs' = msgs \cup out \/ msgs' = msgs \cup more
  BY DEF CheckPrepared
<1>3. UNCHANGED <<view, view_change_log>>
  BY DEF viewVars
<1> HIDE DEF more
<1> QED
  BY <1>1, <1>2, <1>3, ViewQuietStep

LEMMA ViewSilentStep ==
    ASSUME ViewInv, UNCHANGED <<view, view_change_log, msgs>>
    PROVE  ViewInv'
<1> DEFINE out == {}
<1>1. msgs' = msgs \cup out /\ \A m \in out : m.type # "new-view"
  OBVIOUS
<1> HIDE DEF out
<1> QED
  BY <1>1, ViewQuietStep

\* handle_view_change: of 2f + 1 votes f + 1 at least are honest.
LEMMA HandleViewChangeStep ==
    ASSUME FewFaults, ViewInv, NEW n \in Honest, NEW s \in Node, NEW v \in View,
           HandleViewChange(n, s, v)
    PROVE  ViewInv'
<1> DEFINE logged == view_change_log[n] \cup {<<v, s>>}
           senders == {r \in Node : <<v, r>> \in logged}
<1>1. /\ Sent(ViewMessage("view-change", s, v))
      /\ view_change_log' = [view_change_log EXCEPT ![n] = logged]
      /\ \/ /\ Cardinality(senders) >= ViewChangeQuorum
            /\ view' = [view EXCEPT ![n] = v]
            /\ msgs' = msgs \cup {ViewMessage("new-view", n, v)}
         \/ UNCHANGED <<view, msgs>>
  BY DEF HandleViewChange
<1>2. s \in Honest => s \in Asked(v)
  BY <1>1 DEF Sent, Asked, ViewMessage, Honest
<1>3. msgs \subseteq msgs'
  BY <1>1
<1>4. \A u : Asked(u) \subseteq Asked(u)' /\ (AskedEnough(u) => AskedEnough(u)')
  BY <1>3, AskedGrows
<1>5. Logged'
  BY <1>1, <1>2, <1>4 DEF ViewInv, Logged
<1>6. CASE UNCHANGED <<view, msgs>>
  BY <1>1, <1>4, <1>5, <1>6 DEF ViewInv, Announced, Entered
<1>7. CASE /\ Cardinality(senders) >= ViewChangeQuorum
           /\ view' = [view EXCEPT ![n] = v]
           /\ msgs' = msgs \cup {ViewMessage("new-view", n, v)}
  <2>1. IsFiniteSet(senders \cap Honest) /\ Cardinality(senders \cap Honest) >= f + 1
    <3>1. senders \in SUBSET Node /\ Cardinality(senders) >= CommitQuorum
      BY <1>7 DEF ViewChangeQuorum, CommitQuorum
    <3> HIDE DEF senders
    <3> QED
      BY <3>1, HonestPart
  <2>2. senders \cap Honest \subseteq Asked(v)
    BY <1>2 DEF ViewInv, Logged
  <2>3. AskedEnough(v)
    <3>1. IsFiniteSet(Asked(v))
      <4>1. Asked(v) \subseteq Node
        BY DEF Asked, Honest
      <4> QED
        BY <4>1, PBFTAssumption, FS_Subset
    <3>2. /\ Cardinality(senders \cap Honest) <= Cardinality(Asked(v))
          /\ Cardinality(senders \cap Honest) \in Nat /\ Cardinality(Asked(v)) \in Nat
      BY <2>1, <2>2, <3>1, FS_Subset, FS_CardinalityType
    <3> HIDE DEF senders
    <3> QED
      BY <2>1, <3>2, Numbers DEF AskedEnough
  <2>4. Announced'
    <3> SUFFICES ASSUME NEW m \in Node, NEW u \in View, ViewMessage("new-view", m, u) \in msgs'
                 PROVE  AskedEnough(u)'
      BY DEF Announced
    <3>1. ViewMessage("new-view", m, u) \in msgs \/ u = v
      BY <1>7 DEF ViewMessage
    <3> QED
      BY <1>4, <2>3, <3>1 DEF ViewInv, Announced
  <2>5. Entered'
    BY <1>4, <1>7, <2>3 DEF ViewInv, Entered
  <2>6. view' \in [Honest -> View]
    BY <1>7 DEF ViewInv
  <2>7. view_change_log' = [m \in Honest |-> view_change_log'[m]]
    BY <1>1 DEF ViewInv
  <2> QED
    BY <1>5, <2>4, <2>5, <2>6, <2>7 DEF ViewInv
<1> QED
  BY <1>1, <1>6, <1>7

LEMMA NextViewInv ==
    ASSUME FewFaults, "new-view" \notin Lies, ViewInv, [Next]_vars
    PROVE  ViewInv'
<1>1. ASSUME NEW n \in Honest, NEW r \in Request, NEW handled, HandleRequest(n, r, handled)
      PROVE  ViewInv'
  <2> DEFINE out == {PrePrepare(n, <<view[n], seq_num[n] + 1>>, digestOf(r), r)}
  <2>1. \A m \in out : m.type # "new-view"
    BY DEF PrePrepare
  <2>2. /\ UNCHANGED <<view, view_change_log>>
        /\ UNCHANGED msgs \/ msgs' = msgs \cup out
    BY <1>1 DEF HandleRequest, viewVars
  <2> HIDE DEF out
  <2> QED
    BY <2>1, <2>2, ViewQuietStep, ViewSilentStep
<1>2. ASSUME NEW n \in Honest, NEW r \in Request, Propose(n, r) \/ ReceiveRequest(n, r)
      PROVE  ViewInv'
  BY <1>1, <1>2 DEF Propose, ReceiveRequest
<1>3. ASSUME NEW n \in Honest, NEW s \in Node, NEW key \in Key, NEW d \in Digest,
             NEW r \in Request, HandlePrePrepare(n, s, key, d, r)
      PROVE  ViewInv'
  <2>1. \A m \in {Message("prepare", n, key, d)} : m.type # "new-view"
    BY DEF Message
  <2> QED
    BY <1>3, <2>1, PhaseStep DEF HandlePrePrepare
<1>4. ASSUME NEW n \in Honest, NEW s \in Node, NEW key \in Key, NEW d \in Digest,
             HandlePrepare(n, s, key, d)
      PROVE  ViewInv'
  <2> DEFINE received == prepares[n] \cup {<<key, s, d>>}
  <2>1. UNCHANGED viewVars
    BY <1>4 DEF HandlePrepare
  <2>2. CASE CheckPrepared(n, key, d, received, {}, Accepted(n, key))
    BY <2>1, <2>2, PhaseStep
  <2>3. CASE UNCHANGED msgs
    BY <2>1, <2>3, ViewSilentStep DEF viewVars
  <2> QED
    BY <1>4, <2>2, <2>3 DEF HandlePrepare
<1>5. ASSUME NEW n \in Honest, NEW s \in Node, NEW key \in Key, NEW d \in Digest,
             HandleCommit(n, s, key, d)
      PROVE  ViewInv'
  BY <1>5, ViewSilentStep DEF HandleCommit, viewVars
<1>6. ASSUME NEW n \in Honest, NEW s \in Node, NEW v \in View, HandleNewView(n, s, v)
      PROVE  ViewInv'
  <2>1. AskedEnough(v)
    BY <1>6 DEF HandleNewView, Sent, ViewMessage, ViewInv, Announced
  <2>2. \A u : Asked(u)' = Asked(u) /\ (AskedEnough(u)' <=> AskedEnough(u))
    BY <1>6 DEF HandleNewView, Asked, AskedEnough
  <2> QED
    BY <1>6, <2>1, <2>2 DEF HandleNewView, ViewInv, Logged, Announced, Entered
<1>7. ASSUME NEW n \in Honest, TriggerViewChange(n) PROVE ViewInv'
  <2> DEFINE v == view[n] + 1
  <2>1. msgs' = msgs \cup {ViewMessage("view-change", n, v)} /\ UNCHANGED view
        /\ view_change_log' = [view_change_log EXCEPT ![n] = @ \cup {<<v, n>>}]
    BY <1>7 DEF TriggerViewChange
  <2>2. \A u : Asked(u) \subseteq Asked(u)' /\ (AskedEnough(u) => AskedEnough(u)')
    BY <2>1, AskedGrows
  <2>3. n \in Asked(v)'
    BY <2>1 DEF Asked
  <2>4. Logged'
    BY <2>1, <2>2, <2>3 DEF ViewInv, Logged
  <2>5. \A m \in Node, u \in View :
           ViewMessage("new-view", m, u) \in msgs' => ViewMessage("new-view", m, u) \in msgs
    BY <2>1 DEF ViewMessage
  <2>6. Announced' /\ Entered'
    BY <2>1, <2>2, <2>5 DEF ViewInv, Announced, Entered
  <2> QED
    BY <2>1, <2>4, <2>6 DEF ViewInv
<1>8. CASE UNCHANGED vars
  BY <1>8, ViewSilentStep DEF vars
<1> QED
  BY <1>2, <1>3, <1>4, <1>5, <1>6, <1>7, <1>8, HandleViewChangeStep DEF Next, Receive

\* With 3f + 1 replicas and at most f Byzantine ones, which may send anything but a
\* NEW-VIEW, a replica is in a later view only if f + 1 honest ones asked for it
\* (trigger_view_change, handle_view_change, handle_new_view).
THEOREM ViewsWereAskedFor == FewFaults => (Spec => []ViewsAreAskedFor)
<1> SUFFICES ASSUME FewFaults PROVE Spec => []ViewsAreAskedFor
  OBVIOUS
<1>1. CASE "new-view" \in Lies
  <2>1. ViewsAreAskedFor
    BY <1>1 DEF ViewsAreAskedFor
  <2> QED
    BY <2>1, PTL
<1>2. CASE "new-view" \notin Lies
  <2>1. Init => ViewInv
    <3>1. 0 \in View
      BY PBFTAssumption DEF View
    <3> QED
      BY <3>1 DEF Init, ViewInv, Logged, Announced, Entered
  <2>2. ViewInv /\ [Next]_vars => ViewInv'
    BY <1>2, NextViewInv
  <2>3. ViewInv => ViewsAreAskedFor
    BY DEF ViewInv, Entered, AskedEnough, ViewsAreAskedFor
  <2> QED
    BY <2>1, <2>2, <2>3, PTL DEF Spec
<1> QED
  BY <1>1, <1>2
===============================================================================
