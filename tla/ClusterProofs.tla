---------------------------- MODULE ClusterProofs ----------------------------
(***************************************************************************)
(* Proofs about services whose nodes come to agree.  The three elections,   *)
(* for any nodes: only the highest id is elected in a ring, a lower leader  *)
(* is answered by the highest node when nodes are bullied, and the first    *)
(* term of leases elects one leader.  Membership lists: a view is the gravest news heard.  Read   *)
(* repair: what a causal session accepts is causally ordered.               *)
(***************************************************************************)
EXTENDS BullyElection, RingElection, LeaseElection, Membership, ReadRepair,
        FiniteSetTheorems, WellFoundedInduction, TLAPS

-----------------------------------------------------------------------------
(* Least and greatest ids.                                                  *)

LEMMA LeastNumber ==
  ASSUME NEW T \in SUBSET Nat, T # {}
  PROVE  \E x \in T : \A y \in T : x <= y
<1> DEFINE R == {ss \in Nat \X Nat : ss[1] < ss[2]}
<1>1. IsWellFoundedOn(R, Nat)
  BY NatLessThanWellFounded DEF OpToRel
<1>2. PICK x \in T : \A y \in T : ~ (<<y, x>> \in R)
  <2> HIDE DEF R
  <2> QED BY <1>1, WFMin
<1>3. ASSUME NEW y \in T PROVE x <= y
  <2>1. ~ (<<y, x>> \in {ss \in Nat \X Nat : ss[1] < ss[2]})
    BY <1>2
  <2>2. <<y, x>> \in Nat \X Nat /\ x \in Nat /\ y \in Nat
    OBVIOUS
  <2>3. ~ (y < x)
    BY <2>1, <2>2
  <2> QED BY <2>2, <2>3
<1> QED BY <1>3

LEMMA MinIsLeast ==
  ASSUME NEW S \in SUBSET Nat, S # {}
  PROVE  Min(S) \in S /\ \A y \in S : Min(S) <= y
<1>1. \E x \in S : \A y \in S : x <= y
  BY LeastNumber
<1> QED BY <1>1 DEF Min

\* The greatest is the one with the fewest above it.
LEMMA MaxIsGreatest ==
  ASSUME NEW S \in SUBSET Nat, S # {}, IsFiniteSet(S)
  PROVE  Max(S) \in S /\ \A y \in S : Max(S) >= y
<1> DEFINE Above(x) == {y \in S : y > x}
           Counts == {Cardinality(Above(x)) : x \in S}
<1>1. \A x \in S : IsFiniteSet(Above(x)) /\ Cardinality(Above(x)) \in Nat
  BY FS_Subset, FS_CardinalityType
<1>2. PICK x \in S : \A y \in S : Cardinality(Above(x)) <= Cardinality(Above(y))
  <2>1. Counts \in SUBSET Nat /\ Counts # {}
    BY <1>1
  <2>2. PICK n \in Counts : \A m \in Counts : n <= m
    <3> HIDE DEF Counts
    <3> QED BY <2>1, LeastNumber
  <2> QED BY <2>2
<1>3. ASSUME NEW y \in S PROVE x >= y
  <2> SUFFICES ASSUME y > x PROVE FALSE
    OBVIOUS
  <2>0. x \in Nat /\ y \in Nat /\ \A z \in S : z \in Nat
    OBVIOUS
  <2>1. Above(y) \subseteq Above(x) /\ y \in Above(x) /\ y \notin Above(y)
    <3>1. ASSUME NEW z \in S, z > y PROVE z > x
      BY <2>0, <3>1
    <3>2. y \notin Above(y)
      BY <2>0
    <3> QED BY <3>1, <3>2
  <2>2. Cardinality(Above(y)) = Cardinality(Above(x))
    <3>1. Cardinality(Above(y)) <= Cardinality(Above(x))
      BY <1>1, <2>1, FS_Subset
    <3> QED BY <1>1, <1>2, <3>1
  <2>3. Above(y) = Above(x)
    BY <1>1, <2>1, <2>2, FS_Subset
  <2> QED BY <2>1, <2>3
<1>4. \E z \in S : \A y \in S : z >= y
  BY <1>3
<1> QED BY <1>4 DEF Max

-----------------------------------------------------------------------------
(* The ring.                                                                *)

LEMMA NextInRing ==
  ASSUME NEW n \in RingNodes
  PROVE  /\ NextNode(n) \in RingNodes
         /\ (\E m \in RingNodes : m > n) => NextNode(n) > n
<1> DEFINE after == {m \in RingNodes : m > n}
<1>1. RingNodes \in SUBSET Nat /\ after \in SUBSET Nat
  BY RingAssumption
<1>2. CASE after = {}
  BY <1>1, <1>2, MinIsLeast, RingAssumption DEF NextNode
<1>3. CASE after # {}
  <2>1. Min(after) \in after
    <3> HIDE DEF after
    <3> QED BY <1>1, <1>3, MinIsLeast
  <2> QED BY <1>3, <2>1 DEF NextNode
<1> QED BY <1>2, <1>3

\* A set of ids that holds the successor of each of its members holds the highest.
LEMMA ClosedHasTheHighest ==
  ASSUME NEW C \in SUBSET RingNodes, C # {}, \A x \in C : NextNode(x) \in C
  PROVE  Max(C) = Max(RingNodes)
<1>1. C \in SUBSET Nat /\ IsFiniteSet(C)
  BY RingAssumption, FS_Subset
<1>2. Max(C) \in C /\ \A y \in C : Max(C) >= y
  BY <1>1, MaxIsGreatest
<1>3. ASSUME NEW m \in RingNodes PROVE Max(C) >= m
  <2>1. Max(C) \in Nat /\ m \in Nat /\ NextNode(Max(C)) \in Nat
    BY <1>1, <1>2, RingAssumption
  <2>2. ~ (m > Max(C))
    <3> SUFFICES ASSUME m > Max(C) PROVE FALSE
      OBVIOUS
    <3>1. NextNode(Max(C)) > Max(C) /\ NextNode(Max(C)) \in C
      BY <1>2, NextInRing
    <3>2. Max(C) >= NextNode(Max(C))
      BY <1>2, <3>1
    <3> QED BY <2>1, <3>1, <3>2
  <2> QED BY <2>1, <2>2
<1>4. Max(RingNodes) \in RingNodes /\ \A y \in RingNodes : Max(RingNodes) >= y
  BY RingAssumption, MaxIsGreatest
<1>5. Max(C) >= Max(RingNodes) /\ Max(RingNodes) >= Max(C)
  BY <1>2, <1>3, <1>4
<1>6. Max(C) \in Nat /\ Max(RingNodes) \in Nat
  BY <1>1, <1>2, <1>4, RingAssumption
<1> QED BY <1>5, <1>6

-----------------------------------------------------------------------------
(* Tokens and announcements.                                                *)

\* The members of a token are one arc of the ring, which ends where the token goes.
TokensAreArcs ==
  \A m \in rTokens :
    /\ m.candidates # {}
    /\ \A x \in m.candidates : NextNode(x) \in m.candidates \cup {m.to}

AnnouncedIsHighest == \A m \in rElected : m.winner = Max(RingNodes)

RingInv == RingTypeOK /\ TokensAreArcs /\ AnnouncedIsHighest /\ RingElectsTheHighest

LEMMA HighestIsThere == Max(RingNodes) \in RingNodes
BY RingAssumption, MaxIsGreatest

LEMMA RingInitHolds == RingInit => RingInv
BY DEF RingInit, RingInv, RingTypeOK, TokensAreArcs, AnnouncedIsHighest, RingElectsTheHighest

\* What a node knows of the winner stays right when the winner is the highest.
LEMMA SettleIsRight ==
  ASSUME RingInv, NEW n \in RingNodes, Settle(n, Max(RingNodes))
  PROVE  /\ rLeads' \in [RingNodes -> BOOLEAN]
         /\ rLeader' \in [RingNodes -> RingNodes \cup {NoWinner}]
         /\ rElecting' \in [RingNodes -> BOOLEAN]
         /\ RingElectsTheHighest'
BY HighestIsThere DEF RingInv, RingTypeOK, RingElectsTheHighest, Settle

\* A token that n sends on.
LEMMA SentTokenIsArc ==
  ASSUME NEW n \in RingNodes, NEW C \in SUBSET RingNodes,
         \A x \in C : NextNode(x) \in C \cup {n},
         NEW m \in Token(n, C \cup {n})
  PROVE  /\ m \in [to : RingNodes, candidates : SUBSET RingNodes]
         /\ m.candidates # {}
         /\ \A x \in m.candidates : NextNode(x) \in m.candidates \cup {m.to}
BY NextInRing DEF Token, ToNext

LEMMA SentAnnouncementIsRight ==
  ASSUME NEW n \in RingNodes, NEW s \in RingNodes, NEW m \in Announcement(n, Max(RingNodes), s)
  PROVE  m \in [to : RingNodes, winner : RingNodes, sender : RingNodes] /\ m.winner = Max(RingNodes)
BY NextInRing, HighestIsThere DEF Announcement, ToNext

\* _start_election, whoever calls it.
LEMMA ElectKeepsInv ==
  ASSUME RingInv, NEW n \in RingNodes, RingElect(n), UNCHANGED rElected,
         rState' \in [RingNodes -> {"new", "running", "stopped"}]
  PROVE  RingInv'
<1> USE DEF RingInv
<1>1. CASE rElecting[n] /\ UNCHANGED <<rLeads, rLeader, rElecting, rTokens>>
  BY <1>1 DEF RingTypeOK, TokensAreArcs, AnnouncedIsHighest, RingElectsTheHighest
<1>2. CASE NextNode(n) = n /\ Settle(n, n) /\ UNCHANGED rTokens
  <2>1. Max({n}) = Max(RingNodes)
    BY <1>2, ClosedHasTheHighest
  <2>2. Max({n}) = n
    BY FS_Singleton, RingAssumption, MaxIsGreatest
  <2> QED BY <1>2, <2>1, <2>2, SettleIsRight DEF RingTypeOK, TokensAreArcs, AnnouncedIsHighest
<1>3. CASE /\ rElecting' = [rElecting EXCEPT ![n] = TRUE]
           /\ rTokens' = rTokens \cup Token(n, {n})
           /\ UNCHANGED <<rLeads, rLeader>>
  <2>1. {n} = {} \cup {n} /\ {} \in SUBSET RingNodes
    OBVIOUS
  <2>2. \A m \in Token(n, {n}) :
           /\ m \in [to : RingNodes, candidates : SUBSET RingNodes]
           /\ m.candidates # {}
           /\ \A x \in m.candidates : NextNode(x) \in m.candidates \cup {m.to}
    BY <2>1, SentTokenIsArc
  <2>3. RingTypeOK'
    BY <1>3, <2>2 DEF RingTypeOK
  <2>4. TokensAreArcs'
    BY <1>3, <2>2 DEF TokensAreArcs
  <2> QED BY <1>3, <2>3, <2>4 DEF AnnouncedIsHighest, RingElectsTheHighest
<1> QED BY <1>1, <1>2, <1>3 DEF RingElect

\* stop: messages are lost.
LEMMA StopKeepsInv ==
  ASSUME RingInv, NEW n \in RingNodes, RingStop(n)
  PROVE  RingInv'
BY DEF RingInv, RingStop, RingTypeOK, TokensAreArcs, AnnouncedIsHighest, RingElectsTheHighest

\* A token that meets a node it lists has passed all the others.
LEMMA TokenKeepsInv ==
  ASSUME RingInv, NEW n \in RingNodes, HandleToken(n)
  PROVE  RingInv'
<1> USE DEF RingInv
<1>1. PICK m \in rTokens :
        /\ m.to = n
        /\ UNCHANGED rState
        /\ \/ /\ EndsRound(n, m)
              /\ Settle(n, Max(m.candidates))
              /\ rTokens' = rTokens \ {m}
              /\ rElected' = rElected \cup Announcement(n, Max(m.candidates), n)
           \/ /\ ~EndsRound(n, m)
              /\ rElecting' = [rElecting EXCEPT ![n] = TRUE]
              /\ rTokens' = (rTokens \ {m}) \cup Token(n, m.candidates \cup {n})
              /\ UNCHANGED <<rLeads, rLeader, rElected>>
  BY DEF HandleToken
<1>2. m.candidates \in SUBSET RingNodes /\ m.candidates # {}
      /\ \A x \in m.candidates : NextNode(x) \in m.candidates \cup {n}
  BY <1>1 DEF RingTypeOK, TokensAreArcs
<1>3. CASE EndsRound(n, m)
  <2>1. Max(m.candidates) = Max(RingNodes)
    BY <1>2, <1>3, ClosedHasTheHighest DEF EndsRound
  <2>2. \A a \in Announcement(n, Max(RingNodes), n) :
           a \in [to : RingNodes, winner : RingNodes, sender : RingNodes] /\ a.winner = Max(RingNodes)
    BY SentAnnouncementIsRight
  <2>3. Settle(n, Max(RingNodes)) /\ rTokens' = rTokens \ {m}
        /\ rElected' = rElected \cup Announcement(n, Max(RingNodes), n)
    BY <1>1, <1>3, <2>1
  <2>4. RingTypeOK'
    BY <1>1, <2>2, <2>3, SettleIsRight DEF RingTypeOK
  <2>5. TokensAreArcs' /\ AnnouncedIsHighest'
    BY <2>2, <2>3 DEF TokensAreArcs, AnnouncedIsHighest
  <2> QED BY <2>3, <2>4, <2>5, SettleIsRight
<1>4. CASE ~EndsRound(n, m)
  <2>1. \A t \in Token(n, m.candidates \cup {n}) :
           /\ t \in [to : RingNodes, candidates : SUBSET RingNodes]
           /\ t.candidates # {}
           /\ \A x \in t.candidates : NextNode(x) \in t.candidates \cup {t.to}
    BY <1>2, SentTokenIsArc
  <2>2. RingTypeOK'
    BY <1>1, <1>4, <2>1 DEF RingTypeOK
  <2>3. TokensAreArcs'
    BY <1>1, <1>4, <2>1 DEF TokensAreArcs
  <2> QED BY <1>1, <1>4, <2>2, <2>3 DEF AnnouncedIsHighest, RingElectsTheHighest
<1> QED BY <1>3, <1>4

LEMMA ElectedKeepsInv ==
  ASSUME RingInv, NEW n \in RingNodes, HandleElected(n)
  PROVE  RingInv'
<1> USE DEF RingInv
<1>1. PICK m \in rElected :
        /\ UNCHANGED <<rState, rTokens>>
        /\ \/ /\ rElected' = rElected \ {m}
              /\ UNCHANGED <<rLeads, rLeader, rElecting>>
           \/ /\ Settle(n, m.winner)
              /\ rElected' = (rElected \ {m}) \cup Announcement(n, m.winner, m.sender)
  BY DEF HandleElected
<1>2. m.winner = Max(RingNodes) /\ m.sender \in RingNodes
  BY DEF AnnouncedIsHighest, RingTypeOK
<1>3. CASE rElected' = rElected \ {m} /\ UNCHANGED <<rLeads, rLeader, rElecting>>
  BY <1>1, <1>3 DEF RingTypeOK, TokensAreArcs, AnnouncedIsHighest, RingElectsTheHighest
<1>4. CASE Settle(n, m.winner) /\ rElected' = (rElected \ {m}) \cup Announcement(n, m.winner, m.sender)
  <2>1. \A a \in Announcement(n, Max(RingNodes), m.sender) :
           a \in [to : RingNodes, winner : RingNodes, sender : RingNodes] /\ a.winner = Max(RingNodes)
    BY <1>2, SentAnnouncementIsRight
  <2>2. Settle(n, Max(RingNodes))
        /\ rElected' = (rElected \ {m}) \cup Announcement(n, Max(RingNodes), m.sender)
    BY <1>2, <1>4
  <2>3. RingTypeOK'
    BY <1>1, <2>1, <2>2, SettleIsRight DEF RingTypeOK
  <2>4. TokensAreArcs' /\ AnnouncedIsHighest'
    BY <1>1, <2>1, <2>2 DEF TokensAreArcs, AnnouncedIsHighest
  <2> QED BY <2>2, <2>3, <2>4, SettleIsRight
<1> QED BY <1>1, <1>3, <1>4

\* In every ring, however many tokens are on their way, started by whomever and
\* whenever, and whichever are lost, only the highest id is ever elected, so no two
\* nodes lead (handle_election_message and handle_elected_message of
\* ring_algorithm.py).
THEOREM RingElectsOnlyTheHighest == RingSpec => []RingElectsTheHighest
<1>1. RingInv /\ [RingNext]_ringVars => RingInv'
  <2> SUFFICES ASSUME RingInv, [RingNext]_ringVars PROVE RingInv'
    OBVIOUS
  <2>1. ASSUME NEW n \in RingNodes, RingStart(n) PROVE RingInv'
    BY <2>1, ElectKeepsInv DEF RingStart, RingInv, RingTypeOK
  <2>2. ASSUME NEW n \in RingNodes, RingStop(n) PROVE RingInv'
    BY <2>2, StopKeepsInv
  <2>3. ASSUME NEW n \in RingNodes, RingTrigger(n) PROVE RingInv'
    BY <2>3, ElectKeepsInv DEF RingTrigger, RingInv, RingTypeOK
  <2>4. ASSUME NEW n \in RingNodes, RingMonitor(n) PROVE RingInv'
    BY <2>4, ElectKeepsInv DEF RingMonitor, RingInv, RingTypeOK
  <2>5. ASSUME NEW n \in RingNodes, HandleToken(n) PROVE RingInv'
    BY <2>5, TokenKeepsInv
  <2>6. ASSUME NEW n \in RingNodes, HandleElected(n) PROVE RingInv'
    BY <2>6, ElectedKeepsInv
  <2>7. CASE UNCHANGED ringVars
    BY <2>7 DEF ringVars, RingInv, RingTypeOK, TokensAreArcs, AnnouncedIsHighest, RingElectsTheHighest
  <2> QED BY <2>1, <2>2, <2>3, <2>4, <2>5, <2>6, <2>7 DEF RingNext
<1>2. RingInv => RingElectsTheHighest
  BY DEF RingInv
<1> QED BY <1>1, <1>2, RingInitHolds, PTL DEF RingSpec

-----------------------------------------------------------------------------
(* Bullying.                                                                *)

\* Messages are for running nodes.
BullyShape ==
  /\ bState \in [BullyNodes -> {"new", "running", "stopped"}]
  /\ bLeads \in [BullyNodes -> BOOLEAN]
  /\ bElecting \in [BullyNodes -> BOOLEAN]
  /\ bTimer \in [BullyNodes -> BOOLEAN]
  /\ \A m \in bMsgs : m.from \in BullyNodes /\ m.to \in BullyNodes /\ Running(m.to)

\* A node does nothing before start().
UnstartedIdle == \A n \in BullyNodes : bState[n] = "new" => ~bLeads[n] /\ ~bTimer[n]

\* The node with the highest id of all wins at once, so each election it is asked for begins.
TopNeverWaits == \A n \in BullyNodes : Higher(n) = {} => ~bElecting[n]

BullyInv == BullyShape /\ UnstartedIdle /\ TopNeverWaits /\ LowerLeadIsAnswered

LEMMA BullyInitHolds == BullyInit => BullyInv
BY DEF BullyInit, BullyInv, BullyShape, UnstartedIdle, TopNeverWaits, LowerLeadIsAnswered, Running

LEMMA OneTop ==
  ASSUME NEW a \in BullyNodes, NEW b \in BullyNodes, Higher(a) = {}, b # a
  PROVE  Higher(b) # {} /\ ~ (b >= a)
<1>1. a \in Nat /\ b \in Nat
  BY BullyAssumption
<1>2. ~ (b > a)
  BY DEF Higher
<1>3. a \in Higher(b)
  BY <1>1, <1>2 DEF Higher
<1> QED BY <1>1, <1>2, <1>3

\* Messages are posted to running nodes, one to each, while the sender runs.
LEMMA PostedByOne ==
  ASSUME NEW n \in BullyNodes, NEW P \in SUBSET BullyNodes, NEW m0, m0.from = n,
         m0 = [type |-> m0.type, to |-> m0.to, from |-> m0.from]
           \/ m0 = [type |-> m0.type, to |-> m0.to, from |-> m0.from, term |-> m0.term]
  PROVE  /\ \A m \in Post(n, P, m0) :
              m.type = m0.type /\ m.from = n /\ m.to \in P /\ bState'[m.to] = "running"
         /\ bState'[n] = "running" =>
              \A t \in P : bState'[t] = "running" =>
                \E m \in Post(n, P, m0) : m.type = m0.type /\ m.from = n /\ m.to = t
<1>1. \A t : [m0 EXCEPT !.to = t].type = m0.type
             /\ [m0 EXCEPT !.to = t].from = n /\ [m0 EXCEPT !.to = t].to = t
  OBVIOUS
<1> QED BY <1>1 DEF Post

\* A claim of the lead, a message of an election.
LEMMA ClaimPosted ==
  ASSUME NEW n \in BullyNodes, NEW P \in SUBSET BullyNodes, NEW type
  PROVE  /\ \A m \in Post(n, P, Claim(n, type)) :
              m.type = type /\ m.from = n /\ m.to \in P /\ bState'[m.to] = "running"
         /\ bState'[n] = "running" =>
              \A t \in P : bState'[t] = "running" =>
                \E m \in Post(n, P, Claim(n, type)) : m.type = type /\ m.from = n /\ m.to = t
<1>1. /\ Claim(n, type) = [type |-> Claim(n, type).type, to |-> Claim(n, type).to,
                           from |-> Claim(n, type).from, term |-> Claim(n, type).term]
      /\ Claim(n, type).from = n /\ Claim(n, type).type = type
  BY DEF Claim
<1> QED BY <1>1, PostedByOne

LEMMA CallPosted ==
  ASSUME NEW n \in BullyNodes, NEW P \in SUBSET BullyNodes,
         NEW m \in Post(n, P, [type |-> "ELECTION", to |-> n, from |-> n])
  PROVE  m.from = n /\ m.to \in P /\ bState'[m.to] = "running"
<1> DEFINE m0 == [type |-> "ELECTION", to |-> n, from |-> n]
<1>1. m0 = [type |-> m0.type, to |-> m0.to, from |-> m0.from] /\ m0.from = n
  OBVIOUS
<1>2. m \in Post(n, P, m0)
  OBVIOUS
<1> HIDE DEF m0
<1> QED BY <1>1, <1>2, PostedByOne

\* k runs once the step is over, and only k's state may have changed; `rest` lacks at
\* most a message for k that is not a claim of the highest.
StepOf(k, rest) ==
  /\ bState' \in [BullyNodes -> {"new", "running", "stopped"}]
  /\ bState'[k] = "running" /\ bState[k] \in {"new", "running"}
  /\ \A j \in BullyNodes \ {k} : bState'[j] = bState[j]
  /\ rest \subseteq bMsgs
  /\ \A m \in bMsgs \ rest : m.to = k /\ (m.type = "COORDINATOR" => Higher(m.from) # {})

\* What was under way between two other nodes still is.
LEMMA ClaimsStay ==
  ASSUME BullyInv, NEW k \in BullyNodes, NEW rest, StepOf(k, rest), rest \subseteq bMsgs',
         NEW top \in BullyNodes, NEW n \in BullyNodes, Higher(top) = {}, n # top,
         top # k, Running(top)', Running(n)', bLeads[n]
  PROVE  (ClaimUnderWay(n, top) \/ ClaimUnderWay(top, n))'
<1>1. Running(top)
  BY DEF StepOf, Running
<1>2. Running(n)
  <2>1. CASE n # k
    BY <2>1 DEF StepOf, Running
  <2>2. CASE n = k
    BY <2>2 DEF StepOf, Running, BullyInv, UnstartedIdle
  <2> QED BY <2>1, <2>2
<1>3. ClaimUnderWay(n, top) \/ ClaimUnderWay(top, n)
  BY <1>1, <1>2 DEF BullyInv, LowerLeadIsAnswered
<1>4. ASSUME NEW c \in bMsgs, c.type = "COORDINATOR",
             \/ c.from = n /\ c.to = top
             \/ c.from = top /\ c.to = n
      PROVE  c \in bMsgs'
  BY <1>4 DEF StepOf
<1> QED BY <1>3, <1>4 DEF ClaimUnderWay

\* _become_leader: the highest tells all, a lower one tells the highest.
LEMMA BecomeLeaderKeepsInv ==
  ASSUME BullyInv, NEW k \in BullyNodes, NEW rest, StepOf(k, rest),
         BecomeLeader(k, rest), bTimer' \in [BullyNodes -> BOOLEAN],
         \A j \in BullyNodes \ {k} : bTimer'[j] = bTimer[j]
  PROVE  BullyInv'
<1> DEFINE told == Post(k, BullyNodes \ {k}, Claim(k, "COORDINATOR"))
<1>1. /\ \A m \in told : m.from = k /\ m.to \in BullyNodes \ {k} /\ bState'[m.to] = "running"
      /\ \A t \in BullyNodes \ {k} : bState'[t] = "running" =>
            \E m \in told : m.type = "COORDINATOR" /\ m.from = k /\ m.to = t
  BY ClaimPosted DEF StepOf
<1>2. bMsgs' = rest \cup told
  BY DEF BecomeLeader
<1> HIDE DEF told
<1>3. BullyShape'
  <2>1. \A m \in bMsgs' : m.from \in BullyNodes /\ m.to \in BullyNodes /\ bState'[m.to] = "running"
    <3>1. ASSUME NEW m \in rest
          PROVE  m.from \in BullyNodes /\ m.to \in BullyNodes /\ bState'[m.to] = "running"
      BY <3>1 DEF StepOf, BullyInv, BullyShape, Running
    <3> QED BY <1>1, <1>2, <3>1
  <2> QED BY <2>1 DEF BullyShape, BullyInv, StepOf, BecomeLeader, Running
<1>4. UnstartedIdle'
  BY DEF UnstartedIdle, BullyInv, BullyShape, StepOf, BecomeLeader
<1>5. TopNeverWaits'
  BY DEF TopNeverWaits, BullyInv, BullyShape, BecomeLeader, Higher
<1>6. ASSUME NEW top \in BullyNodes, NEW n \in BullyNodes, Higher(top) = {}, Running(top)',
             n # top, Running(n)', bLeads'[n]
      PROVE  (ClaimUnderWay(n, top) \/ ClaimUnderWay(top, n))'
  <2>1. CASE top = k
    <3>1. \E m \in told : m.type = "COORDINATOR" /\ m.from = k /\ m.to = n
      BY <1>1, <1>6, <2>1 DEF Running
    <3> QED BY <1>2, <2>1, <3>1 DEF ClaimUnderWay
  <2>2. CASE n = k
    <3>1. \E m \in told : m.type = "COORDINATOR" /\ m.from = k /\ m.to = top
      BY <1>1, <1>6, <2>2 DEF Running
    <3> QED BY <1>2, <2>2, <3>1 DEF ClaimUnderWay
  <2>3. CASE top # k /\ n # k
    <3>1. bLeads[n]
      BY <1>6, <2>3 DEF BecomeLeader, BullyInv, BullyShape
    <3>2. rest \subseteq bMsgs'
      BY <1>2
    <3> QED BY <1>6, <2>3, <3>1, <3>2, ClaimsStay
  <2> QED BY <2>1, <2>2, <2>3
<1>7. LowerLeadIsAnswered'
  BY <1>6 DEF LowerLeadIsAnswered, Higher
<1> QED BY <1>3, <1>4, <1>5, <1>7 DEF BullyInv

\* _start_election, whoever calls it: the highest is never waiting, so it claims the lead.
LEMMA StartElectionKeepsInv ==
  ASSUME BullyInv, NEW k \in BullyNodes, NEW rest, StepOf(k, rest), StartElection(k, rest)
  PROVE  BullyInv'
<1>1. CASE BecomeLeader(k, rest) /\ UNCHANGED bTimer
  BY <1>1, BecomeLeaderKeepsInv DEF BullyInv, BullyShape
<1>2. ASSUME Higher(k) # {},
             UNCHANGED bLeads,
             bElecting' \in [BullyNodes -> BOOLEAN],
             bTimer' \in [BullyNodes -> BOOLEAN],
             \A j \in BullyNodes \ {k} : bElecting'[j] = bElecting[j] /\ bTimer'[j] = bTimer[j],
             rest \subseteq bMsgs',
             \A m \in bMsgs' \ rest :
               m.from = k /\ m.to \in BullyNodes /\ bState'[m.to] = "running"
      PROVE  BullyInv'
  <2>1. BullyShape'
    <3>1. ASSUME NEW m \in rest
          PROVE  m.from \in BullyNodes /\ m.to \in BullyNodes /\ bState'[m.to] = "running"
      BY <3>1 DEF StepOf, BullyInv, BullyShape, Running
    <3> QED BY <1>2, <3>1 DEF BullyShape, BullyInv, StepOf, Running
  <2>2. UnstartedIdle'
    BY <1>2 DEF UnstartedIdle, BullyInv, BullyShape, StepOf
  <2>3. TopNeverWaits'
    BY <1>2 DEF TopNeverWaits, BullyInv, BullyShape, Higher
  <2>4. ASSUME NEW top \in BullyNodes, NEW n \in BullyNodes, Higher(top) = {}, Running(top)',
               n # top, Running(n)', bLeads'[n]
        PROVE  (ClaimUnderWay(n, top) \/ ClaimUnderWay(top, n))'
    BY <1>2, <2>4, ClaimsStay
  <2>5. LowerLeadIsAnswered'
    BY <2>4 DEF LowerLeadIsAnswered, Higher
  <2> QED BY <2>1, <2>2, <2>3, <2>5 DEF BullyInv
<1>3. CASE bElecting[k] /\ bMsgs' = rest /\ UNCHANGED <<bLeads, bElecting, bTimer>>
  BY <1>2, <1>3 DEF BullyInv, BullyShape, TopNeverWaits
<1>4. CASE /\ Higher(k) # {}
           /\ bElecting' = [bElecting EXCEPT ![k] = TRUE]
           /\ bTimer' = [bTimer EXCEPT ![k] = TRUE]
           /\ bMsgs' = rest \cup Post(k, Higher(k), [type |-> "ELECTION", to |-> k, from |-> k])
           /\ UNCHANGED bLeads
  <2>1. \A m \in Post(k, Higher(k), [type |-> "ELECTION", to |-> k, from |-> k]) :
           m.from = k /\ m.to \in BullyNodes /\ bState'[m.to] = "running"
    BY CallPosted DEF Higher
  <2> QED BY <1>2, <1>4, <2>1 DEF BullyInv, BullyShape
<1> QED BY <1>1, <1>3, <1>4 DEF StartElection

\* A message is taken that is not a claim of the highest, and nothing else changes.
LEMMA TakenKeepsInv ==
  ASSUME BullyInv, NEW m, m.type # "COORDINATOR", bMsgs' = bMsgs \ {m},
         UNCHANGED <<bState, bLeads, bElecting, bTimer>>
  PROVE  BullyInv'
<1>1. \A a, b \in BullyNodes : ClaimUnderWay(a, b) => ClaimUnderWay(a, b)'
  BY DEF ClaimUnderWay
<1> QED BY <1>1 DEF BullyInv, BullyShape, UnstartedIdle, TopNeverWaits, LowerLeadIsAnswered,
                    Running, Higher

\* A claim is rejected by an election, or the node that yields leads no longer.
LEMMA AcknowledgeKeepsInv ==
  ASSUME BullyInv, NEW k \in BullyNodes, NEW m \in bMsgs, m.to = k, UNCHANGED bState,
         Acknowledge(k, m, bMsgs \ {m})
  PROVE  BullyInv'
<1>1. m.from \in BullyNodes /\ bState[k] = "running"
  BY DEF BullyInv, BullyShape, Running
<1>2. CASE ~Yields(k, m.from) /\ StartElection(k, bMsgs \ {m})
  <2>1. k \in Higher(m.from)
    <3>1. PICK a \in BullyNodes : a = m.from
      BY <1>1
    <3>2. a \in Nat /\ k \in Nat
      BY BullyAssumption
    <3>3. k > a
      BY <1>2, <3>1, <3>2 DEF Yields
    <3> QED BY <3>1, <3>3 DEF Higher
  <2>2. StepOf(k, bMsgs \ {m})
    BY <1>1, <2>1 DEF StepOf, BullyInv, BullyShape
  <2> QED BY <1>2, <2>2, StartElectionKeepsInv
<1>3. CASE /\ Yields(k, m.from)
           /\ bElecting' = [bElecting EXCEPT ![k] = FALSE]
           /\ bLeads' = [bLeads EXCEPT ![k] = FALSE]
           /\ bMsgs' = bMsgs \ {m}
           /\ UNCHANGED bTimer
  <2>1. ASSUME NEW top \in BullyNodes, NEW n \in BullyNodes, Higher(top) = {}, Running(top),
               n # top, Running(n), bLeads'[n]
        PROVE  (ClaimUnderWay(n, top) \/ ClaimUnderWay(top, n))'
    <3>1. n # k /\ bLeads[n]
      BY <1>3, <2>1 DEF BullyInv, BullyShape
    <3>2. ClaimUnderWay(n, top) \/ ClaimUnderWay(top, n)
      BY <2>1, <3>1 DEF BullyInv, LowerLeadIsAnswered
    <3>3. ~ (m.from = n /\ m.to = top)
      <4>1. SUFFICES ASSUME m.from = n, top = k PROVE FALSE
        OBVIOUS
      <4>2. ~ (n >= top)
        BY <2>1, OneTop
      <4> QED BY <1>3, <4>1, <4>2 DEF Yields
    <3>4. m.to # n
      BY <3>1
    <3> QED BY <1>3, <3>2, <3>3, <3>4 DEF ClaimUnderWay
  <2>2. LowerLeadIsAnswered'
    BY <2>1 DEF LowerLeadIsAnswered, Higher, Running
  <2> QED BY <1>3, <2>2 DEF BullyInv, BullyShape, UnstartedIdle, TopNeverWaits, Running, Higher
<1> QED BY <1>2, <1>3 DEF Acknowledge

LEMMA ReceiveKeepsInv ==
  ASSUME BullyInv, NEW k \in BullyNodes, BullyReceive(k)
  PROVE  BullyInv'
<1>1. PICK m \in bMsgs :
        /\ m.to = k /\ UNCHANGED bState
        /\ \/ HandleElection(k, m)
           \/ Acknowledge(k, m, bMsgs \ {m})
           \/ HandleHeartbeat(k, m)
  BY DEF BullyReceive
<1>2. CASE Acknowledge(k, m, bMsgs \ {m})
  BY <1>1, <1>2, AcknowledgeKeepsInv
<1>3. CASE m.type = "ELECTION" /\ StartElection(k, bMsgs \ {m})
  <2>1. StepOf(k, bMsgs \ {m})
    BY <1>1, <1>3 DEF StepOf, BullyInv, BullyShape, Running
  <2> QED BY <2>1, <1>3, StartElectionKeepsInv
<1>4. CASE /\ m.type \in {"ELECTION", "HEARTBEAT"}
           /\ bMsgs' = bMsgs \ {m}
           /\ UNCHANGED <<bLeads, bElecting, bTimer>>
  BY <1>1, <1>4, TakenKeepsInv
<1> QED BY <1>1, <1>2, <1>3, <1>4 DEF HandleElection, HandleHeartbeat

\* _election_timeout_check; a node that has stopped tells nobody.
LEMMA TimeoutKeepsInv ==
  ASSUME BullyInv, NEW k \in BullyNodes, BullyTimeout(k)
  PROVE  BullyInv'
<1>1. /\ bTimer[k]
      /\ bTimer' = [bTimer EXCEPT ![k] = FALSE]
      /\ UNCHANGED bState
      /\ BecomeLeader(k, bMsgs) \/ UNCHANGED <<bLeads, bElecting, bMsgs>>
  BY DEF BullyTimeout
<1>2. bState[k] # "new" /\ bTimer' \in [BullyNodes -> BOOLEAN]
      /\ \A j \in BullyNodes \ {k} : bTimer'[j] = bTimer[j]
  BY <1>1 DEF BullyInv, BullyShape, UnstartedIdle
<1>3. CASE UNCHANGED <<bLeads, bElecting, bMsgs>>
  BY <1>1, <1>2, <1>3 DEF BullyInv, BullyShape, UnstartedIdle, TopNeverWaits,
                          LowerLeadIsAnswered, ClaimUnderWay, Running, Higher
<1>4. CASE BecomeLeader(k, bMsgs) /\ bState[k] = "running"
  <2>1. StepOf(k, bMsgs)
    BY <1>1, <1>4 DEF StepOf, BullyInv, BullyShape
  <2> QED BY <1>2, <1>4, <2>1, BecomeLeaderKeepsInv
<1>5. CASE BecomeLeader(k, bMsgs) /\ bState[k] # "running"
  <2>1. bMsgs' = bMsgs
    BY <1>1, <1>5 DEF BecomeLeader, Post
  <2>2. \A n \in BullyNodes : Running(n) => bLeads'[n] = bLeads[n]
    BY <1>5 DEF BecomeLeader, BullyInv, BullyShape, Running
  <2>3. /\ bLeads' \in [BullyNodes -> BOOLEAN] /\ bElecting' \in [BullyNodes -> BOOLEAN]
        /\ \A n \in BullyNodes : bElecting'[n] => bElecting[n]
        /\ \A n \in BullyNodes \ {k} : bLeads'[n] = bLeads[n]
    BY <1>5 DEF BecomeLeader, BullyInv, BullyShape
  <2>4. LowerLeadIsAnswered'
    BY <1>1, <2>1, <2>2 DEF BullyInv, LowerLeadIsAnswered, ClaimUnderWay, Running, Higher
  <2> QED BY <1>1, <1>2, <2>1, <2>3, <2>4
          DEF BullyInv, BullyShape, UnstartedIdle, TopNeverWaits, Running, Higher
<1> QED BY <1>1, <1>3, <1>4, <1>5

\* For any nodes, started, stopped and triggered at any moment, while the node with the
\* highest id of all runs, a lower leader's claim is on its way to it, or its own claim
\* to that leader, whichever claims cross and whatever timers fire
\* (handle_coordinator_msg and _become_leader of bully_algorithm.py).
THEOREM BullyAnswersLowerLeads == BullySpec => []LowerLeadIsAnswered
<1>1. BullyInv /\ [BullyNext]_bullyVars => BullyInv'
  <2> SUFFICES ASSUME BullyInv, [BullyNext]_bullyVars PROVE BullyInv'
    OBVIOUS
  <2>1. ASSUME NEW n \in BullyNodes, BullyStart(n) PROVE BullyInv'
    <3>1. StepOf(n, bMsgs) /\ StartElection(n, bMsgs)
      BY <2>1 DEF BullyStart, StepOf, BullyInv, BullyShape
    <3> QED BY <3>1, StartElectionKeepsInv
  <2>2. ASSUME NEW n \in BullyNodes, BullyTrigger(n) \/ BullyMonitor(n) PROVE BullyInv'
    <3>1. StepOf(n, bMsgs) /\ StartElection(n, bMsgs)
      BY <2>2 DEF BullyTrigger, BullyMonitor, StepOf, BullyInv, BullyShape, Running
    <3> QED BY <3>1, StartElectionKeepsInv
  <2>3. ASSUME NEW n \in BullyNodes, BullyStop(n) PROVE BullyInv'
    <3>1. \A a, b \in BullyNodes : b # n /\ ClaimUnderWay(a, b) => ClaimUnderWay(a, b)'
      BY <2>3 DEF BullyStop, ClaimUnderWay
    <3>2. \A k \in BullyNodes : Running(k)' => k # n /\ Running(k) /\ bLeads'[k] = bLeads[k]
      BY <2>3 DEF BullyStop, Running, BullyInv, BullyShape
    <3>3. LowerLeadIsAnswered'
      BY <3>1, <3>2 DEF BullyInv, LowerLeadIsAnswered, Higher
    <3> QED BY <2>3, <3>3 DEF BullyStop, BullyInv, BullyShape, UnstartedIdle, TopNeverWaits,
                              Running, Higher
  <2>4. ASSUME NEW n \in BullyNodes, BullyTimeout(n) PROVE BullyInv'
    BY <2>4, TimeoutKeepsInv
  <2>5. ASSUME NEW n \in BullyNodes, BullyHeartbeat(n) PROVE BullyInv'
    <3>1. bMsgs' = bMsgs \cup Post(n, BullyNodes \ {n}, Claim(n, "HEARTBEAT"))
          /\ UNCHANGED <<bState, bLeads, bElecting, bTimer>>
      BY <2>5 DEF BullyHeartbeat
    <3>2. \A m \in Post(n, BullyNodes \ {n}, Claim(n, "HEARTBEAT")) :
            m.from = n /\ m.to \in BullyNodes /\ bState'[m.to] = "running"
      BY ClaimPosted
    <3>3. \A a, b \in BullyNodes : ClaimUnderWay(a, b) => ClaimUnderWay(a, b)'
      BY <3>1 DEF ClaimUnderWay
    <3> QED BY <3>1, <3>2, <3>3 DEF BullyInv, BullyShape, UnstartedIdle, TopNeverWaits,
                                    LowerLeadIsAnswered, Running, Higher
  <2>6. ASSUME NEW n \in BullyNodes, BullyReceive(n) PROVE BullyInv'
    BY <2>6, ReceiveKeepsInv
  <2>7. CASE UNCHANGED bullyVars
    BY <2>7 DEF bullyVars, BullyInv, BullyShape, UnstartedIdle, TopNeverWaits,
                LowerLeadIsAnswered, ClaimUnderWay, Running, Higher
  <2> QED BY <2>1, <2>2, <2>3, <2>4, <2>5, <2>6, <2>7 DEF BullyNext
<1>2. BullyInv => LowerLeadIsAnswered
  BY DEF BullyInv
<1> QED BY <1>1, <1>2, BullyInitHolds, PTL DEF BullySpec

-----------------------------------------------------------------------------
(* Leases.                                                                  *)

\* v has voted for c, and c has counted it or may still do so.
Ballot(v, c) ==
  \/ v \in lVotes[c]
  \/ \E m \in lMsgs : m.type = "grant_lease" /\ m.from = v /\ m.to = c

WasElected(n) == \E e \in lElected : e[1] = n

LeaseShape ==
  /\ lTerm \in [LeaseNodes -> Nat]
  /\ lLeads \in [LeaseNodes -> BOOLEAN]
  /\ lVotedFor \in [LeaseNodes -> LeaseNodes \cup {NoHolder}]
  /\ lVotes \in [LeaseNodes -> SUBSET LeaseNodes]
  /\ lHolder \in [LeaseNodes -> LeaseNodes \cup {NoHolder}]
  /\ lMsgs \subseteq [type : {"request_lease", "grant_lease", "heartbeat"},
                      to : LeaseNodes, from : LeaseNodes, term : Nat]
  /\ lElected \subseteq LeaseNodes \X Nat

\* Only the elected lead, send heartbeats and are known as holders.
HoldersElected ==
  /\ \A n \in LeaseNodes : lLeads[n] => WasElected(n)
  /\ \A n \in LeaseNodes : lHolder[n] # NoHolder => WasElected(lHolder[n])
  /\ \A m \in lMsgs : m.type = "heartbeat" => WasElected(m.from)

\* Nobody asks, votes or is elected in term 0.
TermsBegun ==
  /\ \A m \in lMsgs : m.term >= 1
  /\ \A e \in lElected : e[2] >= 1 /\ lTerm[e[1]] >= e[2]
  /\ \A v, c \in LeaseNodes : Ballot(v, c) => lTerm[v] >= 1

\* The voters of Q are bound to b.
Bound(Q, b) ==
  \A v \in Q : /\ lTerm[v] = 1
               /\ lVotedFor[v] = b
               /\ \A c \in LeaseNodes : Ballot(v, c) => c = b

NobodyYet ==
  /\ lElected = {}
  /\ \A v, c \in LeaseNodes : Ballot(v, c) => lVotedFor[v] = c

Elects(b, Q) == lElected = {<<b, 1>>} /\ Quorum(Q) /\ Bound(Q, b)

Early == \A n \in LeaseNodes : lTerm[n] <= 1

LeaseReal == LeaseShape /\ HoldersElected /\ TermsBegun

LeaseInv ==
  /\ LeaseReal
  /\ Early => NobodyYet \/ \E b \in LeaseNodes, Q \in SUBSET LeaseNodes : Elects(b, Q)

LEMMA LeaseQuorumsMeet ==
  ASSUME NEW A \in SUBSET LeaseNodes, NEW B \in SUBSET LeaseNodes, Quorum(A), Quorum(B)
  PROVE  \E v \in LeaseNodes : v \in A /\ v \in B
<1> DEFINE N == Cardinality(LeaseNodes)
<1>1. IsFiniteSet(LeaseNodes) /\ N \in Nat
  BY LeaseAssumption, FS_CardinalityType
<1>2. Cardinality(A) \in Nat /\ Cardinality(B) \in Nat
  BY <1>1, FS_Subset, FS_CardinalityType
<1>3. Cardinality(A) >= N \div 2 + 1 /\ Cardinality(B) >= N \div 2 + 1
  BY DEF Quorum
<1>4. Cardinality(A) + Cardinality(B) > N
  <2> HIDE DEF N
  <2> QED BY <1>1, <1>2, <1>3
<1>5. A \cap B # {}
  BY <1>1, <1>4, FS_MajoritiesIntersect
<1> QED BY <1>5

LEMMA SentByOne ==
  ASSUME NEW type \in {"request_lease", "grant_lease", "heartbeat"}, NEW n \in LeaseNodes,
         NEW P \in SUBSET LeaseNodes, NEW t \in Nat, NEW m \in Send(type, n, P, t)
  PROVE  /\ m \in [type : {"request_lease", "grant_lease", "heartbeat"},
                   to : LeaseNodes, from : LeaseNodes, term : Nat]
         /\ m.type = type /\ m.from = n /\ m.to \in P /\ m.term = t
BY DEF Send

LEMMA LeaseInitHolds == LeaseInit => LeaseInv
BY DEF LeaseInit, LeaseInv, LeaseReal, LeaseShape, HoldersElected, TermsBegun, NobodyYet, Ballot

\* An action that only drops messages, leads or leases.
LEMMA LosingKeepsInv ==
  ASSUME LeaseInv,
         UNCHANGED <<lTerm, lVotedFor, lVotes, lElected>>,
         lMsgs' \subseteq lMsgs,
         lLeads' \in [LeaseNodes -> BOOLEAN],
         lHolder' \in [LeaseNodes -> LeaseNodes \cup {NoHolder}],
         \A n \in LeaseNodes : lLeads'[n] => lLeads[n],
         \A n \in LeaseNodes : lHolder'[n] # NoHolder => lHolder'[n] = lHolder[n]
  PROVE  LeaseInv'
<1>1. \A v, c : Ballot(v, c)' => Ballot(v, c)
  BY DEF Ballot
<1>2. \A n : WasElected(n)' = WasElected(n)
  BY DEF WasElected
<1>3. LeaseReal'
  BY <1>1, <1>2 DEF LeaseInv, LeaseReal, LeaseShape, HoldersElected, TermsBegun
<1>4. Early' = Early
  BY DEF Early
<1>5. NobodyYet => NobodyYet'
  BY <1>1 DEF NobodyYet
<1>6. \A b, Q : Elects(b, Q) => Elects(b, Q)'
  BY <1>1 DEF Elects, Bound, Quorum
<1> QED BY <1>3, <1>4, <1>5, <1>6 DEF LeaseInv

\* A request for the next term of its sender, who votes for itself.
LEMMA AttemptKeepsInv ==
  ASSUME LeaseInv, NEW n \in LeaseNodes, Attempt(n)
  PROVE  LeaseInv'
<1> USE DEF LeaseInv
<1>1. CASE UNCHANGED <<lTerm, lVotedFor, lVotes, lMsgs>>
  BY <1>1, LosingKeepsInv DEF Attempt, LeaseReal, LeaseShape
<1>2. CASE /\ lTerm' = [lTerm EXCEPT ![n] = @ + 1]
           /\ lVotes' = [lVotes EXCEPT ![n] = {n}]
           /\ lVotedFor' = [lVotedFor EXCEPT ![n] = n]
           /\ lMsgs' = lMsgs \cup Send("request_lease", n, Peers(n), lTerm[n] + 1)
  <2>1. UNCHANGED <<lLeads, lHolder, lElected>>
    BY DEF Attempt
  <2>2. lTerm[n] \in Nat /\ Peers(n) \in SUBSET LeaseNodes
    BY DEF LeaseReal, LeaseShape, Peers
  <2>3. \A m \in Send("request_lease", n, Peers(n), lTerm[n] + 1) :
          /\ m \in [type : {"request_lease", "grant_lease", "heartbeat"},
                    to : LeaseNodes, from : LeaseNodes, term : Nat]
          /\ m.type = "request_lease" /\ m.term >= 1
    <3>1. lTerm[n] + 1 \in Nat /\ lTerm[n] + 1 >= 1
      BY <2>2
    <3> QED BY <2>2, <3>1, SentByOne
  <2>4. \A v, c \in LeaseNodes : Ballot(v, c)' => Ballot(v, c) \/ (v = n /\ c = n)
    BY <1>2, <2>3 DEF Ballot, LeaseReal, LeaseShape
  <2>5. \A v \in LeaseNodes : lTerm'[v] >= lTerm[v]
    BY <1>2, <2>2 DEF LeaseReal, LeaseShape
  <2>6. \A k : WasElected(k)' = WasElected(k)
    BY <2>1 DEF WasElected
  <2>7. LeaseShape'
    BY <1>2, <2>1, <2>2, <2>3 DEF LeaseReal, LeaseShape
  <2>8. HoldersElected'
    BY <1>2, <2>1, <2>3, <2>6 DEF LeaseReal, HoldersElected
  <2>9. TermsBegun'
    <3>1. \A m \in lMsgs' : m.term >= 1
      BY <1>2, <2>3 DEF LeaseReal, TermsBegun
    <3>2. \A e \in lElected' : e[2] >= 1 /\ lTerm'[e[1]] >= e[2]
      BY <2>1, <2>5, <2>7 DEF LeaseReal, LeaseShape, TermsBegun
    <3>3. \A v, c \in LeaseNodes : Ballot(v, c)' => lTerm'[v] >= 1
      BY <1>2, <2>2, <2>4, <2>5, <2>7 DEF LeaseReal, LeaseShape, TermsBegun
    <3> QED BY <3>1, <3>2, <3>3 DEF TermsBegun
  <2>10. ASSUME Early' PROVE Early /\ lTerm[n] = 0
    BY <1>2, <2>2, <2>5, <2>7, <2>10 DEF Early, LeaseReal, LeaseShape
  <2>11. ASSUME Early' PROVE \A c \in LeaseNodes : ~Ballot(n, c)
    BY <2>10, <2>11 DEF LeaseReal, TermsBegun
  <2>12. ASSUME Early', NobodyYet PROVE NobodyYet'
    BY <1>2, <2>1, <2>4, <2>11, <2>12, <2>7 DEF NobodyYet, LeaseReal, LeaseShape
  <2>13. ASSUME Early', NEW b \in LeaseNodes, NEW Q \in SUBSET LeaseNodes, Elects(b, Q)
         PROVE  Elects(b, Q)'
    <3>1. n \notin Q
      BY <2>10, <2>13 DEF Elects, Bound
    <3> QED BY <1>2, <2>1, <2>4, <2>13, <3>1, <2>7
        DEF Elects, Bound, Quorum, LeaseReal, LeaseShape
  <2> QED BY <2>7, <2>8, <2>9, <2>10, <2>12, <2>13 DEF LeaseReal
<1> QED BY <1>1, <1>2 DEF Attempt

\* Whoever has given a ballot in an early term has no vote left for another.
LEMMA RequestKeepsInv ==
  ASSUME LeaseInv, NEW n \in LeaseNodes, HandleRequest(n)
  PROVE  LeaseInv'
<1> USE DEF LeaseInv
<1>1. PICK m \in lMsgs :
        /\ m.type = "request_lease" /\ m.to = n
        /\ lTerm' = [lTerm EXCEPT ![n] = IF m.term > @ THEN m.term ELSE @]
        /\ IF Grants(n, m)
           THEN /\ lVotedFor' = [lVotedFor EXCEPT ![n] = m.from]
                /\ lMsgs' = (lMsgs \ {m}) \cup Send("grant_lease", n, {m.from}, m.term)
           ELSE /\ lVotedFor' = [lVotedFor EXCEPT ![n] = IF m.term > lTerm[n] THEN NoHolder ELSE @]
                /\ lMsgs' = lMsgs \ {m}
        /\ UNCHANGED <<lLeads, lVotes, lHolder, lElected>>
  BY DEF HandleRequest
<1>2. /\ m.from \in LeaseNodes /\ m.term \in Nat /\ m.term >= 1
      /\ {m.from} \in SUBSET LeaseNodes /\ lTerm[n] \in Nat
  BY DEF LeaseReal, LeaseShape, TermsBegun
<1>3. \A g \in Send("grant_lease", n, {m.from}, m.term) :
        /\ g \in [type : {"request_lease", "grant_lease", "heartbeat"},
                  to : LeaseNodes, from : LeaseNodes, term : Nat]
        /\ g.type = "grant_lease" /\ g.from = n /\ g.to = m.from /\ g.term >= 1
  BY <1>2, SentByOne
<1>4. /\ \A v \in LeaseNodes : lTerm'[v] >= lTerm[v]
      /\ lTerm'[n] >= 1
      /\ lTerm' \in [LeaseNodes -> Nat]
  BY <1>1, <1>2 DEF LeaseReal, LeaseShape
<1>5. \A k : WasElected(k)' = WasElected(k)
  BY <1>1 DEF WasElected
<1>6. \A v, c \in LeaseNodes : Ballot(v, c)' => Ballot(v, c) \/ (Grants(n, m) /\ v = n /\ c = m.from)
  BY <1>1, <1>3 DEF Ballot
<1>7. LeaseShape'
  BY <1>1, <1>2, <1>3, <1>4 DEF LeaseReal, LeaseShape
<1>8. HoldersElected'
  BY <1>1, <1>3, <1>5 DEF LeaseReal, HoldersElected
<1>9. TermsBegun'
  <2>1. \A g \in lMsgs' : g.term >= 1
    BY <1>1, <1>3 DEF LeaseReal, TermsBegun
  <2>2. \A e \in lElected' : e[2] >= 1 /\ lTerm'[e[1]] >= e[2]
    BY <1>1, <1>4, <1>7 DEF LeaseReal, LeaseShape, TermsBegun
  <2>3. \A v, c \in LeaseNodes : Ballot(v, c)' => lTerm'[v] >= 1
    BY <1>4, <1>6, <1>7 DEF LeaseReal, LeaseShape, TermsBegun
  <2> QED BY <2>1, <2>2, <2>3 DEF TermsBegun
<1>10. ASSUME Early' PROVE Early
  BY <1>4, <1>10 DEF Early, LeaseReal, LeaseShape
<1>11. ASSUME Early', m.term > lTerm[n] PROVE \A c \in LeaseNodes : ~Ballot(n, c)
  <2>1. lTerm'[n] = m.term
    BY <1>1, <1>11 DEF LeaseReal, LeaseShape
  <2>2. lTerm[n] = 0
    BY <1>2, <1>11, <2>1 DEF Early
  <2> QED BY <2>2 DEF LeaseReal, TermsBegun
<1>12. ASSUME Early', NobodyYet PROVE NobodyYet'
  <2>1. lHolder[n] = NoHolder
    BY <1>12 DEF LeaseReal, HoldersElected, WasElected, NobodyYet
  <2>2. CASE Grants(n, m)
    <3>1. m.term > lTerm[n] \/ lVotedFor[n] \in {NoHolder, m.from}
      BY <1>2, <2>1, <2>2, LeaseAssumption DEF Grants
    <3>2. \A c \in LeaseNodes : Ballot(n, c) => c = m.from
      BY <1>11, <1>12, <3>1, LeaseAssumption DEF NobodyYet
    <3>3. lVotedFor' = [lVotedFor EXCEPT ![n] = m.from]
      BY <1>1, <2>2
    <3> QED BY <1>1, <1>6, <1>12, <3>2, <3>3 DEF NobodyYet, LeaseReal, LeaseShape
  <2>3. CASE ~Grants(n, m)
    <3>1. lVotedFor' = [lVotedFor EXCEPT ![n] = IF m.term > lTerm[n] THEN NoHolder ELSE @]
      BY <1>1, <2>3
    <3> QED BY <1>1, <1>6, <1>11, <1>12, <2>3, <3>1 DEF NobodyYet, LeaseReal, LeaseShape
  <2> QED BY <2>2, <2>3
<1>13. ASSUME Early', NEW b \in LeaseNodes, NEW Q \in SUBSET LeaseNodes, Elects(b, Q)
       PROVE  Elects(b, Q)'
  <2>1. ASSUME n \in Q PROVE ~(m.term > lTerm[n]) /\ lTerm[n] = 1 /\ lVotedFor[n] = b
    <3>1. lTerm[n] = 1 /\ lVotedFor[n] = b
      BY <1>13, <2>1 DEF Elects, Bound
    <3>2. lTerm'[n] <= 1
      BY <1>13 DEF Early
    <3> QED BY <1>1, <1>2, <3>1, <3>2 DEF LeaseReal, LeaseShape
  <2>2. ASSUME n \in Q, Grants(n, m) PROVE m.from = b
    <3>1. CASE lHolder[n] = m.from
      BY <1>2, <1>13, <3>1, LeaseAssumption DEF LeaseReal, HoldersElected, WasElected, Elects
    <3>2. CASE lVotedFor[n] \in {NoHolder, m.from}
      BY <2>1, <2>2, <3>2, LeaseAssumption
    <3> QED BY <2>1, <2>2, <3>1, <3>2 DEF Grants
  <2>3. ASSUME NEW v \in Q
        PROVE  lTerm'[v] = 1 /\ lVotedFor'[v] = b
    <3>1. CASE v # n
      BY <1>1, <1>13, <3>1 DEF Elects, Bound, LeaseReal, LeaseShape
    <3>2. CASE v = n
      BY <1>1, <2>1, <2>2, <2>3, <3>2 DEF LeaseReal, LeaseShape
    <3> QED BY <3>1, <3>2
  <2>4. ASSUME NEW v \in Q, NEW c \in LeaseNodes, Ballot(v, c)' PROVE c = b
    <3>1. CASE Ballot(v, c)
      BY <1>13, <3>1 DEF Elects, Bound
    <3>2. CASE Grants(n, m) /\ v = n /\ c = m.from
      BY <2>2, <2>4, <3>2
    <3> QED BY <1>6, <2>4, <3>1, <3>2
  <2> QED BY <1>1, <1>13, <2>3, <2>4 DEF Elects, Bound, Quorum
<1> QED BY <1>7, <1>8, <1>9, <1>10, <1>12, <1>13 DEF LeaseReal

\* A quorum elects; two quorums share a voter, who is bound to one candidate.
LEMMA GrantKeepsInv ==
  ASSUME LeaseInv, NEW n \in LeaseNodes, HandleGrant(n)
  PROVE  LeaseInv'
<1> USE DEF LeaseInv
<1>1. PICK m \in lMsgs :
        /\ m.type = "grant_lease" /\ m.to = n
        /\ lMsgs' = lMsgs \ {m}
        /\ UNCHANGED <<lTerm, lVotedFor>>
        /\ \/ UNCHANGED <<lVotes, lLeads, lHolder, lElected>>
           \/ /\ m.term = lTerm[n]
              /\ lVotes' = [lVotes EXCEPT ![n] = @ \cup {m.from}]
              /\ \/ UNCHANGED <<lLeads, lHolder, lElected>>
                 \/ /\ Quorum(lVotes[n] \cup {m.from})
                    /\ lLeads' = [lLeads EXCEPT ![n] = TRUE]
                    /\ lHolder' = [lHolder EXCEPT ![n] = n]
                    /\ lElected' = lElected \cup {<<n, lTerm[n]>>}
  BY DEF HandleGrant
<1>2. m.from \in LeaseNodes /\ m.term \in Nat /\ m.term >= 1 /\ Ballot(m.from, n)
  BY <1>1 DEF LeaseReal, LeaseShape, TermsBegun, Ballot
<1>3. CASE UNCHANGED <<lVotes, lLeads, lHolder, lElected>>
  BY <1>1, <1>3, LosingKeepsInv DEF LeaseReal, LeaseShape
<1>4. CASE /\ m.term = lTerm[n]
           /\ lVotes' = [lVotes EXCEPT ![n] = @ \cup {m.from}]
  <2>1. \A v, c \in LeaseNodes : Ballot(v, c)' => Ballot(v, c)
    BY <1>1, <1>2, <1>4 DEF Ballot, LeaseReal, LeaseShape
  <2>2. /\ lVotes' \in [LeaseNodes -> SUBSET LeaseNodes]
        /\ lMsgs' \subseteq lMsgs
    BY <1>1, <1>2, <1>4 DEF LeaseReal, LeaseShape
  <2>3. Early' = Early
    BY <1>1 DEF Early
  <2>4. \A b, Q : Bound(Q, b) /\ Q \in SUBSET LeaseNodes => Bound(Q, b)'
    BY <1>1, <2>1 DEF Bound
  <2>5. CASE UNCHANGED <<lLeads, lHolder, lElected>>
    <3>1. \A k : WasElected(k)' = WasElected(k)
      BY <2>5 DEF WasElected
    <3>2. LeaseReal'
      BY <1>1, <2>1, <2>2, <2>5, <3>1 DEF LeaseReal, LeaseShape, HoldersElected, TermsBegun
    <3>3. NobodyYet => NobodyYet'
      BY <1>1, <2>1, <2>5 DEF NobodyYet
    <3>4. \A b \in LeaseNodes, Q \in SUBSET LeaseNodes : Elects(b, Q) => Elects(b, Q)'
      BY <2>4, <2>5 DEF Elects, Quorum
    <3> QED BY <2>3, <3>2, <3>3, <3>4
  <2>6. CASE /\ Quorum(lVotes[n] \cup {m.from})
             /\ lLeads' = [lLeads EXCEPT ![n] = TRUE]
             /\ lHolder' = [lHolder EXCEPT ![n] = n]
             /\ lElected' = lElected \cup {<<n, lTerm[n]>>}
    <3>0. PICK V \in SUBSET LeaseNodes : V = lVotes[n] \cup {m.from}
      BY <1>2 DEF LeaseReal, LeaseShape
    <3>1. /\ Quorum(V)
          /\ \A v \in V : Ballot(v, n)
          /\ lTerm[n] \in Nat /\ lTerm[n] >= 1
      BY <1>2, <1>4, <2>6, <3>0 DEF Ballot, LeaseReal, LeaseShape
    <3>2. \A k : WasElected(k) => WasElected(k)'
      BY <2>6 DEF WasElected
    <3>3. WasElected(n)'
      <4>1. <<n, lTerm[n]>> \in lElected' /\ <<n, lTerm[n]>>[1] = n
        BY <2>6
      <4> QED BY <4>1 DEF WasElected
    <3>4. LeaseShape'
      BY <1>1, <2>2, <2>6, <3>1 DEF LeaseReal, LeaseShape
    <3>5. HoldersElected'
      <4>1. \A k \in LeaseNodes : lLeads'[k] => WasElected(k)'
        BY <2>6, <3>2, <3>3 DEF LeaseReal, LeaseShape, HoldersElected
      <4>2. \A k \in LeaseNodes : lHolder'[k] # NoHolder => \E e \in lElected' : e[1] = lHolder'[k]
        <5>1. \A k \in LeaseNodes : lHolder'[k] = n \/ lHolder'[k] = lHolder[k]
          BY <2>6 DEF LeaseReal, LeaseShape
        <5>2. \A k \in LeaseNodes : lHolder[k] # NoHolder => \E e \in lElected' : e[1] = lHolder[k]
          BY <2>6 DEF LeaseReal, HoldersElected, WasElected
        <5>3. \E e \in lElected' : e[1] = n
          BY <3>3 DEF WasElected
        <5> QED BY <5>1, <5>2, <5>3
      <4>3. \A g \in lMsgs' : g.type = "heartbeat" => WasElected(g.from)'
        BY <1>1, <3>2 DEF LeaseReal, HoldersElected
      <4> QED BY <4>1, <4>2, <4>3 DEF HoldersElected, WasElected
    <3>6. TermsBegun'
      BY <1>1, <2>1, <2>6, <3>1 DEF LeaseReal, TermsBegun
    <3>7. ASSUME Early, NobodyYet PROVE Elects(n, V)'
      <4>1. lTerm[n] = 1 /\ \A v \in V : lTerm[v] = 1
        BY <3>1, <3>7 DEF Early, LeaseReal, LeaseShape, TermsBegun
      <4>2. Bound(V, n)
        BY <3>1, <3>7, <4>1 DEF Bound, NobodyYet
      <4>3. Bound(V, n)'
        BY <1>1, <2>1, <3>1, <4>2 DEF Bound
      <4> QED BY <2>6, <3>1, <3>7, <4>1, <4>3 DEF Elects, NobodyYet, Quorum
    <3>8. ASSUME Early, NEW b \in LeaseNodes, NEW Q \in SUBSET LeaseNodes, Elects(b, Q)
          PROVE  Elects(b, Q)'
      <4>1. PICK v \in LeaseNodes : v \in Q /\ v \in V
        BY <3>1, <3>8, LeaseQuorumsMeet DEF Elects
      <4>2. n = b
        BY <3>1, <3>8, <4>1 DEF Elects, Bound
      <4>3. lTerm[n] = 1
        BY <3>1, <3>8 DEF Early
      <4> QED BY <2>4, <2>6, <3>8, <4>2, <4>3 DEF Elects, Quorum
    <3> QED BY <2>3, <3>1, <3>4, <3>5, <3>6, <3>7, <3>8 DEF LeaseReal
  <2> QED BY <1>1, <1>4, <2>5, <2>6
<1> QED BY <1>1, <1>3, <1>4

\* A heartbeat makes its sender, which was elected, the holder.
LEMMA BeatKeepsInv ==
  ASSUME LeaseInv, NEW n \in LeaseNodes, HandleBeat(n)
  PROVE  LeaseInv'
<1> USE DEF LeaseInv
<1>1. PICK m \in lMsgs :
        /\ m.type = "heartbeat" /\ m.to = n
        /\ lMsgs' = lMsgs \ {m}
        /\ UNCHANGED <<lVotedFor, lVotes, lElected>>
        /\ \/ UNCHANGED <<lHolder, lTerm, lLeads>>
           \/ /\ m.term >= lTerm[n]
              /\ lHolder' = [lHolder EXCEPT ![n] = m.from]
              /\ lTerm' = [lTerm EXCEPT ![n] = m.term]
              /\ lLeads' = [lLeads EXCEPT ![n] = FALSE]
  BY DEF HandleBeat
<1>2. CASE UNCHANGED <<lHolder, lTerm, lLeads>>
  BY <1>1, <1>2, LosingKeepsInv DEF LeaseReal, LeaseShape
<1>3. CASE /\ m.term >= lTerm[n]
           /\ lHolder' = [lHolder EXCEPT ![n] = m.from]
           /\ lTerm' = [lTerm EXCEPT ![n] = m.term]
           /\ lLeads' = [lLeads EXCEPT ![n] = FALSE]
  <2>1. m.from \in LeaseNodes /\ m.term \in Nat /\ WasElected(m.from)
    BY <1>1 DEF LeaseReal, LeaseShape, HoldersElected
  <2>2. LeaseShape'
    BY <1>1, <1>3, <2>1 DEF LeaseReal, LeaseShape
  <2>3. \A v \in LeaseNodes : lTerm'[v] >= lTerm[v]
    BY <1>3, <2>1 DEF LeaseReal, LeaseShape
  <2>4. \A v, c : Ballot(v, c)' => Ballot(v, c)
    BY <1>1 DEF Ballot
  <2>5. HoldersElected'
    <3>1. \A k \in LeaseNodes : lHolder'[k] = m.from \/ lHolder'[k] = lHolder[k]
      BY <1>3 DEF LeaseReal, LeaseShape
    <3>2. \A k \in LeaseNodes : lHolder'[k] # NoHolder => \E e \in lElected : e[1] = lHolder'[k]
      BY <2>1, <3>1 DEF LeaseReal, HoldersElected, WasElected
    <3>3. \A k \in LeaseNodes : lLeads'[k] => lLeads[k]
      BY <1>3 DEF LeaseReal, LeaseShape
    <3> QED BY <1>1, <3>2, <3>3 DEF LeaseReal, HoldersElected, WasElected
  <2>6. TermsBegun'
    <3>1. \A e \in lElected' : e[2] >= 1 /\ lTerm'[e[1]] >= e[2]
      BY <1>1, <2>2, <2>3 DEF LeaseReal, LeaseShape, TermsBegun
    <3>2. \A v, c \in LeaseNodes : Ballot(v, c)' => lTerm'[v] >= 1
      BY <2>2, <2>3, <2>4 DEF LeaseReal, LeaseShape, TermsBegun
    <3> QED BY <1>1, <3>1, <3>2 DEF LeaseReal, TermsBegun
  <2>7. ASSUME Early' PROVE Early
    BY <2>2, <2>3, <2>7 DEF Early, LeaseReal, LeaseShape
  <2>8. NobodyYet => NobodyYet'
    BY <1>1, <2>4 DEF NobodyYet
  <2>9. ASSUME Early', NEW b \in LeaseNodes, NEW Q \in SUBSET LeaseNodes, Elects(b, Q)
        PROVE  Elects(b, Q)'
    <3>1. \A v \in Q : lTerm'[v] = 1
      <4>1. \A v \in Q : lTerm[v] = 1 /\ lTerm'[v] >= lTerm[v] /\ lTerm'[v] <= 1 /\ lTerm'[v] \in Nat
        BY <2>2, <2>3, <2>9 DEF Early, Elects, Bound, LeaseShape
      <4> QED BY <4>1
    <3> QED BY <1>1, <2>4, <2>9, <3>1 DEF Elects, Bound, Quorum
  <2> QED BY <2>2, <2>5, <2>6, <2>7, <2>8, <2>9 DEF LeaseReal
<1> QED BY <1>1, <1>2, <1>3

\* A leader repeats its request, of a term that has begun, and claims the lease.
LEMMA RenewKeepsInv ==
  ASSUME LeaseInv, NEW n \in LeaseNodes, Renew(n)
  PROVE  LeaseInv'
<1> USE DEF LeaseInv
<1>1. /\ lLeads[n]
      /\ lMsgs' = lMsgs \cup Send("request_lease", n, Peers(n), lTerm[n])
                        \cup Send("heartbeat", n, Peers(n), lTerm[n])
      /\ UNCHANGED <<lTerm, lVotedFor, lVotes, lElected, lLeads, lHolder>>
  BY DEF Renew
<1>2. lTerm[n] \in Nat /\ lTerm[n] >= 1 /\ WasElected(n) /\ Peers(n) \in SUBSET LeaseNodes
  BY <1>1 DEF LeaseReal, LeaseShape, HoldersElected, WasElected, TermsBegun, Peers
<1>3. \A g \in lMsgs' \ lMsgs :
        /\ g \in [type : {"request_lease", "grant_lease", "heartbeat"},
                  to : LeaseNodes, from : LeaseNodes, term : Nat]
        /\ g.type # "grant_lease" /\ g.from = n /\ g.term >= 1
  BY <1>1, <1>2, SentByOne
<1>4. \A v, c : Ballot(v, c)' => Ballot(v, c)
  BY <1>1, <1>3 DEF Ballot
<1>5. \A k : WasElected(k)' = WasElected(k)
  BY <1>1 DEF WasElected
<1>6. LeaseShape'
  BY <1>1, <1>3 DEF LeaseReal, LeaseShape
<1>7. HoldersElected'
  BY <1>1, <1>2, <1>3, <1>5 DEF LeaseReal, HoldersElected
<1>8. TermsBegun'
  BY <1>1, <1>3, <1>4 DEF LeaseReal, TermsBegun
<1>9. Early' = Early
  BY <1>1 DEF Early
<1>10. NobodyYet => NobodyYet'
  BY <1>1, <1>4 DEF NobodyYet
<1>11. \A b, Q : Elects(b, Q) => Elects(b, Q)'
  BY <1>1, <1>4 DEF Elects, Bound, Quorum
<1> QED BY <1>6, <1>7, <1>8, <1>9, <1>10, <1>11 DEF LeaseReal

\* Among any number of nodes, as long as none of them has gone on to a second term,
\* in whatever order requests, grants and the heartbeats of each renewal arrive, if they
\* do, and whenever copies of the lease run out, at most one is elected (handle_request_lease and handle_grant_lease of
\* lease_algorithm.py).
THEOREM FirstLeaseIsOne == LeaseSpec => []FirstTermElectsOne
<1>1. LeaseInv /\ [LeaseNext]_leaseVars => LeaseInv'
  <2> SUFFICES ASSUME LeaseInv, [LeaseNext]_leaseVars PROVE LeaseInv'
    OBVIOUS
  <2>1. ASSUME NEW n \in LeaseNodes,
               LeaseStart(n) \/ LeaseStop(n) \/ LeaseTrigger(n) \/ GiveUp(n)
                 \/ MonitorLease(n) \/ LeaseExpires(n)
        PROVE  LeaseInv'
    <3>1. UNCHANGED <<lTerm, lVotedFor, lVotes, lElected>> /\ lMsgs' \subseteq lMsgs
      BY <2>1 DEF LeaseStart, LeaseStop, LeaseTrigger, GiveUp, MonitorLease, LeaseExpires
    <3>2. /\ lLeads' \in [LeaseNodes -> BOOLEAN]
          /\ \A k \in LeaseNodes : lLeads'[k] => lLeads[k]
      BY <2>1 DEF LeaseStart, LeaseStop, LeaseTrigger, GiveUp, MonitorLease, LeaseExpires,
                  LeaseInv, LeaseReal, LeaseShape
    <3>3. /\ lHolder' \in [LeaseNodes -> LeaseNodes \cup {NoHolder}]
          /\ \A k \in LeaseNodes : lHolder'[k] # NoHolder => lHolder'[k] = lHolder[k]
      BY <2>1 DEF LeaseStart, LeaseStop, LeaseTrigger, GiveUp, MonitorLease, LeaseExpires,
                  LeaseInv, LeaseReal, LeaseShape
    <3> QED BY <3>1, <3>2, <3>3, LosingKeepsInv
  <2>2. ASSUME NEW n \in LeaseNodes, Attempt(n) PROVE LeaseInv'
    BY <2>2, AttemptKeepsInv
  <2>3. ASSUME NEW n \in LeaseNodes, HandleRequest(n) PROVE LeaseInv'
    BY <2>3, RequestKeepsInv
  <2>4. ASSUME NEW n \in LeaseNodes, HandleGrant(n) PROVE LeaseInv'
    BY <2>4, GrantKeepsInv
  <2>5. ASSUME NEW n \in LeaseNodes, HandleBeat(n) PROVE LeaseInv'
    BY <2>5, BeatKeepsInv
  <2>6. ASSUME NEW n \in LeaseNodes, Renew(n) PROVE LeaseInv'
    BY <2>6, RenewKeepsInv
  <2>7. CASE UNCHANGED leaseVars
    BY <2>7, LosingKeepsInv DEF leaseVars, LeaseInv, LeaseReal, LeaseShape
  <2> QED BY <2>1, <2>2, <2>3, <2>4, <2>5, <2>6, <2>7 DEF LeaseNext
<1>2. LeaseInv => FirstTermElectsOne
  BY DEF LeaseInv, FirstTermElectsOne, Early, NobodyYet, Elects
<1> QED BY <1>1, <1>2, LeaseInitHolds, PTL DEF LeaseSpec

-----------------------------------------------------------------------------
(* Membership lists.                                                        *)

MembershipInv ==
  /\ vView \in [VNodes -> Updates \cup {Unknown}]
  /\ vHeard \in [VNodes -> SUBSET Updates]
  /\ \A n \in VNodes : vView[n] = Unknown <=> vHeard[n] = {}
  /\ ViewIsGravest

\* Updates are ranked: by incarnation, then by status.
LEMMA OverridesRanks ==
  /\ \A a \in Updates : ~ Overrides(a, a) /\ Overrides(a, Unknown)
  /\ \A a, b \in Updates : Overrides(a, b) => ~ Overrides(b, a)
  /\ \A a, b, c \in Updates : Overrides(a, c) => Overrides(a, b) \/ Overrides(b, c)
<1>1. \A a \in Updates : a.incarnation \in Int /\ a.incarnation >= 0
                         /\ a.status \in {"ALIVE", "SUSPECT", "DEAD"}
  BY MembershipAssumption DEF Updates
<1>2. \A a \in Updates : Rank(a.status) \in Int
  BY <1>1 DEF Rank
<1>3. Unknown.incarnation = -1
  BY DEF Unknown
<1> QED BY <1>1, <1>2, <1>3 DEF Overrides

LEMMA UnknownIsNoUpdate == Unknown \notin Updates
BY DEF Unknown, Updates

\* A node that hears more, among it the news that its view takes in or leaves
LEMMA HearingKeepsInv ==
  ASSUME MembershipInv, NEW n \in VNodes, NEW news \in Updates, UpdateMember(n, news),
         NEW more \in SUBSET Updates, news \in more,
         \A update \in more : ~ Overrides(update, news),
         vHeard' = [vHeard EXCEPT ![n] = @ \cup more]
  PROVE  MembershipInv'
<1>0. /\ vView \in [VNodes -> Updates \cup {Unknown}]
      /\ vHeard \in [VNodes -> SUBSET Updates]
      /\ \A k \in VNodes : vView[k] = Unknown <=> vHeard[k] = {}
      /\ \A k \in VNodes : vHeard[k] # {} =>
           vView[k] \in vHeard[k] /\ \A update \in vHeard[k] : ~ Overrides(update, vView[k])
  BY DEF MembershipInv, ViewIsGravest
<1>1. /\ vView' = [vView EXCEPT ![n] = IF Overrides(news, vView[n]) THEN news ELSE vView[n]]
      /\ \A k \in VNodes \ {n} : vView'[k] = vView[k] /\ vHeard'[k] = vHeard[k]
      /\ vView'[n] = (IF Overrides(news, vView[n]) THEN news ELSE vView[n])
      /\ vHeard'[n] = vHeard[n] \cup more
  BY <1>0 DEF UpdateMember
<1>2. /\ vView' \in [VNodes -> Updates \cup {Unknown}]
      /\ vHeard' \in [VNodes -> SUBSET Updates]
  BY <1>0, <1>1
<1>3. /\ vView'[n] \in vHeard'[n]
      /\ \A update \in vHeard'[n] : ~ Overrides(update, vView'[n])
  <2>1. CASE vHeard[n] = {}
    BY <2>1, <1>0, <1>1, OverridesRanks
  <2>2. CASE vHeard[n] # {}
    <3>1. vView[n] \in Updates /\ vView[n] \in vHeard[n] /\ vHeard[n] \in SUBSET Updates
      BY <2>2, <1>0
    <3>2. CASE Overrides(news, vView[n])
      <4>1. \A update \in vHeard[n] : ~ Overrides(update, news)
        BY <2>2, <3>1, <3>2, <1>0, OverridesRanks
      <4> QED BY <4>1, <3>2, <1>1
    <3>3. CASE ~ Overrides(news, vView[n])
      <4>1. \A update \in more : ~ Overrides(update, vView[n])
        BY <3>1, <3>3, OverridesRanks
      <4> QED BY <2>2, <3>1, <3>3, <4>1, <1>0, <1>1
    <3> QED BY <3>2, <3>3
  <2> QED BY <2>1, <2>2
<1>4. \A k \in VNodes : vHeard'[k] # {} =>
        vView'[k] \in vHeard'[k] /\ \A update \in vHeard'[k] : ~ Overrides(update, vView'[k])
  BY <1>0, <1>1, <1>3
<1>5. ViewIsGravest'
  BY <1>4 DEF ViewIsGravest, Overrides
<1>6. \A k \in VNodes : vView'[k] = Unknown <=> vHeard'[k] = {}
  BY <1>0, <1>1, <1>2, <1>3, UnknownIsNoUpdate
<1> QED BY <1>2, <1>5, <1>6 DEF MembershipInv

\* Nodes that hear of a member at first or second hand, in any order and more than
\* once, hold the gravest news of its highest incarnation (membership.py:49).
THEOREM ViewsAreGravest == MembershipSpec => []ViewIsGravest
<1>1. MembershipInit => MembershipInv
  BY DEF MembershipInit, MembershipInv, ViewIsGravest
<1>2. MembershipInv /\ [MembershipNext]_membershipVars => MembershipInv'
  <2> SUFFICES ASSUME MembershipInv, [MembershipNext]_membershipVars PROVE MembershipInv'
    OBVIOUS
  <2>1. ASSUME NEW n \in VNodes, NEW update \in Updates, Learn(n, update) PROVE MembershipInv'
    <3>1. vHeard' = [vHeard EXCEPT ![n] = @ \cup {update}] /\ UpdateMember(n, update)
      BY <2>1 DEF Learn
    <3>2. \A other \in {update} : ~ Overrides(other, update)
      BY OverridesRanks
    <3> QED BY <3>1, <3>2, HearingKeepsInv
  <2>2. ASSUME NEW n \in VNodes, NEW m \in VNodes, MergeList(n, m) PROVE MembershipInv'
    <3>1. vHeard' = [vHeard EXCEPT ![n] = @ \cup vHeard[m]] /\ UpdateMember(n, vView[m])
      BY <2>2 DEF MergeList
    <3>2. PICK news, more : news = vView[m] /\ more = vHeard[m]
      OBVIOUS
    <3>3. /\ news \in Updates /\ more \in SUBSET Updates /\ news \in more
          /\ \A update \in more : ~ Overrides(update, news)
      BY <2>2, <3>2 DEF MergeList, MembershipInv, ViewIsGravest
    <3>4. vHeard' = [vHeard EXCEPT ![n] = @ \cup more] /\ UpdateMember(n, news)
      BY <3>1, <3>2
    <3> QED BY <3>3, <3>4, HearingKeepsInv
  <2>3. CASE UNCHANGED membershipVars
    BY <2>3 DEF membershipVars, MembershipInv, ViewIsGravest, Overrides
  <2> QED BY <2>1, <2>2, <2>3 DEF MembershipNext
<1>3. MembershipInv => ViewIsGravest
  BY DEF MembershipInv
<1> QED BY <1>1, <1>2, <1>3, PTL DEF MembershipSpec

-----------------------------------------------------------------------------
(* Read repair and causal sessions.                                         *)

ClockLeq(v, w) == \A d \in PClients : v[d] <= w[d]

\* Versions are numbered as they were written; everybody holds one of them or none.
RepairTyped(n) ==
  /\ pVersions \in [1..n -> [PClients -> Nat]]
  /\ pStore \in [PReplicas -> 0..n]
  /\ pClock \in [PClients -> [PClients -> Nat]]
  /\ pGot = [c \in PClients |-> pGot[c]]
  /\ \A c \in PClients : \A r \in DOMAIN pGot[c] : pGot[c][r] \in 0..n
  /\ pTask \in [PClients -> [latest : 0..n, stale : SUBSET PReplicas]]
  /\ pAccepted \in [PClients -> SUBSET (1..n)]

\* A session's clock covers what it has accepted.
SessionsCovered ==
  \A c \in PClients : \A t \in pAccepted[c] : ClockLeq(pVersions[t], pClock[c])

RepairInv ==
  /\ \E n \in Nat : RepairTyped(n)
  /\ SessionsCovered
  /\ SessionsAreCausal

\* A session takes in a version that covers its clock: all it has accepted come before.
LEMMA AcceptKeepsCausal ==
  ASSUME NEW n \in Nat, RepairTyped(n), SessionsCovered, SessionsAreCausal,
         NEW k \in Nat, n <= k, NEW c \in PClients, NEW ts \in 1..k,
         NEW versions \in [1..k -> [PClients -> Nat]],
         NEW clock \in [PClients -> Nat],
         \A t \in 1..n : versions[t] = pVersions[t],
         ClockLeq(pClock[c], versions[ts]), ClockLeq(versions[ts], clock),
         ClockLeq(pClock[c], clock),
         pVersions' = versions,
         pClock' = [pClock EXCEPT ![c] = clock],
         pAccepted' = [pAccepted EXCEPT ![c] = @ \cup {ts}]
  PROVE  SessionsCovered' /\ SessionsAreCausal'
<1>0. /\ \A d \in PClients : pAccepted[d] \subseteq 1..n
      /\ \A t \in 1..n : pVersions[t] \in [PClients -> Nat]
      /\ \A d \in PClients : pClock[d] \in [PClients -> Nat]
      /\ \A t \in 1..k : versions[t] \in [PClients -> Nat]
  BY DEF RepairTyped
<1>1. /\ pAccepted'[c] = pAccepted[c] \cup {ts} /\ pClock'[c] = clock
      /\ \A d \in PClients \ {c} : pAccepted'[d] = pAccepted[d] /\ pClock'[d] = pClock[d]
  BY DEF RepairTyped
<1>2. \A t \in pAccepted[c] : ClockLeq(versions[t], versions[ts]) /\ ClockLeq(versions[t], clock)
  <2> TAKE t \in pAccepted[c]
  <2>1. ClockLeq(versions[t], pClock[c])
    BY <1>0 DEF SessionsCovered
  <2> QED BY <2>1, <1>0, SMTT(30) DEF ClockLeq
<1>3. SessionsCovered'
  <2>1. \A d \in PClients : \A t \in pAccepted'[d] : ClockLeq(versions[t], pClock'[d])
    BY <1>0, <1>1, <1>2 DEF SessionsCovered
  <2> QED BY <2>1 DEF SessionsCovered, ClockLeq
<1>4. SessionsAreCausal'
  <2>1. \A d \in PClients : \A s, t \in pAccepted[d] :
          ClockLeq(versions[s], versions[t]) \/ ClockLeq(versions[t], versions[s])
    BY <1>0 DEF SessionsAreCausal, ClockLeq
  <2>2. ClockLeq(versions[ts], versions[ts])
    BY <1>0 DEF ClockLeq
  <2>3. \A d \in PClients : \A s, t \in pAccepted'[d] :
          ClockLeq(versions[s], versions[t]) \/ ClockLeq(versions[t], versions[s])
    BY <1>1, <1>2, <2>1, <2>2
  <2> QED BY <2>3, ZenonT(30) DEF SessionsAreCausal, ClockLeq
<1> QED BY <1>3, <1>4

LEMMA SessionsUntouched ==
  ASSUME RepairInv, UNCHANGED <<pVersions, pClock, pAccepted>>
  PROVE  SessionsCovered' /\ SessionsAreCausal'
BY DEF RepairInv, SessionsCovered, SessionsAreCausal, ClockLeq

\* The n versions so far are numbered 1..n.
LEMMA NextStamp ==
  ASSUME NEW n \in Nat, RepairTyped(n)
  PROVE  Writes = 1..n /\ Cardinality(1..n) = n
<1>1. 1 \in Int /\ n \in Int /\ (1 > n => n = 0)
  OBVIOUS
<1>2. Cardinality(1..n) = IF 1 > n THEN 0 ELSE n - 1 + 1
  BY <1>1, FS_Interval
<1>3. DOMAIN pVersions = 1..n
  BY DEF RepairTyped
<1> QED BY <1>1, <1>2, <1>3 DEF Writes

LEMMA WriteKeepsRepair ==
  ASSUME RepairInv, NEW c \in PClients, NEW r \in PReplicas, PWrite(c, r)
  PROVE  RepairInv'
<1>1. PICK n \in Nat : RepairTyped(n)
  BY DEF RepairInv
<1>2. PICK clock : clock = [pClock[c] EXCEPT ![c] = @ + 1]
  OBVIOUS
<1>3. PICK k \in Nat : k = n + 1
  OBVIOUS
<1>4. PICK versions : versions = [t \in 1..k |-> IF t = k THEN clock ELSE pVersions[t]]
  OBVIOUS
<1>5. 1..k = 1..n \cup {k} /\ k \in 1..k /\ k \notin 1..n /\ n <= k
  BY <1>3
<1>6. Writes \cup {k} = 1..k /\ Cardinality(Writes) + 1 = k
  BY <1>1, <1>3, <1>5, NextStamp
<1>7. /\ pVersions' = versions /\ pClock' = [pClock EXCEPT ![c] = clock]
      /\ pStore' = [pStore EXCEPT ![r] = k]
      /\ pAccepted' = [pAccepted EXCEPT ![c] = @ \cup {k}]
      /\ UNCHANGED <<pGot, pTask>>
  BY <1>2, <1>4, <1>6 DEF PWrite
<1>8. /\ clock \in [PClients -> Nat] /\ ClockLeq(pClock[c], clock) /\ ClockLeq(clock, clock)
  <2>1. pClock[c] \in [PClients -> Nat]
    BY <1>1 DEF RepairTyped
  <2> QED BY <1>2, <2>1 DEF ClockLeq
<1>9. \A t \in 1..n : pVersions[t] \in [PClients -> Nat]
  BY <1>1 DEF RepairTyped
<1>10. /\ versions \in [1..k -> [PClients -> Nat]] /\ versions[k] = clock
       /\ \A t \in 1..n : versions[t] = pVersions[t]
  BY <1>4, <1>5, <1>8, <1>9
<1>11. RepairTyped(k)'
  <2>1. versions \in [1..k -> [PClients -> Nat]]
    BY <1>10
  <2>2. \A x \in 0..n : x \in 0..k
    BY <1>3
  <2>3. pStore' \in [PReplicas -> 0..k]
    BY <1>1, <1>3, <1>7, <2>2 DEF RepairTyped
  <2>4. pClock' \in [PClients -> [PClients -> Nat]]
    BY <1>1, <1>7, <1>8 DEF RepairTyped
  <2>5. pAccepted' \in [PClients -> SUBSET (1..k)]
    BY <1>1, <1>5, <1>7 DEF RepairTyped
  <2>6. pTask' \in [PClients -> [latest : 0..k, stale : SUBSET PReplicas]]
    BY <1>1, <1>7, <2>2 DEF RepairTyped
  <2>7. /\ pGot' = [d \in PClients |-> pGot'[d]]
        /\ \A d \in PClients : \A q \in DOMAIN pGot'[d] : pGot'[d][q] \in 0..k
    BY <1>1, <1>7, <2>2 DEF RepairTyped
  <2> QED BY <1>7, <2>1, <2>3, <2>4, <2>5, <2>6, <2>7 DEF RepairTyped
<1>12. SessionsCovered' /\ SessionsAreCausal'
  <2>1. ClockLeq(pClock[c], versions[k]) /\ ClockLeq(versions[k], clock)
    BY <1>8, <1>10
  <2> QED BY <1>1, <1>5, <1>7, <1>8, <1>10, <2>1, AcceptKeepsCausal DEF RepairInv
<1> QED BY <1>11, <1>12 DEF RepairInv

\* The greatest version among what a read has got, or 0
LEMMA LatestOfGot ==
  ASSUME NEW n \in Nat, NEW got, \A r \in PReplicas : got[r] \in 0..n
  PROVE  LET latest == CHOOSE v \in {got[r] : r \in PReplicas} \cup {0} :
                         \A r \in PReplicas : got[r] <= v
         IN  latest \in 0..n
<1>1. PICK S : S = {got[r] : r \in PReplicas} \cup {0}
  OBVIOUS
<1>2. S \in SUBSET (0..n) /\ 0 \in S
  BY <1>1
<1>3. IsFiniteSet(S) /\ S \in SUBSET Nat /\ S # {}
  <2>1. 0 \in Int /\ n \in Int
    OBVIOUS
  <2>2. IsFiniteSet(0..n)
    BY <2>1, FS_Interval
  <2>3. IsFiniteSet(S)
    BY <1>2, <2>2, FS_Subset
  <2> QED BY <1>2, <2>3
<1>4. \E v \in S : \A y \in S : v >= y
  BY <1>3, MaxIsGreatest
<1>5. \E v \in S : \A r \in PReplicas : got[r] <= v
  <2>1. PICK v \in S : \A y \in S : v >= y
    BY <1>4
  <2>2. \A r \in PReplicas : got[r] \in S /\ got[r] \in 0..n /\ v \in 0..n
    BY <1>1, <1>2
  <2>3. \A r \in PReplicas : got[r] <= v
    BY <2>1, <2>2
  <2> QED BY <2>3
<1>6. (CHOOSE v \in S : \A r \in PReplicas : got[r] <= v) \in S
  BY <1>5
<1> QED BY <1>1, <1>2, <1>6

LEMMA AnswerKeepsRepair ==
  ASSUME RepairInv, NEW c \in PClients, PAnswer(c)
  PROVE  RepairInv'
<1>1. PICK n \in Nat : RepairTyped(n)
  BY DEF RepairInv
<1>2. PICK got : got = pGot[c]
  OBVIOUS
<1>3. DOMAIN got = PReplicas /\ \A r \in PReplicas : got[r] \in 0..n
  BY <1>1, <1>2 DEF PAnswer, RepairTyped
<1>4. PICK latest : latest = CHOOSE v \in {pGot[c][r] : r \in PReplicas} \cup {0} :
                               \A r \in PReplicas : pGot[c][r] <= v
  OBVIOUS
<1>5. latest \in 0..n
  <2>1. \A r \in PReplicas : pGot[c][r] \in 0..n
    BY <1>2, <1>3
  <2> QED BY <2>1, <1>4, LatestOfGot
<1>6. PICK stale : stale = Stale(pGot[c], latest)
  OBVIOUS
<1>7. /\ pGot' = [pGot EXCEPT ![c] = << >>]
      /\ pTask' = [pTask EXCEPT ![c] = [latest |-> latest, stale |-> stale]]
      /\ UNCHANGED <<pStore, pVersions>>
      /\ IF latest > 0 /\ Consistent(c, latest)
         THEN /\ pClock' = [pClock EXCEPT ![c] = MergedClock(@, pVersions[latest])]
              /\ pAccepted' = [pAccepted EXCEPT ![c] = @ \cup {latest}]
         ELSE UNCHANGED <<pClock, pAccepted>>
  BY <1>4, <1>6 DEF PAnswer
<1>8. stale \in SUBSET PReplicas
  BY <1>2, <1>3, <1>6 DEF Stale
<1>9. /\ pVersions' \in [1..n -> [PClients -> Nat]]
      /\ pStore' \in [PReplicas -> 0..n]
      /\ pTask' \in [PClients -> [latest : 0..n, stale : SUBSET PReplicas]]
  BY <1>1, <1>5, <1>7, <1>8 DEF RepairTyped
<1>10. /\ pGot' = [d \in PClients |-> pGot'[d]]
       /\ \A d \in PClients : \A q \in DOMAIN pGot'[d] : pGot'[d][q] \in 0..n
  <2>1. DOMAIN << >> = {}
    OBVIOUS
  <2>2. pGot' = [d \in PClients |-> IF d = c THEN << >> ELSE pGot[d]]
    BY <1>1, <1>7 DEF RepairTyped
  <2>3. pGot' = [d \in PClients |-> pGot'[d]]
    BY <2>2
  <2>4. \A d \in PClients : \A q \in DOMAIN pGot'[d] : pGot'[d][q] \in 0..n
    <3> TAKE d \in PClients
    <3>1. CASE d = c
      BY <2>1, <2>2, <3>1
    <3>2. CASE d # c
      BY <2>2, <3>2, <1>1 DEF RepairTyped
    <3> QED BY <3>1, <3>2
  <2> QED BY <2>3, <2>4
<1>11. CASE latest > 0 /\ Consistent(c, latest)
  <2>1. latest \in 1..n
    BY <1>5, <1>11
  <2>2. PICK versions : versions = pVersions
    OBVIOUS
  <2>3. PICK clock : clock = MergedClock(pClock[c], pVersions[latest])
    OBVIOUS
  <2>4. /\ pClock[c] \in [PClients -> Nat] /\ versions \in [1..n -> [PClients -> Nat]]
        /\ versions[latest] \in [PClients -> Nat]
    BY <1>1, <2>1, <2>2 DEF RepairTyped
  <2>5. ClockLeq(pClock[c], versions[latest])
    BY <1>11, <2>2, <2>4 DEF Consistent, ClockLeq
  <2>6. clock \in [PClients -> Nat] /\ ClockLeq(pClock[c], clock) /\ ClockLeq(versions[latest], clock)
    BY <2>2, <2>3, <2>4 DEF MergedClock, ClockLeq
  <2>7. /\ pVersions' = versions /\ pClock' = [pClock EXCEPT ![c] = clock]
        /\ pAccepted' = [pAccepted EXCEPT ![c] = @ \cup {latest}]
    BY <1>1, <1>7, <1>11, <2>2, <2>3 DEF RepairTyped
  <2>8. \A t \in 1..n : versions[t] = pVersions[t]
    BY <2>2
  <2>9. SessionsCovered' /\ SessionsAreCausal'
    <3>1. n <= n /\ SessionsCovered /\ SessionsAreCausal
      BY DEF RepairInv
    <3> QED BY <1>1, <2>1, <2>4, <2>5, <2>6, <2>7, <2>8, <3>1, AcceptKeepsCausal
  <2>10. /\ pClock' \in [PClients -> [PClients -> Nat]]
         /\ pAccepted' \in [PClients -> SUBSET (1..n)]
    BY <1>1, <2>1, <2>6, <2>7 DEF RepairTyped
  <2>11. RepairTyped(n)'
    BY <1>9, <1>10, <2>10 DEF RepairTyped
  <2> QED BY <2>9, <2>11 DEF RepairInv
<1>12. CASE ~ (latest > 0 /\ Consistent(c, latest))
  <2>1. UNCHANGED <<pVersions, pClock, pAccepted>>
    BY <1>7, <1>12
  <2>2. RepairTyped(n)'
    BY <1>1, <1>9, <1>10, <2>1 DEF RepairTyped
  <2> QED BY <2>1, <2>2, SessionsUntouched DEF RepairInv
<1> QED BY <1>11, <1>12

LEMMA GetKeepsRepair ==
  ASSUME RepairInv, NEW c \in PClients, NEW r \in PReplicas, NEW fails \in BOOLEAN,
         PGet(c, r, fails)
  PROVE  RepairInv'
<1>1. PICK n \in Nat : RepairTyped(n)
  BY DEF RepairInv
<1>2. UNCHANGED <<pVersions, pClock, pAccepted, pStore, pTask>>
  BY DEF PGet
<1>3. PICK more : more = [q \in DOMAIN pGot[c] \cup {r} |->
                            IF q # r THEN pGot[c][q] ELSE IF fails THEN 0 ELSE pStore[r]]
  OBVIOUS
<1>4. pGot' = [d \in PClients |-> IF d = c THEN more ELSE pGot[d]]
  BY <1>1, <1>3 DEF RepairTyped, PGet
<1>5. \A q \in DOMAIN more : more[q] \in 0..n
  BY <1>1, <1>3 DEF RepairTyped
<1>6. pGot' = [d \in PClients |-> pGot'[d]]
  BY <1>4
<1>7. \A d \in PClients : \A q \in DOMAIN pGot'[d] : pGot'[d][q] \in 0..n
  BY <1>1, <1>4, <1>5 DEF RepairTyped
<1>8. RepairTyped(n)'
  BY <1>1, <1>2, <1>6, <1>7 DEF RepairTyped
<1> QED BY <1>2, <1>8, SessionsUntouched DEF RepairInv

LEMMA RepairKeepsRepair ==
  ASSUME RepairInv, NEW c \in PClients, NEW r \in PReplicas, NEW fails \in BOOLEAN,
         PRepair(c, r, fails)
  PROVE  RepairInv'
<1>1. PICK n \in Nat : RepairTyped(n)
  BY DEF RepairInv
<1>2. UNCHANGED <<pVersions, pClock, pAccepted, pGot>>
  BY DEF PRepair
<1>3. pTask[c] \in [latest : 0..n, stale : SUBSET PReplicas]
  BY <1>1 DEF RepairTyped
<1>4. pStore' \in [PReplicas -> 0..n]
  BY <1>1, <1>3 DEF RepairTyped, PRepair
<1>5. pTask' \in [PClients -> [latest : 0..n, stale : SUBSET PReplicas]]
  BY <1>1, <1>3 DEF RepairTyped, PRepair
<1>6. RepairTyped(n)'
  BY <1>1, <1>2, <1>4, <1>5 DEF RepairTyped
<1> QED BY <1>2, <1>6, SessionsUntouched DEF RepairInv

LEMMA RepairEndKeepsRepair ==
  ASSUME RepairInv, NEW c \in PClients, PRepairEnds(c)
  PROVE  RepairInv'
<1>1. PICK n \in Nat : RepairTyped(n)
  BY DEF RepairInv
<1>2. UNCHANGED <<pVersions, pClock, pAccepted, pGot, pStore>>
  BY DEF PRepairEnds
<1>3. pTask' \in [PClients -> [latest : 0..n, stale : SUBSET PReplicas]]
  BY <1>1 DEF RepairTyped, PRepairEnds, NoTask
<1>4. RepairTyped(n)'
  BY <1>1, <1>2, <1>3 DEF RepairTyped
<1> QED BY <1>2, <1>4, SessionsUntouched DEF RepairInv

\* A session accepts no version that lacks one it had seen, wherever its reads find
\* their versions and whatever fails or is repaired meanwhile (causal.py:6, :37).
THEOREM SessionsStayCausal == PSpec => []SessionsAreCausal
<1>1. PInit => RepairInv
  <2> SUFFICES ASSUME PInit PROVE RepairInv
    OBVIOUS
  <2>1. pVersions \in [1..0 -> [PClients -> Nat]]
    BY DEF PInit
  <2>2. RepairTyped(0)
    BY <2>1 DEF PInit, RepairTyped, NoClock, NoTask
  <2>3. SessionsCovered /\ SessionsAreCausal
    BY DEF PInit, SessionsCovered, SessionsAreCausal
  <2> QED BY <2>2, <2>3 DEF RepairInv
<1>2. RepairInv /\ [PNext]_pVars => RepairInv'
  <2> SUFFICES ASSUME RepairInv, [PNext]_pVars PROVE RepairInv'
    OBVIOUS
  <2>1. CASE PNext
    BY <2>1, WriteKeepsRepair, GetKeepsRepair, RepairKeepsRepair, AnswerKeepsRepair,
       RepairEndKeepsRepair DEF PNext
  <2>2. CASE UNCHANGED pVars
    <3>1. PICK n \in Nat : RepairTyped(n)
      BY DEF RepairInv
    <3>2. UNCHANGED <<pVersions, pClock, pAccepted, pGot, pStore, pTask>>
      BY <2>2 DEF pVars
    <3>3. RepairTyped(n)'
      BY <3>1, <3>2 DEF RepairTyped
    <3> QED BY <3>2, <3>3, SessionsUntouched DEF RepairInv
  <2> QED BY <2>1, <2>2
<1>3. RepairInv => SessionsAreCausal
  BY DEF RepairInv
<1> QED BY <1>1, <1>2, <1>3, PTL DEF PSpec
=============================================================================
