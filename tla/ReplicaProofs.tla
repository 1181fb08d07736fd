----------------------------- MODULE ReplicaProofs -----------------------------
(***************************************************************************)
(* Proofs about copies that are brought together, for any parameters.  Of   *)
(* the replicated types: what a replica answers is a function of the        *)
(* updates it has seen, and compare orders two replicas as those sets are    *)
(* ordered.  Of the hash trees: comparing two finds every difference and no  *)
(* other, and a proof of inclusion proves what it says.                      *)
(*                                                                         *)
(* The types: the set of updates a replica, or a state it has shipped,    *)
(* has seen is closed (an update is seen with all that its author had seen), *)
(* so of the updates of one author two replicas have seen prefixes; and      *)
(* each type's state stands for the set seen.  An update adds itself to the  *)
(* set, and a merge of states stands for the union of the sets.              *)
(*                                                                         *)
(* The trees: level by level from the leaves up, a node's hash stands for    *)
(* the blocks below it, of which there are as many as its width.             *)
(***************************************************************************)
EXTENDS CRDT, MerkleTrees, FiniteSetTheorems, WellFoundedInduction, TLAPS

-----------------------------------------------------------------------------
(* The invariant.                                                           *)

Updates ==
    [kind : {"inc", "dec", "add", "remove", "write"},
     on : CElements \cup CKeys \cup {CNull}, arg : Nat \cup {CNull}, ts : Nat,
     by : CNodes, sees : SUBSET Nat]

\* What the updates of a type are like.
Fits(type, op) ==
    /\ type \in {"GCounter", "CausalContext", "PNCounter"} => op.arg \in CAmounts \cup {1}
    /\ type \in {"GCounter", "CausalContext", "DVV"} => op.kind = "inc"
    /\ type = "PNCounter" => op.kind \in {"inc", "dec"}
    /\ type = "DVV" => op.arg \in Nat \ {0}
    /\ type \in {"TwoPhaseSet", "ORSet"} => op.kind \in {"add", "remove"}
    /\ type \in {"LWWRegister", "LWWMap"} => op.kind = "write" /\ op.ts # 0
    /\ type = "LWWRegister" => op.on = CNull

\* Who sees an update sees all that its author had seen.
Closed(ops, S) == S \subseteq 1 .. Len(ops) /\ \A i \in S : ops[i].sees \subseteq S

\* An author sees its own updates; if asked, stamps and numbers differ.
History(type, ops) ==
    /\ ops \in Seq(Updates)
    /\ \A i \in 1 .. Len(ops) :
          /\ Fits(type, ops[i])
          /\ ops[i].sees \subseteq 1 .. i - 1
          /\ \A j \in ops[i].sees : ops[j].sees \subseteq ops[i].sees
          /\ \A j \in 1 .. i - 1 : ops[j].by = ops[i].by => j \in ops[i].sees
          /\ type \notin CTies /\ type \in {"LWWRegister", "LWWMap"} =>
                \A j \in 1 .. i - 1 : ops[j].ts # ops[i].ts
          /\ type \notin CTies /\ type = "DVV" =>
                \A j \in 1 .. i - 1 : ops[j].by = ops[i].by => ops[j].arg # ops[i].arg

OwnSeen(n, ops, S) == \A i \in 1 .. Len(ops) : ops[i].by = n => i \in S

\* The updates of S of a kind, and what they are on.
OfKind(ops, S, kind) == {i \in S : ops[i].kind = kind}
On(ops, S, kind) == {ops[i].on : i \in OfKind(ops, S, kind)}

Weights(ops, S) == [i \in 1 .. Len(ops) |-> IF i \in S THEN ops[i].arg ELSE 0]
Weight(ops, S) == SumTo(Weights(ops, S), Len(ops))

\* Each author's count is the weight of its updates.
By(ops, X, n) == {i \in X : ops[i].by = n}
ByAuthor(ops, X) == [n \in CNodes |-> Weight(ops, By(ops, X, n))]

CountsHold(ops, s, S, kind) == s = ByAuthor(ops, OfKind(ops, S, kind))

ContextHolds(ops, s, S) == s = [n \in CNodes |-> Cardinality(By(ops, S, n))]

PNHolds(ops, s, S) ==
    /\ s = [positive |-> s.positive, negative |-> s.negative]
    /\ CountsHold(ops, s.positive, S, "inc")
    /\ CountsHold(ops, s.negative, S, "dec")

\* The clocks and the dots stand for the updates, and the clocks reach as far
\* as they can.
DVVHolds(ops, s, S) ==
    /\ s = [clock |-> s.clock, dots |-> s.dots]
    /\ s.clock \in [CNodes -> Nat]
    /\ \A n \in CNodes : <<n, s.clock[n] + 1>> \notin s.dots
    /\ \A p \in s.dots : p[2] > s.clock[p[1]]
    /\ CausalPast(s) = {<<ops[i].by, ops[i].arg>> : i \in S}

GSetHolds(ops, s, S) == s = {ops[i].on : i \in S}

TwoPhaseHolds(ops, s, S) ==
    /\ s = [added |-> s.added, removed |-> s.removed]
    /\ s.removed = On(ops, S, "remove")
    /\ s.added \subseteq On(ops, S, "add")
    /\ On(ops, S, "add") \ s.removed \subseteq s.added

\* A pair is removed by a removal that had seen it.
Gone(ops, S) ==
    {i \in OfKind(ops, S, "add") :
        \E j \in OfKind(ops, S, "remove") : ops[j].on = ops[i].on /\ i \in ops[j].sees}

ORHolds(ops, s, S) ==
    /\ s = [added |-> s.added, removed |-> s.removed]
    /\ s.added = {<<ops[i].on, i>> : i \in OfKind(ops, S, "add")}
    /\ s.removed = {<<ops[i].on, i>> : i \in Gone(ops, S)}

Writes(ops, S, k) == {i \in S : ops[i].kind = "write" /\ ops[i].on = k}

\* i wins over j.
Over(ops, i, j) ==
    \/ ops[i].ts > ops[j].ts
    \/ ops[i].ts = ops[j].ts /\ ops[i].by > ops[j].by
    \/ ops[i].ts = ops[j].ts /\ ops[i].by = ops[j].by /\ i < j

Wins(ops, S, k, w) ==
    w \in Writes(ops, S, k) /\ \A j \in Writes(ops, S, k) \ {w} : Over(ops, w, j)

\* A register is signed by the author of the write it holds.
RegisterHolds(ops, n, s, S) ==
    /\ s = [node |-> n, val |-> s.val, ts |-> s.ts, writer |-> s.writer]
    /\ s.writer \in CNodes
    /\ S = {} => s.val = CNull /\ s.ts = 0
    /\ S # {} => \E w \in S : /\ Wins(ops, S, CNull, w)
                              /\ s.val = ops[w].arg /\ s.ts = ops[w].ts
                              /\ s.writer = ops[w].by

\* A register of the map, at k, may be signed by anyone.
EntryHolds(ops, e, S, k) ==
    /\ e = [node |-> e.node, val |-> e.val, ts |-> e.ts, writer |-> e.writer]
    /\ e.node \in CNodes /\ e.writer \in CNodes
    /\ \E w \in S : /\ Wins(ops, S, k, w)
                    /\ e.val = ops[w].arg /\ e.ts = ops[w].ts

MapHolds(ops, s, S) ==
    /\ DOMAIN s = On(ops, S, "write")
    /\ s = [k \in DOMAIN s |-> s[k]]
    /\ \A k \in DOMAIN s : EntryHolds(ops, s[k], S, k)

\* The state s of n, of a type, stands for the updates of S.  Of a map only
\* if two writes have two timestamps: with one timestamp for both, a put on a
\* copied register is signed by the node it was copied from (lww_map.py:107).
Holds(type, ops, n, s, S) ==
    /\ type = "GCounter" => CountsHold(ops, s, S, "inc")
    /\ type = "CausalContext" => ContextHolds(ops, s, S)
    /\ type = "PNCounter" => PNHolds(ops, s, S)
    /\ type = "DVV" => DVVHolds(ops, s, S)
    /\ type = "GSet" => GSetHolds(ops, s, S)
    /\ type = "TwoPhaseSet" => TwoPhaseHolds(ops, s, S)
    /\ type = "ORSet" => ORHolds(ops, s, S)
    /\ type = "LWWRegister" => RegisterHolds(ops, n, s, S)
    /\ type = "LWWMap" /\ type \notin CTies => MapHolds(ops, s, S)

CInv ==
    /\ cType \in CTypes
    /\ History(cType, cOps)
    /\ cState = [n \in CNodes |-> cState[n]]
    /\ cSeen = [n \in CNodes |-> cSeen[n]]
    /\ cSaved = [n \in CNodes |-> cSaved[n]]
    /\ \A n \in CNodes :
          /\ Closed(cOps, cSeen[n]) /\ OwnSeen(n, cOps, cSeen[n])
          /\ Closed(cOps, cSaved[n][2])
          /\ Holds(cType, cOps, n, cState[n], cSeen[n])
          /\ Holds(cType, cOps, n, cSaved[n][1], cSaved[n][2])

-----------------------------------------------------------------------------
(* Numbers and sums.                                                        *)

LEMMA LeastNumber ==
    ASSUME NEW T \in SUBSET Nat, T # {}
    PROVE  \E x \in T : \A y \in T : x <= y
<1> DEFINE R == {ss \in Nat \X Nat : ss[1] < ss[2]}
<1>1. IsWellFoundedOn(R, Nat)
  BY NatLessThanWellFounded DEF OpToRel
<1>2. PICK x \in T : \A y \in T : ~ (<<y, x>> \in R)
  <2> HIDE DEF R
  <2> QED BY <1>1, WFMin
<1>3. ASSUME NEW y \in T PROVE x <= y
  <2>1. ~ (<<y, x>> \in {ss \in Nat \X Nat : ss[1] < ss[2]})
    BY <1>2
  <2>2. <<y, x>> \in Nat \X Nat /\ x \in Nat /\ y \in Nat
    OBVIOUS
  <2>3. ~ (y < x)
    BY <2>1, <2>2
  <2> QED BY <2>2, <2>3
<1> QED BY <1>3

\* Induction over the natural numbers, for a set.
LEMMA EveryNumber ==
    ASSUME NEW S, 0 \in S, \A n \in Nat : n \in S => n + 1 \in S
    PROVE  \A n \in Nat : n \in S
<1> SUFFICES ASSUME Nat \ S # {} PROVE FALSE
  OBVIOUS
<1>1. PICK x \in Nat \ S : \A y \in Nat \ S : x <= y
  BY LeastNumber
<1>2. x # 0 /\ x - 1 \in Nat /\ x - 1 \in S
  BY <1>1
<1> QED BY <1>1, <1>2

\* The sums of the first terms, one after the other.
Sums(m, f, n) == m[0] = 0 /\ \A k \in 1 .. n : m[k] = m[k - 1] + f[k]

LEMMA SumsExist ==
    ASSUME NEW n \in Nat, NEW f \in [1 .. n -> Nat]
    PROVE  \E m \in [0 .. n -> Nat] : Sums(m, f, n)
<1> DEFINE N == {i \in Nat : i <= n => \E m \in [0 .. i -> Nat] : Sums(m, f, i)}
<1>1. 0 \in N
  <2>1. [k \in 0 .. 0 |-> 0] \in [0 .. 0 -> Nat]
    OBVIOUS
  <2>2. Sums([k \in 0 .. 0 |-> 0], f, 0)
    BY DEF Sums
  <2> QED BY <2>1, <2>2
<1>2. ASSUME NEW i \in Nat, i \in N PROVE i + 1 \in N
  <2> SUFFICES ASSUME i + 1 <= n PROVE \E m \in [0 .. i + 1 -> Nat] : Sums(m, f, i + 1)
    BY SMTT(30)
  <2>1. PICK m \in [0 .. i -> Nat] : Sums(m, f, i)
    BY <1>2
  <2>2. f[i + 1] \in Nat /\ m[i] \in Nat
    OBVIOUS
  <2>3. PICK last \in Nat : last = m[i] + f[i + 1]
    BY <2>2
  <2> DEFINE g == [k \in 0 .. i + 1 |-> IF k = i + 1 THEN last ELSE m[k]]
  <2>4. g \in [0 .. i + 1 -> Nat]
    OBVIOUS
  <2>5. ASSUME NEW k \in 1 .. i + 1 PROVE g[k] = g[k - 1] + f[k]
    <3>1. CASE k = i + 1
      BY <2>3, <3>1
    <3>2. CASE k \in 1 .. i
      BY <2>1, <3>2 DEF Sums
    <3> QED BY <3>1, <3>2
  <2>6. g[0] = 0
    BY <2>1 DEF Sums
  <2>7. Sums(g, f, i + 1)
    <3> HIDE DEF g
    <3> QED BY <2>5, <2>6 DEF Sums
  <2> QED BY <2>4, <2>7
<1>3. \A i \in Nat : i \in N
  <2> HIDE DEF N
  <2> QED BY <1>1, <1>2, EveryNumber
<1> QED BY <1>3

\* SumTo adds one term after the other.
LEMMA SumSteps ==
    ASSUME NEW n \in Nat, NEW f \in [1 .. n -> Nat]
    PROVE  \E m \in [0 .. n -> Nat] : Sums(m, f, n) /\ \A i \in 0 .. n : SumTo(f, i) = m[i]
<1>1. PICK m \in [0 .. n -> Nat] : Sums(m, f, n)
  BY SumsExist
<1>2. ASSUME NEW i \in 0 .. n PROVE SumTo(f, i) = m[i]
  <2> DEFINE Loop(g) == g = [k \in 0 .. i |-> IF k = 0 THEN 0 ELSE g[k - 1] + f[k]]
             h == [k \in 0 .. i |-> m[k]]
  <2>1. Loop(h)
    <3>1. ASSUME NEW k \in 0 .. i PROVE h[k] = IF k = 0 THEN 0 ELSE h[k - 1] + f[k]
      <4>1. CASE k = 0
        BY <1>1, <4>1 DEF Sums
      <4>2. CASE k # 0
        <5>1. k \in 1 .. n /\ k - 1 \in 0 .. i
          BY <4>2
        <5>2. m[k] = m[k - 1] + f[k]
          BY <1>1, <5>1 DEF Sums
        <5> QED BY <4>2, <5>1, <5>2
      <4> QED BY <4>1, <4>2
    <3>2. h = [k \in 0 .. i |-> h[k]]
      OBVIOUS
    <3> HIDE DEF h
    <3> QED BY <3>1, <3>2
  <2>2. PICK g : g = CHOOSE x : Loop(x)
    OBVIOUS
  <2>3. Loop(g)
    <3> HIDE DEF Loop, h
    <3> QED BY <2>1, <2>2
  <2>4. SumTo(f, i) = g[i]
    BY <2>2 DEF SumTo
  <2> DEFINE N == {k \in Nat : k <= i => g[k] = m[k]}
  <2>5. 0 \in N
    BY <1>1, <2>3 DEF Sums
  <2>6. ASSUME NEW k \in Nat, k \in N PROVE k + 1 \in N
    <3> SUFFICES ASSUME k + 1 <= i PROVE g[k + 1] = m[k + 1]
      OBVIOUS
    <3>1. k + 1 \in 1 .. n /\ k + 1 \in 0 .. i /\ (k + 1) - 1 = k /\ k + 1 # 0
      OBVIOUS
    <3>2. m[k + 1] = m[k] + f[k + 1]
      BY <1>1, <3>1 DEF Sums
    <3>3. g[k + 1] = g[k] + f[k + 1]
      BY <2>3, <3>1
    <3> QED BY <2>6, <3>2, <3>3
  <2>7. i \in N
    <3>1. i \in Nat
      OBVIOUS
    <3> HIDE DEF N
    <3> QED BY <2>5, <2>6, <3>1, EveryNumber
  <2> QED BY <2>4, <2>7
<1> QED BY <1>1, <1>2

LEMMA SumLess ==
    ASSUME NEW n \in Nat, NEW f \in [1 .. n -> Nat], NEW g \in [1 .. n -> Nat],
           \A k \in 1 .. n : f[k] <= g[k]
    PROVE  /\ SumTo(f, n) \in Nat /\ SumTo(f, n) <= SumTo(g, n)
           /\ (\E k \in 1 .. n : f[k] < g[k]) => SumTo(f, n) < SumTo(g, n)
<1>1. PICK a \in [0 .. n -> Nat] : Sums(a, f, n) /\ \A i \in 0 .. n : SumTo(f, i) = a[i]
  BY SumSteps
<1>2. PICK b \in [0 .. n -> Nat] : Sums(b, g, n) /\ \A i \in 0 .. n : SumTo(g, i) = b[i]
  BY SumSteps
<1> DEFINE N == {i \in Nat : i <= n =>
                    /\ a[i] <= b[i]
                    /\ (\E k \in 1 .. i : f[k] < g[k]) => a[i] < b[i]}
<1>3. 0 \in N
  BY <1>1, <1>2 DEF Sums
<1>4. ASSUME NEW i \in Nat, i \in N PROVE i + 1 \in N
  <2> SUFFICES ASSUME i + 1 <= n
               PROVE  /\ a[i + 1] <= b[i + 1]
                      /\ (\E k \in 1 .. i + 1 : f[k] < g[k]) => a[i + 1] < b[i + 1]
    OBVIOUS
  <2>1. i + 1 \in 1 .. n /\ (i + 1) - 1 = i /\ i \in 0 .. n
    OBVIOUS
  <2>2. a[i + 1] = a[i] + f[i + 1] /\ b[i + 1] = b[i] + g[i + 1]
    BY <1>1, <1>2, <2>1 DEF Sums
  <2>3. f[i + 1] <= g[i + 1] /\ f[i + 1] \in Nat /\ g[i + 1] \in Nat /\ a[i] \in Nat /\ b[i] \in Nat
    BY <2>1
  <2>4. a[i] <= b[i] /\ ((\E k \in 1 .. i : f[k] < g[k]) => a[i] < b[i])
    BY <1>4
  <2>5. a[i + 1] <= b[i + 1]
    BY <2>2, <2>3, <2>4
  <2>6. ASSUME NEW k \in 1 .. i + 1, f[k] < g[k] PROVE a[i + 1] < b[i + 1]
    <3>1. PICK u \in Nat, v \in Nat, w \in Nat, x \in Nat :
             u = a[i] /\ v = b[i] /\ w = f[i + 1] /\ x = g[i + 1]
      BY <2>3
    <3>2. u < v \/ w < x
      <4>1. CASE k = i + 1
        BY <2>6, <3>1, <4>1
      <4>2. CASE k \in 1 .. i
        BY <2>4, <2>6, <3>1, <4>2
      <4> QED BY <4>1, <4>2
    <3>3. u <= v /\ w <= x /\ a[i + 1] = u + w /\ b[i + 1] = v + x
      BY <2>2, <2>3, <2>4, <3>1
    <3> QED BY <3>2, <3>3
  <2> QED BY <2>5, <2>6
<1>5. n \in N
  <2> HIDE DEF N
  <2> QED BY <1>3, <1>4, EveryNumber
<1>6. n \in 0 .. n /\ a[n] \in Nat
  OBVIOUS
<1> QED BY <1>1, <1>2, <1>5, <1>6

\* One term more by x, the sum more by x.
LEMMA SumPoint ==
    ASSUME NEW n \in Nat, NEW f \in [1 .. n -> Nat], NEW g \in [1 .. n -> Nat],
           NEW p \in 1 .. n, NEW x \in Nat, g[p] = f[p] + x,
           \A k \in 1 .. n : k # p => g[k] = f[k]
    PROVE  SumTo(g, n) = SumTo(f, n) + x
<1>1. PICK a \in [0 .. n -> Nat] : Sums(a, f, n) /\ \A i \in 0 .. n : SumTo(f, i) = a[i]
  BY SumSteps
<1>2. PICK b \in [0 .. n -> Nat] : Sums(b, g, n) /\ \A i \in 0 .. n : SumTo(g, i) = b[i]
  BY SumSteps
<1> DEFINE N == {i \in Nat : i <= n => b[i] = IF p <= i THEN a[i] + x ELSE a[i]}
<1>3. 0 \in N
  BY <1>1, <1>2 DEF Sums
<1>4. ASSUME NEW i \in Nat, i \in N PROVE i + 1 \in N
  <2> SUFFICES ASSUME i + 1 <= n PROVE b[i + 1] = IF p <= i + 1 THEN a[i + 1] + x ELSE a[i + 1]
    OBVIOUS
  <2>1. i + 1 \in 1 .. n /\ (i + 1) - 1 = i /\ i \in 0 .. n
    OBVIOUS
  <2>2. a[i + 1] = a[i] + f[i + 1] /\ b[i + 1] = b[i] + g[i + 1]
    BY <1>1, <1>2, <2>1 DEF Sums
  <2>3. f[i + 1] \in Nat /\ g[i + 1] \in Nat /\ a[i] \in Nat /\ b[i] \in Nat
    BY <2>1
  <2>4. b[i] = IF p <= i THEN a[i] + x ELSE a[i]
    BY <1>4
  <2>5. CASE p = i + 1
    BY <2>2, <2>3, <2>4, <2>5, SMTT(30)
  <2>6. CASE p # i + 1
    <3>1. g[i + 1] = f[i + 1]
      BY <2>1, <2>6
    <3>2. CASE p <= i
      <4>1. p <= i + 1
        BY <3>2
      <4>2. b[i] = a[i] + x
        BY <2>4, <3>2
      <4>3. PICK u \in Nat, v \in Nat : u = a[i] /\ v = f[i + 1]
        BY <2>3
      <4>4. b[i + 1] = (u + x) + v /\ a[i + 1] = u + v
        BY <2>2, <3>1, <4>2, <4>3
      <4>5. b[i + 1] = a[i + 1] + x
        BY <4>4
      <4> QED BY <4>1, <4>5
    <3>3. CASE ~ (p <= i)
      <4>1. ~ (p <= i + 1)
        BY <2>6, <3>3
      <4> QED BY <2>2, <2>3, <2>4, <3>1, <3>3, <4>1
    <3> QED BY <3>2, <3>3
  <2> QED BY <2>5, <2>6
<1>5. n \in N
  <2> HIDE DEF N
  <2> QED BY <1>3, <1>4, EveryNumber
<1>6. n \in 0 .. n /\ p <= n
  OBVIOUS
<1> QED BY <1>1, <1>2, <1>5, <1>6

-----------------------------------------------------------------------------
(* Weights of sets of updates.                                              *)

\* more is the history ops and one update.
Extends(ops, op, more) ==
    /\ ops \in Seq(Updates) /\ op \in Updates /\ more \in Seq(Updates)
    /\ Len(more) = Len(ops) + 1 /\ more[Len(ops) + 1] = op
    /\ \A i \in 1 .. Len(ops) : more[i] = ops[i]

Old(ops, S) == S \subseteq 1 .. Len(ops)

With(ops, S) == S \cup {Len(ops) + 1}

LEMMA AppendExtends ==
    ASSUME NEW ops \in Seq(Updates), NEW op \in Updates
    PROVE  Extends(ops, op, Append(ops, op))
BY DEF Extends

\* Every update of X counts some number.
Counted(ops, X) ==
    ops \in Seq(Updates) /\ X \subseteq 1 .. Len(ops) /\ \A i \in X : ops[i].arg \in Nat

LEMMA WeightsType ==
    ASSUME NEW ops, NEW X, Counted(ops, X)
    PROVE  Len(ops) \in Nat /\ Weights(ops, X) \in [1 .. Len(ops) -> Nat]
BY DEF Counted, Weights

\* More updates weigh more.
LEMMA WeightGrows ==
    ASSUME NEW ops, NEW X, NEW Y, Counted(ops, Y), X \subseteq Y
    PROVE  /\ Weight(ops, X) \in Nat /\ Weight(ops, Y) \in Nat
           /\ Weight(ops, X) <= Weight(ops, Y)
           /\ (\E i \in Y \ X : ops[i].arg # 0) => Weight(ops, X) < Weight(ops, Y)
<1>1. Counted(ops, X)
  BY DEF Counted
<1>2. PICK n \in Nat : n = Len(ops)
  BY WeightsType
<1>3. PICK f \in [1 .. n -> Nat] : f = Weights(ops, X)
  BY <1>1, <1>2, WeightsType
<1>4. PICK g \in [1 .. n -> Nat] : g = Weights(ops, Y)
  BY <1>2, WeightsType
<1>5. ASSUME NEW k \in 1 .. n PROVE f[k] <= g[k]
  <2>1. f[k] = IF k \in X THEN ops[k].arg ELSE 0
    BY <1>2, <1>3 DEF Weights
  <2>2. g[k] = IF k \in Y THEN ops[k].arg ELSE 0
    BY <1>2, <1>4 DEF Weights
  <2>3. f[k] \in Nat /\ g[k] \in Nat
    OBVIOUS
  <2>4. CASE k \in X
    BY <2>1, <2>2, <2>3, <2>4
  <2>5. CASE k \notin X
    BY <2>1, <2>3, <2>5
  <2> QED BY <2>4, <2>5
<1>6. ASSUME NEW i \in Y \ X, ops[i].arg # 0 PROVE i \in 1 .. n /\ f[i] < g[i]
  <2>1. i \in 1 .. n
    BY <1>2 DEF Counted
  <2>2. f[i] = 0 /\ g[i] = ops[i].arg
    BY <1>2, <1>3, <1>4, <2>1 DEF Weights
  <2>3. g[i] \in Nat
    BY <2>1
  <2> QED BY <1>6, <2>1, <2>2, <2>3
<1>7. /\ SumTo(f, n) \in Nat /\ SumTo(f, n) <= SumTo(g, n)
      /\ (\E k \in 1 .. n : f[k] < g[k]) => SumTo(f, n) < SumTo(g, n)
  BY <1>5, SumLess
<1>8. \A k \in 1 .. n : g[k] <= g[k]
  OBVIOUS
<1>9. SumTo(g, n) \in Nat
  BY <1>8, SumLess
<1> QED BY <1>2, <1>3, <1>4, <1>6, <1>7, <1>9 DEF Weight

\* An update weighs what it counts.
LEMMA WeightAdds ==
    ASSUME NEW ops, NEW X, NEW p, Counted(ops, X \cup {p}), p \notin X
    PROVE  Weight(ops, X \cup {p}) = Weight(ops, X) + ops[p].arg
<1>1. Counted(ops, X) /\ p \in 1 .. Len(ops) /\ ops[p].arg \in Nat
  BY DEF Counted
<1>2. PICK n \in Nat : n = Len(ops)
  BY WeightsType
<1>3. PICK f \in [1 .. n -> Nat] : f = Weights(ops, X)
  BY <1>1, <1>2, WeightsType
<1>4. PICK g \in [1 .. n -> Nat] : g = Weights(ops, X \cup {p})
  BY <1>2, WeightsType
<1>5. PICK x \in Nat : x = ops[p].arg
  BY <1>1
<1>6. g[p] = x /\ f[p] = 0
  BY <1>1, <1>2, <1>3, <1>4, <1>5 DEF Weights
<1>7. \A k \in 1 .. n : k # p => g[k] = f[k]
  BY <1>2, <1>3, <1>4 DEF Weights
<1>8. g[p] = f[p] + x
  BY <1>6
<1>9. SumTo(g, n) = SumTo(f, n) + x
  BY <1>1, <1>2, <1>7, <1>8, SumPoint, ZenonT(30)
<1> QED BY <1>2, <1>3, <1>4, <1>5, <1>9 DEF Weight

\* Sets of old updates weigh what they did.
LEMMA WeightKept ==
    ASSUME NEW ops, NEW op, NEW more, Extends(ops, op, more), NEW X, Counted(ops, X)
    PROVE  Counted(more, X) /\ Weight(more, X) = Weight(ops, X)
<1>1. Counted(more, X)
  BY DEF Counted, Extends
<1>2. PICK n \in Nat : n = Len(ops) /\ Len(more) = n + 1
  BY WeightsType DEF Extends
<1>3. PICK f \in [1 .. n -> Nat] : f = Weights(ops, X)
  BY <1>2, WeightsType
<1>4. PICK g \in [1 .. n + 1 -> Nat] : g = Weights(more, X)
  BY <1>1, <1>2, WeightsType
<1>5. g[n + 1] = 0
  <2>1. n + 1 \notin X /\ n + 1 \in 1 .. n + 1
    BY <1>2 DEF Counted
  <2> QED BY <1>2, <1>4, <2>1 DEF Weights
<1>6. \A k \in 1 .. n : k \in 1 .. n + 1 /\ g[k] = f[k]
  BY <1>2, <1>3, <1>4 DEF Weights, Counted, Extends
<1>7. PICK a \in [0 .. n -> Nat] : Sums(a, f, n) /\ \A i \in 0 .. n : SumTo(f, i) = a[i]
  BY SumSteps
<1>8. PICK b \in [0 .. n + 1 -> Nat] :
        Sums(b, g, n + 1) /\ \A i \in 0 .. n + 1 : SumTo(g, i) = b[i]
  <2>1. n + 1 \in Nat
    OBVIOUS
  <2> QED BY <2>1, SumSteps
<1> DEFINE N == {i \in Nat : i <= n => b[i] = a[i]}
<1>9. 0 \in N
  BY <1>7, <1>8 DEF Sums
<1>10. ASSUME NEW i \in Nat, i \in N PROVE i + 1 \in N
  <2> SUFFICES ASSUME i + 1 <= n PROVE b[i + 1] = a[i + 1]
    OBVIOUS
  <2>1. i + 1 \in 1 .. n /\ i + 1 \in 1 .. n + 1 /\ (i + 1) - 1 = i
    OBVIOUS
  <2>2. a[i + 1] = a[i] + f[i + 1] /\ b[i + 1] = b[i] + g[i + 1]
    BY <1>7, <1>8, <2>1 DEF Sums
  <2> QED BY <1>6, <1>10, <2>1, <2>2
<1>11. b[n] = a[n]
  <2>1. n \in N
    <3> HIDE DEF N
    <3> QED BY <1>9, <1>10, EveryNumber
  <2> QED BY <2>1
<1>12. b[n + 1] = b[n] + g[n + 1]
  <2>1. n + 1 \in 1 .. n + 1 /\ (n + 1) - 1 = n
    OBVIOUS
  <2> QED BY <1>8, <2>1 DEF Sums
<1>13. n \in 0 .. n /\ n + 1 \in 0 .. n + 1 /\ a[n] \in Nat
  OBVIOUS
<1>14. SumTo(g, n + 1) = SumTo(f, n)
  BY <1>5, <1>7, <1>8, <1>11, <1>12, <1>13
<1> QED BY <1>1, <1>2, <1>3, <1>4, <1>14 DEF Weight

LEMMA SumOfZeros ==
    ASSUME NEW n \in Nat, NEW f \in [1 .. n -> Nat], \A k \in 1 .. n : f[k] = 0
    PROVE  SumTo(f, n) = 0
<1>1. PICK a \in [0 .. n -> Nat] : Sums(a, f, n) /\ \A i \in 0 .. n : SumTo(f, i) = a[i]
  BY SumSteps
<1> DEFINE N == {i \in Nat : i <= n => a[i] = 0}
<1>2. 0 \in N
  BY <1>1 DEF Sums
<1>3. ASSUME NEW i \in Nat, i \in N PROVE i + 1 \in N
  <2> SUFFICES ASSUME i + 1 <= n PROVE a[i + 1] = 0
    OBVIOUS
  <2>1. i + 1 \in 1 .. n /\ (i + 1) - 1 = i
    OBVIOUS
  <2>2. a[i + 1] = a[i] + f[i + 1]
    BY <1>1, <2>1 DEF Sums
  <2> QED BY <1>3, <2>1, <2>2
<1>4. n \in N
  <2> HIDE DEF N
  <2> QED BY <1>2, <1>3, EveryNumber
<1>5. n \in 0 .. n
  OBVIOUS
<1> QED BY <1>1, <1>4, <1>5

LEMMA NothingWeighsNothing ==
    ASSUME NEW ops \in Seq(Updates) PROVE Weight(ops, {}) = 0
<1>1. Counted(ops, {})
  BY DEF Counted
<1>2. PICK n \in Nat : n = Len(ops)
  OBVIOUS
<1>3. PICK f \in [1 .. n -> Nat] : f = Weights(ops, {})
  BY <1>1, <1>2, WeightsType
<1>4. \A k \in 1 .. n : f[k] = 0
  BY <1>2, <1>3 DEF Weights
<1>5. SumTo(f, n) = 0
  BY <1>4, SumOfZeros
<1> QED BY <1>2, <1>3, <1>5 DEF Weight

LEMMA NodesAreNumbers == Cardinality(CNodes) \in Nat /\ CNodes = 1 .. Cardinality(CNodes)
BY CNodesAssumption, FS_CardinalityType

\* What the authors' updates weigh adds up to what all weigh.
LEMMA AuthorsWeighAll ==
    ASSUME NEW ops, NEW X, Counted(ops, X)
    PROVE  Total(ByAuthor(ops, X)) = Weight(ops, X)
<1>1. PICK c \in Nat : c = Cardinality(CNodes) /\ CNodes = 1 .. c
  BY NodesAreNumbers
<1>2. Len(ops) \in Nat /\ ops \in Seq(Updates)
  BY DEF Counted
<1>3. \A i \in X : i \in 1 .. Len(ops) /\ ops[i].by \in 1 .. c
  <2>1. \A i \in 1 .. Len(ops) : ops[i] \in Updates
    BY <1>2
  <2> QED BY <1>1, <2>1 DEF Counted, Updates
<1> DEFINE Y(l) == {i \in X : i <= l}
           N == {l \in Nat : SumTo(ByAuthor(ops, Y(l)), c) = Weight(ops, Y(l))}
<1>4. ASSUME NEW l \in Nat PROVE ByAuthor(ops, Y(l)) \in [1 .. c -> Nat]
  <2>1. ASSUME NEW n \in 1 .. c PROVE Weight(ops, By(ops, Y(l), n)) \in Nat
    BY WeightGrows DEF By
  <2> QED BY <1>1, <2>1 DEF ByAuthor
<1>5. 0 \in N
  <2>1. Y(0) = {}
    BY <1>2, <1>3
  <2>2. Weight(ops, {}) = 0
    BY <1>2, NothingWeighsNothing
  <2>3. ByAuthor(ops, {}) \in [1 .. c -> Nat]
    BY <1>4, <2>1
  <2>4. \A n \in 1 .. c : ByAuthor(ops, {})[n] = 0
    <3>1. ASSUME NEW n \in 1 .. c PROVE ByAuthor(ops, {})[n] = Weight(ops, {})
      <4>1. By(ops, {}, n) = {}
        BY DEF By
      <4> QED BY <1>1, <4>1 DEF ByAuthor
    <3> QED BY <2>2, <3>1
  <2>5. SumTo(ByAuthor(ops, {}), c) = 0
    BY <2>3, <2>4, SumOfZeros
  <2> QED BY <2>1, <2>2, <2>5
<1>6. ASSUME NEW l \in Nat, l \in N PROVE l + 1 \in N
  <2>1. SumTo(ByAuthor(ops, Y(l)), c) = Weight(ops, Y(l))
    BY <1>6
  <2>2. CASE l + 1 \notin X
    <3>1. Y(l + 1) = Y(l)
      BY <1>2, <1>3, <2>2
    <3> QED BY <2>1, <3>1
  <2>3. CASE l + 1 \in X
    <3>1. Y(l + 1) = Y(l) \cup {l + 1} /\ l + 1 \notin Y(l)
      BY <1>2, <1>3, <2>3
    <3>2. PICK b \in 1 .. c, x \in Nat : b = ops[l + 1].by /\ x = ops[l + 1].arg
      BY <1>3, <2>3 DEF Counted
    <3>3. Weight(ops, Y(l + 1)) = Weight(ops, Y(l)) + x
      <4>1. Counted(ops, Y(l) \cup {l + 1})
        BY <2>3 DEF Counted
      <4> HIDE DEF Y
      <4> QED BY <3>1, <3>2, <4>1, WeightAdds
    <3>4. PICK f \in [1 .. c -> Nat] : f = ByAuthor(ops, Y(l))
      BY <1>4
    <3>5. PICK g \in [1 .. c -> Nat] : g = ByAuthor(ops, Y(l + 1))
      <4>1. l + 1 \in Nat
        OBVIOUS
      <4> HIDE DEF Y
      <4> QED BY <1>4, <4>1
    <3>6. ASSUME NEW n \in 1 .. c, n # b PROVE g[n] = f[n]
      <4>1. By(ops, Y(l + 1), n) = By(ops, Y(l), n)
        BY <3>1, <3>2, <3>6 DEF By
      <4> HIDE DEF Y
      <4> QED BY <1>1, <3>4, <3>5, <4>1 DEF ByAuthor
    <3>7. g[b] = f[b] + x
      <4> DEFINE Z == By(ops, Y(l), b)
      <4>1. By(ops, Y(l + 1), b) = Z \cup {l + 1} /\ l + 1 \notin Z
        BY <3>1, <3>2 DEF By
      <4>2. Counted(ops, Z \cup {l + 1})
        BY <2>3 DEF Counted, By
      <4>3. g[b] = Weight(ops, Z \cup {l + 1}) /\ f[b] = Weight(ops, Z)
        <5> HIDE DEF Y
        <5> QED BY <1>1, <3>4, <3>5, <4>1 DEF ByAuthor
      <4> HIDE DEF Y, Z
      <4>4. Weight(ops, Z \cup {l + 1}) = Weight(ops, Z) + ops[l + 1].arg
        BY <4>1, <4>2, WeightAdds
      <4> QED BY <3>2, <4>3, <4>4
    <3>8. SumTo(g, c) = SumTo(f, c) + x
      BY <3>6, <3>7, SumPoint
    <3>9. l + 1 \in Nat
      OBVIOUS
    <3> HIDE DEF Y
    <3> QED BY <2>1, <3>3, <3>4, <3>5, <3>8, <3>9
  <2> QED BY <2>2, <2>3
<1>7. Len(ops) \in N
  <2> HIDE DEF N
  <2> QED BY <1>2, <1>5, <1>6, EveryNumber
<1>8. Y(Len(ops)) = X
  BY <1>2, <1>3
<1>9. SumTo(ByAuthor(ops, X), c) = Weight(ops, X)
  BY <1>7, <1>8
<1> QED BY <1>1, <1>9 DEF Total

-----------------------------------------------------------------------------
(* Counts.                                                                  *)

\* Of an author's updates two replicas have seen prefixes.
LEMMA Prefixes ==
    ASSUME NEW type, NEW ops, History(type, ops), NEW S, Closed(ops, S),
           NEW T, Closed(ops, T), NEW n
    PROVE  By(ops, S, n) \subseteq T \/ By(ops, T, n) \subseteq S
<1> SUFFICES ASSUME NEW i \in S \ T, ops[i].by = n, NEW j \in T \ S, ops[j].by = n
             PROVE FALSE
  BY DEF By
<1>1. i \in 1 .. Len(ops) /\ j \in 1 .. Len(ops) /\ Len(ops) \in Nat
  BY DEF Closed, History
<1>2. CASE i < j
  <2>1. i \in 1 .. j - 1
    BY <1>1, <1>2
  <2>2. i \in ops[j].sees
    BY <1>1, <2>1 DEF History
  <2> QED BY <2>2 DEF Closed
<1>3. CASE j < i
  <2>1. j \in 1 .. i - 1
    BY <1>1, <1>3
  <2>2. j \in ops[i].sees
    BY <1>1, <2>1 DEF History
  <2> QED BY <2>2 DEF Closed
<1> QED BY <1>1, <1>2, <1>3

LEMMA CountsType ==
    ASSUME NEW ops, NEW S, Counted(ops, S), NEW kind, NEW n
    PROVE  Weight(ops, By(ops, OfKind(ops, S, kind), n)) \in Nat
<1>1. By(ops, OfKind(ops, S, kind), n) \subseteq S
  BY DEF By, OfKind
<1> QED BY <1>1, WeightGrows

LEMMA CountsMerge ==
    ASSUME NEW type, NEW ops, History(type, ops), NEW S, Closed(ops, S), Counted(ops, S),
           NEW T, Closed(ops, T), Counted(ops, T), NEW kind,
           NEW s, CountsHold(ops, s, S, kind), NEW t, CountsHold(ops, t, T, kind)
    PROVE  CountsHold(ops, MergeCounts(s, t), S \cup T, kind)
<1>1. ASSUME NEW n \in CNodes
      PROVE  (IF s[n] < t[n] THEN t[n] ELSE s[n])
               = Weight(ops, By(ops, OfKind(ops, S \cup T, kind), n))
  <2> DEFINE A == By(ops, OfKind(ops, S, kind), n)
             B == By(ops, OfKind(ops, T, kind), n)
  <2>1. s[n] = Weight(ops, A) /\ t[n] = Weight(ops, B)
    BY DEF CountsHold, ByAuthor
  <2>2. By(ops, OfKind(ops, S \cup T, kind), n) = A \cup B
    BY DEF By, OfKind
  <2>3. A \subseteq B \/ B \subseteq A
    <3>1. By(ops, S, n) \subseteq T \/ By(ops, T, n) \subseteq S
      BY Prefixes
    <3> QED BY <3>1 DEF By, OfKind
  <2>4. Counted(ops, A) /\ Counted(ops, B)
    BY DEF Counted, By, OfKind
  <2> HIDE DEF A, B
  <2>5. PICK a \in Nat, b \in Nat : a = Weight(ops, A) /\ b = Weight(ops, B)
    BY <2>4, WeightGrows
  <2>6. CASE A \subseteq B
    <3>1. A \cup B = B
      BY <2>6
    <3>2. a <= b
      BY <2>4, <2>5, <2>6, WeightGrows
    <3>3. (IF a < b THEN b ELSE a) = b
      BY <3>2
    <3> QED BY <2>1, <2>2, <2>5, <3>1, <3>3
  <2>7. CASE B \subseteq A
    <3>1. A \cup B = A
      BY <2>7
    <3>2. b <= a
      BY <2>4, <2>5, <2>7, WeightGrows
    <3>3. (IF a < b THEN b ELSE a) = a
      BY <3>2
    <3> QED BY <2>1, <2>2, <2>5, <3>1, <3>3
  <2> QED BY <2>3, <2>6, <2>7
<1> QED BY <1>1 DEF CountsHold, ByAuthor, MergeCounts

\* Updates of the kind count for their author, others for nobody.
LEMMA CountsKept ==
    ASSUME NEW ops, NEW op, NEW more, Extends(ops, op, more), NEW S, Counted(ops, S),
           NEW kind, NEW s, CountsHold(ops, s, S, kind)
    PROVE  /\ CountsHold(more, s, S, kind)
           /\ op.kind # kind => CountsHold(more, s, With(ops, S), kind)
<1>1. OfKind(more, S, kind) = OfKind(ops, S, kind)
  BY DEF OfKind, Extends, With, Counted
<1>2. ASSUME op.kind # kind
      PROVE  OfKind(more, With(ops, S), kind) = OfKind(ops, S, kind)
  BY <1>2 DEF OfKind, Extends, With, Counted
<1>3. ByAuthor(more, OfKind(ops, S, kind)) = ByAuthor(ops, OfKind(ops, S, kind))
  <2>1. ASSUME NEW n \in CNodes
        PROVE  Weight(more, By(more, OfKind(ops, S, kind), n))
                 = Weight(ops, By(ops, OfKind(ops, S, kind), n))
    <3>1. By(more, OfKind(ops, S, kind), n) = By(ops, OfKind(ops, S, kind), n)
      BY DEF By, OfKind, Extends, With, Counted
    <3>2. Counted(ops, By(ops, OfKind(ops, S, kind), n))
      BY DEF Counted, By, OfKind
    <3> QED BY <3>1, <3>2, WeightKept
  <2> QED BY <2>1 DEF ByAuthor
<1> QED BY <1>1, <1>2, <1>3 DEF CountsHold

LEMMA CountsStep ==
    ASSUME NEW ops, NEW op, NEW more, Extends(ops, op, more), NEW S, Counted(ops, S),
           op.arg \in Nat, NEW s, CountsHold(ops, s, S, op.kind)
    PROVE  CountsHold(more, [s EXCEPT ![op.by] = @ + op.arg], With(ops, S), op.kind)
<1> DEFINE l == Len(ops) + 1
           kind == op.kind
           X == OfKind(ops, S, kind)
           new == [s EXCEPT ![op.by] = @ + op.arg]
<1>0. Len(ops) \in Nat /\ op.by \in CNodes /\ l \notin S /\ more[l] = op
  BY DEF Extends, With, Updates, Counted
<1>1. OfKind(more, S \cup {l}, kind) = X \cup {l}
  BY DEF OfKind, Extends, With, Counted
<1>2. Counted(more, X \cup {l})
  <2>1. \A i \in X : i \in 1 .. Len(ops) /\ more[i].arg \in Nat
    BY DEF Counted, Extends, With, OfKind
  <2>2. Len(more) = l
    BY DEF Extends, With
  <2> HIDE DEF X
  <2>3. \A i \in X \cup {l} : i \in 1 .. Len(more) /\ more[i].arg \in Nat
    BY <1>0, <2>1, <2>2
  <2> QED BY <2>3 DEF Counted, Extends, With
<1>3. \A n \in CNodes : s[n] = Weight(ops, By(ops, X, n)) /\ DOMAIN s = CNodes
  BY DEF CountsHold, ByAuthor
<1>4. ASSUME NEW n \in CNodes
      PROVE  /\ By(more, X, n) = By(ops, X, n)
             /\ Weight(more, By(more, X, n)) = s[n]
  <2>1. By(more, X, n) = By(ops, X, n)
    BY DEF By, OfKind, Extends, With, Counted
  <2>2. Counted(ops, By(ops, X, n))
    BY DEF Counted, By, OfKind
  <2> QED BY <1>3, <2>1, <2>2, WeightKept
<1>5. ASSUME NEW n \in CNodes PROVE new[n] = Weight(more, By(more, X \cup {l}, n))
  <2>1. CASE n = op.by
    <3> DEFINE Z == By(more, X, n)
    <3>1. By(more, X \cup {l}, n) = Z \cup {l} /\ l \notin Z
      BY <1>0, <2>1 DEF By, OfKind
    <3>2. Counted(more, Z \cup {l})
      BY <1>2 DEF Counted, By
    <3>3. Weight(more, Z \cup {l}) = Weight(more, Z) + more[l].arg
      <4> HIDE DEF Z, l
      <4> QED BY <3>1, <3>2, WeightAdds
    <3>4. new[n] = s[n] + op.arg
      BY <1>3, <2>1
    <3> HIDE DEF X, new, l
    <3> QED BY <1>0, <1>4, <3>1, <3>3, <3>4
  <2>2. CASE n # op.by
    <3>1. By(more, X \cup {l}, n) = By(more, X, n)
      BY <1>0, <2>2 DEF By
    <3>2. new[n] = s[n]
      BY <1>3, <2>2
    <3> HIDE DEF X, new, l
    <3> QED BY <1>4, <3>1, <3>2
  <2> QED BY <2>1, <2>2
<1>6. new = [n \in CNodes |-> new[n]]
  BY <1>3 DEF CountsHold, ByAuthor
<1> HIDE DEF new, X, l
<1>7. new = ByAuthor(more, X \cup {l})
  BY <1>5, <1>6 DEF ByAuthor
<1>8. CountsHold(more, new, S \cup {l}, kind)
  BY <1>1, <1>7 DEF CountsHold
<1> QED BY <1>8 DEF new, l, With

\* The same for counts of updates.
LEMMA ContextMerge ==
    ASSUME NEW type, NEW ops, History(type, ops), NEW S, Closed(ops, S),
           NEW T, Closed(ops, T), NEW s, ContextHolds(ops, s, S), NEW t, ContextHolds(ops, t, T)
    PROVE  ContextHolds(ops, MergeCounts(s, t), S \cup T)
<1>1. ASSUME NEW n \in CNodes
      PROVE  (IF s[n] < t[n] THEN t[n] ELSE s[n]) = Cardinality(By(ops, S \cup T, n))
  <2> DEFINE A == By(ops, S, n)
             B == By(ops, T, n)
  <2>1. s[n] = Cardinality(A) /\ t[n] = Cardinality(B)
    BY DEF ContextHolds
  <2>2. By(ops, S \cup T, n) = A \cup B
    BY DEF By
  <2>3. A \subseteq B \/ B \subseteq A
    <3>1. By(ops, S, n) \subseteq T \/ By(ops, T, n) \subseteq S
      BY Prefixes
    <3> QED BY <3>1 DEF By
  <2>4. IsFiniteSet(A) /\ IsFiniteSet(B)
    <3>1. IsFiniteSet(1 .. Len(ops))
      BY FS_Interval DEF History
    <3>2. A \subseteq 1 .. Len(ops) /\ B \subseteq 1 .. Len(ops)
      BY DEF By, Closed
    <3> HIDE DEF A, B
    <3> QED BY <3>1, <3>2, FS_Subset
  <2> HIDE DEF A, B
  <2>5. PICK a \in Nat, b \in Nat : a = Cardinality(A) /\ b = Cardinality(B)
    BY <2>4, FS_CardinalityType
  <2>6. CASE A \subseteq B
    <3>1. A \cup B = B
      BY <2>6
    <3>2. a <= b
      BY <2>4, <2>5, <2>6, FS_Subset
    <3>3. (IF a < b THEN b ELSE a) = b
      BY <3>2
    <3> QED BY <2>1, <2>2, <2>5, <3>1, <3>3
  <2>7. CASE B \subseteq A
    <3>1. A \cup B = A
      BY <2>7
    <3>2. b <= a
      BY <2>4, <2>5, <2>7, FS_Subset
    <3>3. (IF a < b THEN b ELSE a) = a
      BY <3>2
    <3> QED BY <2>1, <2>2, <2>5, <3>1, <3>3
  <2> QED BY <2>3, <2>6, <2>7
<1> QED BY <1>1 DEF ContextHolds, MergeCounts

LEMMA ContextKept ==
    ASSUME NEW ops, NEW op, NEW more, Extends(ops, op, more),
           NEW S, Old(ops, S), NEW s, ContextHolds(ops, s, S)
    PROVE  ContextHolds(more, s, S)
<1>1. \A n : By(more, S, n) = By(ops, S, n)
  BY DEF By, Extends, Old
<1> QED BY <1>1 DEF ContextHolds

LEMMA ContextStep ==
    ASSUME NEW ops, NEW op, NEW more, Extends(ops, op, more),
           NEW S, Old(ops, S), NEW s, ContextHolds(ops, s, S)
    PROVE  ContextHolds(more, [s EXCEPT ![op.by] = @ + 1], With(ops, S))
<1> DEFINE l == Len(ops) + 1
           new == [s EXCEPT ![op.by] = @ + 1]
<1>0. Len(ops) \in Nat /\ op.by \in CNodes /\ l \notin S /\ more[l] = op
  BY DEF Extends, With, Old, Updates
<1>1. s = [n \in CNodes |-> s[n]] /\ \A n \in CNodes : s[n] = Cardinality(By(ops, S, n))
  BY DEF ContextHolds
<1>2. ASSUME NEW n \in CNodes PROVE new[n] = Cardinality(By(more, S \cup {l}, n))
  <2> DEFINE Z == By(ops, S, n)
  <2>1. CASE n = op.by
    <3>1. By(more, S \cup {l}, n) = Z \cup {l} /\ l \notin Z
      BY <1>0, <2>1 DEF By, Extends, With, Old
    <3>2. IsFiniteSet(Z)
      <4>1. IsFiniteSet(1 .. Len(ops))
        BY <1>0, FS_Interval
      <4>2. Z \subseteq 1 .. Len(ops)
        BY DEF By, Old
      <4> HIDE DEF Z
      <4> QED BY <4>1, <4>2, FS_Subset
    <3>3. Cardinality(Z \cup {l}) = Cardinality(Z) + 1
      <4> HIDE DEF Z, l
      <4> QED BY <3>1, <3>2, FS_AddElement
    <3>4. new[n] = s[n] + 1
      BY <1>1, <2>1
    <3> HIDE DEF new, l
    <3> QED BY <1>1, <3>1, <3>3, <3>4
  <2>2. CASE n # op.by
    <3>1. By(more, S \cup {l}, n) = Z
      BY <1>0, <2>2 DEF By, Extends, With, Old
    <3>2. new[n] = s[n]
      BY <1>1, <2>2
    <3> HIDE DEF new, l
    <3> QED BY <1>1, <3>1, <3>2
  <2> QED BY <2>1, <2>2
<1>3. new = [n \in CNodes |-> new[n]]
  BY <1>1
<1> HIDE DEF new
<1>4. ContextHolds(more, new, S \cup {l})
  BY <1>2, <1>3 DEF ContextHolds
<1> QED BY <1>4 DEF new, With

-----------------------------------------------------------------------------
(* The dotted version vector.                                               *)

\* d is a vector of counts with dots that are numbered to b at most.
Vector(d, b) ==
    /\ d = [clock |-> d.clock, dots |-> d.dots]
    /\ d.clock \in [CNodes -> Nat] /\ b \in Nat
    /\ \A p \in d.dots : p \in CNodes \X (Nat \ {0}) /\ p[2] <= b

\* Its clocks reach as far as they can.
Compact(d) ==
    /\ \A n \in CNodes : <<n, d.clock[n] + 1>> \notin d.dots
    /\ \A p \in d.dots : p[2] > d.clock[p[1]]

LEMMA PastOf ==
    ASSUME NEW d, NEW b, Vector(d, b), NEW n \in CNodes, NEW k \in Nat \ {0}
    PROVE  <<n, k>> \in CausalPast(d) <=> <<n, k>> \in d.dots \/ k <= d.clock[n]
BY DEF CausalPast, Vector

LEMMA PastIsPairs ==
    ASSUME NEW d, NEW b, Vector(d, b)
    PROVE  CausalPast(d) \subseteq CNodes \X (Nat \ {0})
BY DEF CausalPast, Vector

LEMMA SamePast ==
    ASSUME NEW d, NEW b, Vector(d, b), NEW P \in SUBSET (CNodes \X (Nat \ {0})),
           \A n \in CNodes, k \in Nat \ {0} :
                <<n, k>> \in P <=> <<n, k>> \in d.dots \/ k <= d.clock[n]
    PROVE  CausalPast(d) = P
<1>1. ASSUME NEW n \in CNodes, NEW k \in Nat \ {0}
      PROVE  <<n, k>> \in CausalPast(d) <=> <<n, k>> \in P
  BY <1>1, PastOf
<1>2. CausalPast(d) \subseteq CNodes \X (Nat \ {0})
  BY PastIsPairs
<1>3. \A p \in CNodes \X (Nat \ {0}) : p \in CausalPast(d) <=> p \in P
  BY <1>1
<1> QED BY <1>2, <1>3

\* Compacting makes a vector compact and leaves its past alone.
LEMMA CompactedKeeps ==
    ASSUME NEW d, NEW b, Vector(d, b)
    PROVE  /\ Vector(Compacted(d), b) /\ Compact(Compacted(d))
           /\ CausalPast(Compacted(d)) = CausalPast(d)
<1> DEFINE Tops(n) == {d.clock[n]} \cup {p[2] : p \in d.dots}
           Top(n, ts) == /\ ts >= d.clock[n]
                         /\ \A k \in d.clock[n] + 1 .. ts : <<n, k>> \in d.dots
                         /\ <<n, ts + 1>> \notin d.dots
           Reach(n) == CHOOSE ts \in Tops(n) : Top(n, ts)
           clock == [n \in CNodes |-> Reach(n)]
           dots == {p \in d.dots : p[2] > clock[p[1]]}
<1>1. ASSUME NEW n \in CNodes PROVE \E ts \in Tops(n) : Top(n, ts)
  <2>1. PICK c \in Nat : c = d.clock[n]
    BY DEF Vector
  <2> DEFINE Free == {ts \in Nat : ts >= c /\ <<n, ts + 1>> \notin d.dots}
  <2>2. c + b \in Free
    BY <2>1 DEF Vector
  <2>3. PICK x \in Free : \A y \in Free : x <= y
    <3>1. Free \in SUBSET Nat /\ Free # {}
      BY <2>2
    <3> HIDE DEF Free
    <3> QED BY <3>1, LeastNumber
  <2>4. ASSUME NEW k \in c + 1 .. x PROVE <<n, k>> \in d.dots
    <3>1. k - 1 \in Nat /\ k - 1 >= c /\ (k - 1) + 1 = k /\ ~ (x <= k - 1)
      BY <2>3
    <3>2. k - 1 \notin Free
      BY <2>3, <3>1
    <3> QED BY <3>1, <3>2
  <2>5. x \in Tops(n)
    <3>1. CASE x = c
      BY <2>1, <3>1
    <3>2. CASE x # c
      <4>1. x \in c + 1 .. x
        BY <2>3, <3>2
      <4>2. <<n, x>> \in d.dots
        BY <2>4, <4>1
      <4> QED BY <4>2
    <3> QED BY <3>1, <3>2
  <2>6. Top(n, x)
    BY <2>1, <2>3, <2>4
  <2> QED BY <2>5, <2>6
<1>2. \A n \in CNodes : clock[n] \in Tops(n) /\ Top(n, clock[n])
  <2>1. ASSUME NEW n \in CNodes PROVE clock[n] \in Tops(n) /\ Top(n, clock[n])
    <3>1. clock[n] = CHOOSE ts \in Tops(n) : Top(n, ts)
      OBVIOUS
    <3> HIDE DEF Tops, Top, clock
    <3> QED BY <1>1, <3>1
  <2> QED BY <2>1
<1>3. \A n \in CNodes : clock[n] \in Nat
  <2>1. \A n \in CNodes : Tops(n) \subseteq Nat
    BY DEF Vector
  <2> HIDE DEF Tops, Top, clock
  <2> QED BY <1>2, <2>1
<1>4. Compacted(d) = [clock |-> clock, dots |-> dots]
  BY DEF Compacted
<1> DEFINE e == [clock |-> clock, dots |-> dots]
<1>5. e.clock = clock /\ e.dots = dots
  OBVIOUS
<1>6. Vector(e, b)
  <2>1. clock = [n \in CNodes |-> clock[n]]
    <3> HIDE DEF Reach
    <3> QED OBVIOUS
  <2>2. clock \in [CNodes -> Nat]
    <3> HIDE DEF clock
    <3> QED BY <1>3, <2>1
  <2>3. \A p \in dots : p \in d.dots
    OBVIOUS
  <2> HIDE DEF clock, dots
  <2> QED BY <2>2, <2>3 DEF Vector
<1>7. Compact(e)
  <2> HIDE DEF clock
  <2> QED BY <1>2 DEF Compact
<1>8. ASSUME NEW n \in CNodes, NEW k \in Nat \ {0}
      PROVE  <<n, k>> \in CausalPast(d) <=> <<n, k>> \in e.dots \/ k <= e.clock[n]
  <2>1. <<n, k>> \in CausalPast(d) <=> <<n, k>> \in d.dots \/ k <= d.clock[n]
    BY PastOf
  <2>2. PICK c \in Nat, x \in Nat : c = d.clock[n] /\ x = clock[n]
    <3> HIDE DEF clock
    <3> QED BY <1>3 DEF Vector
  <2>3. /\ x >= c
        /\ \A j \in c + 1 .. x : <<n, j>> \in d.dots
    <3>1. Top(n, x)
      <4> HIDE DEF clock, Top, Tops
      <4> QED BY <1>2, <2>2
    <3> QED BY <2>2, <3>1
  <2>4. <<n, k>> \in dots <=> <<n, k>> \in d.dots /\ k > x
    <3> HIDE DEF clock
    <3> QED BY <2>2
  <2>5. k <= x /\ ~ (k <= c) => <<n, k>> \in d.dots
    BY <2>3
  <2> HIDE DEF clock, dots
  <2> QED BY <2>1, <2>2, <2>3, <2>4, <2>5
<1> HIDE DEF e
<1>9. CausalPast(d) \in SUBSET (CNodes \X (Nat \ {0}))
  BY PastIsPairs
<1>10. CausalPast(e) = CausalPast(d)
  BY <1>6, <1>8, <1>9, SamePast
<1> QED BY <1>4, <1>6, <1>7, <1>10 DEF e

\* The numbers of a set of updates are bounded.
LEMMA NumbersBounded ==
    ASSUME NEW ops, NEW X, Counted(ops, X)
    PROVE  \E b \in Nat : \A i \in X : ops[i].arg <= b
<1>1. ASSUME NEW i \in X PROVE ops[i].arg <= Weight(ops, X)
  <2>1. Counted(ops, {i}) /\ Counted(ops, {} \cup {i}) /\ ops \in Seq(Updates) /\ ops[i].arg \in Nat
    BY DEF Counted
  <2>2. Weight(ops, {} \cup {i}) = Weight(ops, {}) + ops[i].arg
    BY <2>1, WeightAdds
  <2>3. Weight(ops, {}) = 0 /\ {} \cup {i} = {i}
    BY <2>1, NothingWeighsNothing
  <2>4. Weight(ops, {i}) = ops[i].arg
    BY <2>1, <2>2, <2>3
  <2>5. {i} \subseteq X
    OBVIOUS
  <2> QED BY <2>4, <2>5, WeightGrows
<1>2. Weight(ops, X) \in Nat
  BY WeightGrows
<1> QED BY <1>1, <1>2

Numbered(ops, S) == {<<ops[i].by, ops[i].arg>> : i \in S}

\* The updates number from 1.
FromOne(ops, S) ==
    /\ ops \in Seq(Updates) /\ S \subseteq 1 .. Len(ops)
    /\ \A i \in S : ops[i].arg \in Nat \ {0}

LEMMA DVVIsVector ==
    ASSUME NEW ops, NEW S, FromOne(ops, S), NEW s, DVVHolds(ops, s, S)
    PROVE  Numbered(ops, S) \subseteq CNodes \X (Nat \ {0}) /\ \E b \in Nat : Vector(s, b)
<1>1. PICK b \in Nat : \A i \in S : ops[i].arg <= b
  <2>1. Counted(ops, S)
    BY DEF Counted, FromOne
  <2> QED BY <2>1, NumbersBounded
<1>2. \A i \in S : ops[i].by \in CNodes /\ ops[i].arg \in Nat \ {0}
  <2>1. \A i \in 1 .. Len(ops) : ops[i] \in Updates
    BY DEF FromOne
  <2> QED BY <2>1 DEF Updates, FromOne
<1>3. ASSUME NEW p \in s.dots PROVE p \in CNodes \X (Nat \ {0}) /\ p[2] <= b
  <2>1. p \in Numbered(ops, S)
    BY DEF DVVHolds, CausalPast, Numbered
  <2> QED BY <1>1, <1>2, <2>1 DEF Numbered
<1>4. Vector(s, b)
  BY <1>3 DEF Vector, DVVHolds
<1> QED BY <1>2, <1>4 DEF Numbered

LEMMA DVVFrom ==
    ASSUME NEW ops, NEW S, NEW e, NEW b, Vector(e, b), Compact(e), CausalPast(e) = Numbered(ops, S)
    PROVE  DVVHolds(ops, e, S)
BY DEF DVVHolds, Vector, Compact, Numbered

LEMMA DVVMerge ==
    ASSUME NEW ops, NEW S, FromOne(ops, S), NEW s, DVVHolds(ops, s, S),
           NEW T, FromOne(ops, T), NEW t, DVVHolds(ops, t, T)
    PROVE  DVVHolds(ops, MergeDVV(s, t), S \cup T)
<1>1. PICK b \in Nat : Vector(s, b)
  BY DVVIsVector
<1>2. PICK c \in Nat : Vector(t, c)
  BY DVVIsVector
<1> DEFINE m == IF b < c THEN c ELSE b
           d == [clock |-> MergeCounts(s.clock, t.clock), dots |-> s.dots \cup t.dots]
<1>3. m \in Nat /\ b <= m /\ c <= m
  OBVIOUS
<1>4. ASSUME NEW n \in CNodes
      PROVE  d.clock[n] = IF s.clock[n] < t.clock[n] THEN t.clock[n] ELSE s.clock[n]
  BY DEF MergeCounts
<1>5. Vector(d, m)
  <2>1. d.clock \in [CNodes -> Nat]
    BY <1>1, <1>2 DEF MergeCounts, Vector
  <2>2. ASSUME NEW p \in d.dots PROVE p \in CNodes \X (Nat \ {0}) /\ p[2] <= m
    <3> HIDE DEF m
    <3>1. CASE p \in s.dots
      BY <1>1, <1>3, <3>1 DEF Vector
    <3>2. CASE p \in t.dots
      BY <1>2, <1>3, <3>2 DEF Vector
    <3> QED BY <3>1, <3>2
  <2>3. d = [clock |-> d.clock, dots |-> d.dots]
    OBVIOUS
  <2> HIDE DEF d, m
  <2> QED BY <1>3, <2>1, <2>2, <2>3 DEF Vector
<1>6. CausalPast(d) = Numbered(ops, S \cup T)
  <2>1. Numbered(ops, S \cup T) = Numbered(ops, S) \cup Numbered(ops, T)
    BY DEF Numbered
  <2>2. CausalPast(s) = Numbered(ops, S) /\ CausalPast(t) = Numbered(ops, T)
    BY DEF DVVHolds, Numbered
  <2>3. Numbered(ops, S \cup T) \in SUBSET (CNodes \X (Nat \ {0}))
    BY <2>1, DVVIsVector
  <2>4. ASSUME NEW n \in CNodes, NEW k \in Nat \ {0}
        PROVE  <<n, k>> \in Numbered(ops, S \cup T) <=> <<n, k>> \in d.dots \/ k <= d.clock[n]
    <3>1. <<n, k>> \in CausalPast(s) <=> <<n, k>> \in s.dots \/ k <= s.clock[n]
      BY <1>1, PastOf
    <3>2. <<n, k>> \in CausalPast(t) <=> <<n, k>> \in t.dots \/ k <= t.clock[n]
      BY <1>2, PastOf
    <3>3. PICK u \in Nat, v \in Nat : u = s.clock[n] /\ v = t.clock[n]
      BY <1>1, <1>2 DEF Vector
    <3>4. k <= d.clock[n] <=> k <= u \/ k <= v
      BY <1>4, <3>3
    <3>5. <<n, k>> \in d.dots <=> <<n, k>> \in s.dots \/ <<n, k>> \in t.dots
      OBVIOUS
    <3> HIDE DEF d
    <3> QED BY <2>1, <2>2, <3>1, <3>2, <3>3, <3>4, <3>5
  <2> HIDE DEF d, m
  <2> QED BY <1>5, <2>3, <2>4, SamePast
<1>7. MergeDVV(s, t) = Compacted(d)
  BY DEF MergeDVV
<1> HIDE DEF d, m
<1>8. /\ Vector(Compacted(d), m) /\ Compact(Compacted(d))
      /\ CausalPast(Compacted(d)) = CausalPast(d)
  BY <1>5, CompactedKeeps
<1> QED BY <1>6, <1>7, <1>8, DVVFrom

\* What DVVIncrement makes of a vector.
Incremented(s, n, new) ==
    LET dotted == [s EXCEPT !.dots = @ \cup {<<n, new>>}]
    IN IF new = s.clock[n] + 1 THEN Compacted([dotted EXCEPT !.clock[n] = new]) ELSE dotted

LEMMA DVVKept ==
    ASSUME NEW ops, NEW op, NEW more, Extends(ops, op, more),
           NEW S, Old(ops, S), NEW s, DVVHolds(ops, s, S)
    PROVE  DVVHolds(more, s, S)
<1>1. Numbered(more, S) = Numbered(ops, S)
  BY DEF Numbered, Extends, Old
<1> QED BY <1>1 DEF DVVHolds, Numbered

LEMMA DVVStep ==
    ASSUME NEW ops, NEW op, NEW more, Extends(ops, op, more), NEW S, FromOne(ops, S),
           NEW s, DVVHolds(ops, s, S), op.arg \in Nat, op.arg > s.clock[op.by]
    PROVE  DVVHolds(more, Incremented(s, op.by, op.arg), With(ops, S))
<1>1. PICK b \in Nat : Vector(s, b)
  BY DVVIsVector
<1>2. PICK n \in CNodes, new \in Nat \ {0} : n = op.by /\ new = op.arg
  BY <1>1 DEF Vector, Extends, With, Updates
<1>3. PICK c \in Nat : c = s.clock[n] /\ c < new
  BY <1>1, <1>2 DEF Vector
<1>4. Numbered(more, With(ops, S)) = Numbered(ops, S) \cup {<<n, new>>}
  BY <1>2 DEF Numbered, Extends, With, FromOne
<1>5. CausalPast(s) = Numbered(ops, S)
  BY DEF DVVHolds, Numbered
<1> DEFINE m == b + new
           dotted == [s EXCEPT !.dots = @ \cup {<<n, new>>}]
           d == [dotted EXCEPT !.clock[n] = new]
           P == CausalPast(s) \cup {<<n, new>>}
<1>6. s = [clock |-> s.clock, dots |-> s.dots]
  BY <1>1 DEF Vector
<1>7. dotted = [clock |-> s.clock, dots |-> s.dots \cup {<<n, new>>}]
  BY <1>6
<1>8. d = [clock |-> [s.clock EXCEPT ![n] = new], dots |-> s.dots \cup {<<n, new>>}]
  <2> HIDE DEF dotted
  <2>1. d = [dotted EXCEPT !.clock = [dotted.clock EXCEPT ![n] = new]]
    BY <1>7
  <2> HIDE DEF d
  <2> QED BY <1>7, <2>1
<1>9. m \in Nat /\ \A p \in s.dots \cup {<<n, new>>} : p \in CNodes \X (Nat \ {0}) /\ p[2] <= m
  <2>1. \A p \in s.dots : p \in CNodes \X (Nat \ {0}) /\ p[2] <= b
    BY <1>1 DEF Vector
  <2> QED BY <2>1
<1>10. P \in SUBSET (CNodes \X (Nat \ {0}))
  BY <1>1, PastIsPairs
<1> HIDE DEF dotted, d, m, P
<1>11. CASE new = c + 1
  <2>1. Vector(d, m)
    <3>1. d.clock = [s.clock EXCEPT ![n] = new] /\ d.dots = s.dots \cup {<<n, new>>}
      BY <1>8
    <3>2. d.clock \in [CNodes -> Nat]
      BY <1>1, <3>1 DEF Vector
    <3>3. d = [clock |-> d.clock, dots |-> d.dots]
      BY <1>8, <3>1
    <3> QED BY <1>9, <3>1, <3>2, <3>3 DEF Vector
  <2>2. ASSUME NEW x \in CNodes, NEW k \in Nat \ {0}
        PROVE  <<x, k>> \in P <=> <<x, k>> \in d.dots \/ k <= d.clock[x]
    <3>1. <<x, k>> \in CausalPast(s) <=> <<x, k>> \in s.dots \/ k <= s.clock[x]
      BY <1>1, PastOf
    <3>2. d.dots = s.dots \cup {<<n, new>>} /\ d.clock = [s.clock EXCEPT ![n] = new]
      BY <1>8
    <3>3. CASE x = n
      <4>1. d.clock[x] = new
        BY <1>1, <3>2, <3>3 DEF Vector
      <4>2. k <= new <=> k <= c \/ k = new
        BY <1>11
      <4> QED BY <1>3, <3>1, <3>2, <3>3, <4>1, <4>2 DEF P
    <3>4. CASE x # n
      <4>1. d.clock[x] = s.clock[x]
        BY <1>1, <3>2, <3>4 DEF Vector
      <4> QED BY <3>1, <3>2, <3>4, <4>1 DEF P
    <3> QED BY <3>3, <3>4
  <2>3. CausalPast(d) = P
    BY <1>10, <2>1, <2>2, SamePast
  <2>4. /\ Vector(Compacted(d), m) /\ Compact(Compacted(d))
        /\ CausalPast(Compacted(d)) = CausalPast(d)
    BY <2>1, CompactedKeeps
  <2>5. Incremented(s, op.by, op.arg) = Compacted(d)
    BY <1>2, <1>3, <1>11 DEF Incremented, d, dotted
  <2> QED BY <1>4, <1>5, <2>3, <2>4, <2>5, DVVFrom DEF P
<1>12. CASE new # c + 1
  <2>1. dotted.clock = s.clock /\ dotted.dots = s.dots \cup {<<n, new>>}
    BY <1>7
  <2>2. dotted = [clock |-> dotted.clock, dots |-> dotted.dots]
    BY <1>7, <2>1
  <2>3. Vector(dotted, m)
    BY <1>1, <1>9, <2>1, <2>2 DEF Vector
  <2>4. Compact(dotted)
    <3>1. \A x \in CNodes : <<x, s.clock[x] + 1>> \notin s.dots
      BY DEF DVVHolds
    <3>2. \A p \in s.dots : p[2] > s.clock[p[1]]
      BY DEF DVVHolds
    <3>3. \A x \in CNodes : <<x, s.clock[x] + 1>> # <<n, new>>
      BY <1>3, <1>12
    <3>4. \A p \in s.dots \cup {<<n, new>>} : p[2] > s.clock[p[1]]
      BY <1>3, <3>2
    <3> QED BY <2>1, <3>1, <3>3, <3>4 DEF Compact
  <2>5. ASSUME NEW x \in CNodes, NEW k \in Nat \ {0}
        PROVE  <<x, k>> \in P <=> <<x, k>> \in dotted.dots \/ k <= dotted.clock[x]
    <3>1. <<x, k>> \in CausalPast(s) <=> <<x, k>> \in s.dots \/ k <= s.clock[x]
      BY <1>1, PastOf
    <3> QED BY <2>1, <3>1 DEF P
  <2>6. CausalPast(dotted) = P
    BY <1>10, <2>3, <2>5, SamePast
  <2>7. Incremented(s, op.by, op.arg) = dotted
    BY <1>2, <1>3, <1>12 DEF Incremented, dotted
  <2> QED BY <1>4, <1>5, <2>3, <2>4, <2>6, <2>7, DVVFrom DEF P
<1> QED BY <1>11, <1>12

-----------------------------------------------------------------------------
(* Sets.                                                                    *)

\* Of old updates a longer history says the same.
LEMMA SetsKept ==
    ASSUME NEW ops, NEW op, NEW more, Extends(ops, op, more),
           NEW S, Old(ops, S), NEW s
    PROVE  /\ GSetHolds(ops, s, S) => GSetHolds(more, s, S)
           /\ TwoPhaseHolds(ops, s, S) => TwoPhaseHolds(more, s, S)
           /\ ORHolds(ops, s, S) => ORHolds(more, s, S)
<1>1. \A i \in S : more[i] = ops[i]
  BY DEF Extends, Old
<1>2. {more[i].on : i \in S} = {ops[i].on : i \in S}
  BY <1>1
<1>3. \A kind : OfKind(more, S, kind) = OfKind(ops, S, kind) /\ OfKind(ops, S, kind) \subseteq S
  BY <1>1 DEF OfKind
<1>4. ASSUME NEW kind PROVE On(more, S, kind) = On(ops, S, kind)
  <2>1. PICK X \in SUBSET S : X = OfKind(ops, S, kind) /\ X = OfKind(more, S, kind)
    BY <1>3
  <2>2. {more[i].on : i \in X} = {ops[i].on : i \in X}
    BY <1>1
  <2> QED BY <2>1, <2>2 DEF On
<1>5. Gone(more, S) = Gone(ops, S)
  <2>1. PICK X \in SUBSET S, Y \in SUBSET S :
          /\ X = OfKind(ops, S, "add") /\ X = OfKind(more, S, "add")
          /\ Y = OfKind(ops, S, "remove") /\ Y = OfKind(more, S, "remove")
    BY <1>3
  <2>2. {i \in X : \E j \in Y : more[j].on = more[i].on /\ i \in more[j].sees}
          = {i \in X : \E j \in Y : ops[j].on = ops[i].on /\ i \in ops[j].sees}
    BY <1>1
  <2> QED BY <2>1, <2>2 DEF Gone
<1>6. {<<more[i].on, i>> : i \in OfKind(more, S, "add")} = {<<ops[i].on, i>> : i \in OfKind(ops, S, "add")}
  <2>1. PICK X \in SUBSET S : X = OfKind(ops, S, "add") /\ X = OfKind(more, S, "add")
    BY <1>3
  <2>2. {<<more[i].on, i>> : i \in X} = {<<ops[i].on, i>> : i \in X}
    BY <1>1
  <2> QED BY <2>1, <2>2
<1>7. {<<more[i].on, i>> : i \in Gone(more, S)} = {<<ops[i].on, i>> : i \in Gone(ops, S)}
  <2>1. Gone(ops, S) \subseteq S
    BY <1>3 DEF Gone
  <2> QED BY <1>1, <1>5, <2>1
<1> QED BY <1>2, <1>4, <1>6, <1>7 DEF GSetHolds, TwoPhaseHolds, ORHolds

LEMMA GSetStep ==
    ASSUME NEW ops, NEW op, NEW more, Extends(ops, op, more),
           NEW S, Old(ops, S), NEW s, GSetHolds(ops, s, S)
    PROVE  GSetHolds(more, s \cup {op.on}, With(ops, S))
BY DEF GSetHolds, Extends, With, Old

LEMMA OnOfUnion ==
    ASSUME NEW ops, NEW S, NEW T, NEW kind
    PROVE  On(ops, S \cup T, kind) = On(ops, S, kind) \cup On(ops, T, kind)
BY DEF On, OfKind

\* What the update adds to the updates of its kind.
LEMMA OnOfMore ==
    ASSUME NEW ops, NEW op, NEW more, Extends(ops, op, more),
           NEW S, Old(ops, S), NEW kind
    PROVE  On(more, With(ops, S), kind)
             = IF op.kind = kind THEN On(ops, S, kind) \cup {op.on} ELSE On(ops, S, kind)
<1> DEFINE l == Len(ops) + 1
<1>1. \A i \in S : more[i] = ops[i]
  BY DEF Extends, With, Old
<1>2. more[l] = op
  BY DEF Extends, With, Old
<1>3. op.kind = kind => OfKind(more, S \cup {l}, kind) = OfKind(ops, S, kind) \cup {l}
  BY <1>1, <1>2 DEF OfKind
<1>4. op.kind # kind => OfKind(more, S \cup {l}, kind) = OfKind(ops, S, kind)
  BY <1>1, <1>2 DEF OfKind
<1>5. \A i \in OfKind(ops, S, kind) : more[i] = ops[i]
  BY <1>1 DEF OfKind
<1> HIDE DEF l
<1>6. op.kind = kind => On(more, S \cup {l}, kind) = On(ops, S, kind) \cup {op.on}
  BY <1>2, <1>3, <1>5 DEF On
<1>7. op.kind # kind => On(more, S \cup {l}, kind) = On(ops, S, kind)
  BY <1>4, <1>5 DEF On
<1> QED BY <1>6, <1>7 DEF l, With

LEMMA PairsChange ==
    ASSUME NEW s, s = [added |-> s.added, removed |-> s.removed], NEW v
    PROVE  /\ [s EXCEPT !.added = v] = [added |-> v, removed |-> s.removed]
           /\ [s EXCEPT !.removed = v] = [added |-> s.added, removed |-> v]
<1>1. PICK t : t = [s EXCEPT !.added = v]
  OBVIOUS
<1>2. t = [added |-> v, removed |-> s.removed]
  BY <1>1
<1>3. PICK u : u = [s EXCEPT !.removed = v]
  OBVIOUS
<1>4. u = [added |-> s.added, removed |-> v]
  BY <1>3
<1> QED BY <1>1, <1>2, <1>3, <1>4

LEMMA TwoPhaseMerge ==
    ASSUME NEW ops, NEW S, NEW T, NEW s, TwoPhaseHolds(ops, s, S), NEW t, TwoPhaseHolds(ops, t, T)
    PROVE  TwoPhaseHolds(ops, MergePairs(s, t), S \cup T)
<1>1. /\ On(ops, S \cup T, "add") = On(ops, S, "add") \cup On(ops, T, "add")
      /\ On(ops, S \cup T, "remove") = On(ops, S, "remove") \cup On(ops, T, "remove")
  BY OnOfUnion
<1> QED BY <1>1 DEF TwoPhaseHolds, MergePairs

LEMMA TwoPhaseStep ==
    ASSUME NEW ops, NEW op, NEW more, Extends(ops, op, more),
           NEW S, Old(ops, S), NEW s, TwoPhaseHolds(ops, s, S)
    PROVE  /\ op.kind = "add" =>
                 TwoPhaseHolds(more, IF op.on \in s.removed THEN s
                                     ELSE [s EXCEPT !.added = @ \cup {op.on}], With(ops, S))
           /\ op.kind = "remove" =>
                 TwoPhaseHolds(more, [s EXCEPT !.removed = @ \cup {op.on}], With(ops, S))
<1>1. s = [added |-> s.added, removed |-> s.removed]
  BY DEF TwoPhaseHolds
<1>0. \A kind : On(more, With(ops, S), kind)
                   = IF op.kind = kind THEN On(ops, S, kind) \cup {op.on} ELSE On(ops, S, kind)
  BY OnOfMore
<1>2. CASE op.kind = "add"
  <2>1. /\ On(more, With(ops, S), "add") = On(ops, S, "add") \cup {op.on}
        /\ On(more, With(ops, S), "remove") = On(ops, S, "remove")
    BY <1>0, <1>2
  <2>2. CASE op.on \in s.removed
    BY <1>2, <2>1, <2>2 DEF TwoPhaseHolds
  <2>3. CASE op.on \notin s.removed
    <3>1. [s EXCEPT !.added = @ \cup {op.on}] = [added |-> s.added \cup {op.on}, removed |-> s.removed]
      BY <1>1, PairsChange
    <3> QED BY <1>2, <2>1, <2>3, <3>1 DEF TwoPhaseHolds
  <2> QED BY <1>2, <2>2, <2>3
<1>3. CASE op.kind = "remove"
  <2>1. /\ On(more, With(ops, S), "add") = On(ops, S, "add")
        /\ On(more, With(ops, S), "remove") = On(ops, S, "remove") \cup {op.on}
    BY <1>0, <1>3
  <2>2. [s EXCEPT !.removed = @ \cup {op.on}] = [added |-> s.added, removed |-> s.removed \cup {op.on}]
    BY <1>1, PairsChange
  <2> QED BY <1>3, <2>1, <2>2 DEF TwoPhaseHolds
<1> QED BY <1>2, <1>3

\* A removal that one set has seen had seen what the other set must then have seen.
LEMMA ORMerge ==
    ASSUME NEW ops, NEW S, Closed(ops, S), NEW T, Closed(ops, T),
           NEW s, ORHolds(ops, s, S), NEW t, ORHolds(ops, t, T)
    PROVE  ORHolds(ops, MergePairs(s, t), S \cup T)
<1>1. OfKind(ops, S \cup T, "add") = OfKind(ops, S, "add") \cup OfKind(ops, T, "add")
  BY DEF OfKind
<1>2. Gone(ops, S \cup T) = Gone(ops, S) \cup Gone(ops, T)
  BY DEF Gone, OfKind, Closed
<1> QED BY <1>1, <1>2 DEF ORHolds, MergePairs

LEMMA ORStep ==
    ASSUME NEW ops, NEW op, NEW more, Extends(ops, op, more),
           NEW S, Closed(ops, S), op.sees = S, NEW s, ORHolds(ops, s, S),
           \A i \in 1 .. Len(ops) : ops[i].sees \subseteq 1 .. i - 1
    PROVE  /\ op.kind = "add" =>
                 ORHolds(more, [s EXCEPT !.added = @ \cup {<<op.on, Len(ops) + 1>>}], With(ops, S))
           /\ op.kind = "remove" =>
                 ORHolds(more, [s EXCEPT !.removed = @ \cup Observed(s, op.on)], With(ops, S))
<1> DEFINE l == Len(ops) + 1
<1>1. s = [added |-> s.added, removed |-> s.removed]
  BY DEF ORHolds
<1>2. \A i \in S : more[i] = ops[i]
  BY DEF Extends, With, Closed
<1>3. more[l] = op /\ l \notin S
  BY DEF Extends, With, Closed
<1>4. \A i \in S : l \notin ops[i].sees
  BY <1>3 DEF Closed
<1>5. \A i \in Gone(ops, S) : i \in OfKind(ops, S, "add") /\ i \in S
  BY DEF Gone, OfKind
<1>6. \A i \in OfKind(ops, S, "add") : more[i] = ops[i]
  BY <1>2 DEF OfKind
<1> HIDE DEF l
<1>7. ASSUME op.kind = "add"
      PROVE  ORHolds(more, [s EXCEPT !.added = @ \cup {<<op.on, l>>}], S \cup {l})
  <2>1. /\ OfKind(more, S \cup {l}, "add") = OfKind(ops, S, "add") \cup {l}
        /\ OfKind(more, S \cup {l}, "remove") = OfKind(ops, S, "remove")
    BY <1>2, <1>3, <1>7 DEF OfKind
  <2>2. \A j \in OfKind(ops, S, "remove") : more[j] = ops[j] /\ l \notin ops[j].sees
    BY <1>2, <1>4 DEF OfKind
  <2>3. Gone(more, S \cup {l}) = Gone(ops, S)
    BY <1>6, <2>1, <2>2 DEF Gone
  <2>4. [s EXCEPT !.added = @ \cup {<<op.on, l>>}]
          = [added |-> s.added \cup {<<op.on, l>>}, removed |-> s.removed]
    BY <1>1, PairsChange
  <2>5. {<<more[i].on, i>> : i \in OfKind(more, S \cup {l}, "add")} = s.added \cup {<<op.on, l>>}
    <3>1. PICK X : X = OfKind(ops, S, "add")
      OBVIOUS
    <3>2. {<<more[i].on, i>> : i \in X \cup {l}} = {<<ops[i].on, i>> : i \in X} \cup {<<op.on, l>>}
      BY <1>3, <1>6, <3>1
    <3> QED BY <2>1, <3>1, <3>2 DEF ORHolds
  <2>6. {<<more[i].on, i>> : i \in Gone(more, S \cup {l})} = s.removed
    BY <1>5, <1>6, <2>3 DEF ORHolds
  <2> QED BY <2>4, <2>5, <2>6 DEF ORHolds
<1>8. ASSUME op.kind = "remove"
      PROVE  ORHolds(more, [s EXCEPT !.removed = @ \cup Observed(s, op.on)], S \cup {l})
  <2>1. /\ OfKind(more, S \cup {l}, "add") = OfKind(ops, S, "add")
        /\ OfKind(more, S \cup {l}, "remove") = OfKind(ops, S, "remove") \cup {l}
    BY <1>2, <1>3, <1>8 DEF OfKind
  <2>2. \A j \in OfKind(ops, S, "remove") : more[j] = ops[j]
    BY <1>2 DEF OfKind
  <2>3. OfKind(ops, S, "add") \subseteq S /\ OfKind(ops, S, "remove") \subseteq S
    BY DEF OfKind
  <2>4. Gone(more, S \cup {l}) = Gone(ops, S) \cup {i \in OfKind(ops, S, "add") : ops[i].on = op.on}
    <3>1. PICK X \in SUBSET S, Y \in SUBSET S :
            /\ X = OfKind(ops, S, "add") /\ X = OfKind(more, S \cup {l}, "add")
            /\ Y = OfKind(ops, S, "remove") /\ Y \cup {l} = OfKind(more, S \cup {l}, "remove")
      BY <2>1, <2>3
    <3>2. ASSUME NEW i \in X
          PROVE  (\E j \in Y \cup {l} : more[j].on = more[i].on /\ i \in more[j].sees)
                   <=> (\E j \in Y : ops[j].on = ops[i].on /\ i \in ops[j].sees) \/ ops[i].on = op.on
      <4>1. more[i] = ops[i] /\ i \in op.sees /\ \A j \in Y : more[j] = ops[j]
        BY <1>2, <2>2, <3>1
      <4> QED BY <1>3, <4>1
    <3>3. Gone(more, S \cup {l}) = {i \in X : \E j \in Y \cup {l} : more[j].on = more[i].on /\ i \in more[j].sees}
      BY <3>1 DEF Gone
    <3>4. Gone(ops, S) = {i \in X : \E j \in Y : ops[j].on = ops[i].on /\ i \in ops[j].sees}
      BY <3>1 DEF Gone
    <3> QED BY <3>1, <3>2, <3>3, <3>4
  <2>5. [s EXCEPT !.removed = @ \cup Observed(s, op.on)]
          = [added |-> s.added, removed |-> s.removed \cup Observed(s, op.on)]
    BY <1>1, PairsChange
  <2>6. {<<more[i].on, i>> : i \in OfKind(more, S \cup {l}, "add")} = s.added
    BY <1>6, <2>1 DEF ORHolds
  <2>7. {<<more[i].on, i>> : i \in Gone(more, S \cup {l})} = s.removed \cup Observed(s, op.on)
    <3> DEFINE New == {i \in OfKind(ops, S, "add") : ops[i].on = op.on}
    <3>1. {<<more[i].on, i>> : i \in Gone(more, S \cup {l})}
            = {<<ops[i].on, i>> : i \in Gone(ops, S)} \cup {<<ops[i].on, i>> : i \in New}
      BY <1>5, <1>6, <2>4, ZenonT(30)
    <3>2. Observed(s, op.on) \subseteq {<<ops[i].on, i>> : i \in New}
      BY DEF Observed, ORHolds
    <3>3. {<<ops[i].on, i>> : i \in New} \subseteq s.removed \cup Observed(s, op.on)
      BY DEF Observed, ORHolds
    <3> QED BY <3>1, <3>2, <3>3 DEF ORHolds
  <2> QED BY <2>5, <2>6, <2>7 DEF ORHolds
<1> QED BY <1>7, <1>8 DEF l, With

-----------------------------------------------------------------------------
(* Last writes.                                                             *)

\* The updates of S carry numbers that can be compared.
Typed(ops, S) ==
    S \subseteq 1 .. Len(ops) /\ \A i \in S : i \in Nat /\ ops[i].ts \in Nat /\ ops[i].by \in Nat

LEMMA HistoryTyped ==
    ASSUME NEW type, NEW ops, History(type, ops), NEW S, Closed(ops, S)
    PROVE  Typed(ops, S)
<1>1. \A i \in 1 .. Len(ops) : ops[i] \in Updates
  BY DEF History
<1>2. CNodes \subseteq Nat
  BY NodesAreNumbers
<1>3. \A i \in 1 .. Len(ops) : i \in Nat /\ ops[i].ts \in Nat /\ ops[i].by \in Nat
  <2>1. \A i \in 1 .. Len(ops) : ops[i].ts \in Nat /\ ops[i].by \in CNodes
    BY <1>1 DEF Updates
  <2>2. \A i \in 1 .. Len(ops) : i \in Nat
    OBVIOUS
  <2> QED BY <1>2, <2>1, <2>2
<1> QED BY <1>3 DEF Closed, Typed

\* Of two writes one wins.
LEMMA OverIsTotal ==
    ASSUME NEW ops, NEW S, Typed(ops, S), NEW i \in S, NEW j \in S, i # j
    PROVE  Over(ops, i, j) <=> ~ Over(ops, j, i)
BY DEF Over, Typed

LEMMA OverIsTransitive ==
    ASSUME NEW ops, NEW S, Typed(ops, S), NEW i \in S, NEW j \in S, NEW k \in S,
           Over(ops, i, j), Over(ops, j, k)
    PROVE  Over(ops, i, k)
BY DEF Over, Typed

\* The winner of a union is the one of the two winners that wins over the other.
LEMMA WinnerOfUnion ==
    ASSUME NEW ops, NEW S, Typed(ops, S), NEW T, Typed(ops, T), NEW k,
           NEW v, Wins(ops, S, k, v), NEW w, Wins(ops, T, k, w)
    PROVE  /\ (v = w \/ Over(ops, v, w)) => Wins(ops, S \cup T, k, v)
           /\ (v = w \/ Over(ops, w, v)) => Wins(ops, S \cup T, k, w)
<1>1. Typed(ops, S \cup T)
  BY DEF Typed
<1>2. Writes(ops, S \cup T, k) = Writes(ops, S, k) \cup Writes(ops, T, k)
  BY DEF Writes
<1>3. /\ Writes(ops, S, k) \subseteq S \cup T /\ Writes(ops, T, k) \subseteq S \cup T
      /\ v \in Writes(ops, S, k) /\ w \in Writes(ops, T, k)
  BY DEF Writes, Wins
<1>4. /\ \A j \in Writes(ops, S, k) \ {v} : Over(ops, v, j)
      /\ \A j \in Writes(ops, T, k) \ {w} : Over(ops, w, j)
  BY DEF Wins
<1>5. ASSUME v = w \/ Over(ops, v, w), NEW j \in Writes(ops, S \cup T, k) \ {v}
      PROVE  Over(ops, v, j)
  <2>1. CASE j \in Writes(ops, S, k)
    BY <1>4, <2>1
  <2>2. CASE j \in Writes(ops, T, k) /\ j # w
    BY <1>1, <1>3, <1>4, <1>5, <2>2, OverIsTransitive
  <2>3. CASE j = w
    BY <1>5, <2>3
  <2> QED BY <1>2, <2>1, <2>2, <2>3
<1>6. ASSUME v = w \/ Over(ops, w, v), NEW j \in Writes(ops, S \cup T, k) \ {w}
      PROVE  Over(ops, w, j)
  <2>1. CASE j \in Writes(ops, T, k)
    BY <1>4, <2>1
  <2>2. CASE j \in Writes(ops, S, k) /\ j # v
    BY <1>1, <1>3, <1>4, <1>6, <2>2, OverIsTransitive
  <2>3. CASE j = v
    BY <1>6, <2>3
  <2> QED BY <1>2, <2>1, <2>2, <2>3
<1> QED BY <1>2, <1>3, <1>5, <1>6 DEF Wins

\* What wins is what the history calls the winner.
LEMMA WinnerWins ==
    ASSUME NEW S, Typed(cOps, S), NEW k, NEW w, Wins(cOps, S, k, w)
    PROVE  Winner(S, k) = w
<1> DEFINE writes == {i \in S : cOps[i].kind = "write" /\ cOps[i].on = k}
           Best(i) == i \in writes /\ \A j \in writes \ {i} : Over(cOps, i, j)
<1>1. writes = Writes(cOps, S, k)
  BY DEF Writes
<1>2. Best(w)
  BY <1>1 DEF Wins
<1>3. ASSUME NEW i, Best(i) PROVE i = w
  <2> SUFFICES ASSUME i # w PROVE FALSE
    OBVIOUS
  <2>1. Over(cOps, i, w) /\ Over(cOps, w, i) /\ i \in S /\ w \in S
    BY <1>2, <1>3
  <2> QED BY <2>1, OverIsTotal
<1>4. Winner(S, k) = CHOOSE i \in writes : \A j \in writes \ {i} : Over(cOps, i, j)
  BY DEF Winner, Over
<1>5. PICK c : c = CHOOSE i \in writes : \A j \in writes \ {i} : Over(cOps, i, j)
  OBVIOUS
<1>6. Best(c)
  <2> HIDE DEF writes
  <2> QED BY <1>2, <1>5
<1> QED BY <1>3, <1>4, <1>5, <1>6

\* Two winners differ in stamp or author.
LEMMA WinnersDiffer ==
    ASSUME NEW type, NEW ops, History(type, ops), NEW S, Closed(ops, S), NEW T, Closed(ops, T),
           NEW k, NEW v, Wins(ops, S, k, v), NEW w, Wins(ops, T, k, w), v # w
    PROVE  ops[v].ts # ops[w].ts \/ ops[v].by # ops[w].by
<1> SUFFICES ASSUME ops[v].ts = ops[w].ts, ops[v].by = ops[w].by PROVE FALSE
  OBVIOUS
<1>1. v \in S /\ w \in T /\ v \in Writes(ops, S, k) /\ w \in Writes(ops, T, k)
  BY DEF Wins, Writes
<1>2. Typed(ops, S) /\ Typed(ops, T)
  BY HistoryTyped
<1>3. v \in 1 .. Len(ops) /\ w \in 1 .. Len(ops) /\ Len(ops) \in Nat
  BY <1>1 DEF Closed, History
<1>4. CASE w < v
  <2>1. w \in 1 .. v - 1
    BY <1>3, <1>4
  <2>2. w \in ops[v].sees
    BY <1>3, <2>1 DEF History
  <2>3. w \in Writes(ops, S, k)
    BY <1>1, <2>2 DEF Closed, Writes
  <2>4. Over(ops, v, w)
    BY <2>3 DEF Wins
  <2> QED BY <1>1, <1>2, <1>4, <2>4 DEF Over, Typed
<1>5. CASE v < w
  <2>1. v \in 1 .. w - 1
    BY <1>3, <1>5
  <2>2. v \in ops[w].sees
    BY <1>3, <2>1 DEF History
  <2>3. v \in Writes(ops, T, k)
    BY <1>1, <2>2 DEF Closed, Writes
  <2>4. Over(ops, w, v)
    BY <2>3 DEF Wins
  <2> QED BY <1>1, <1>2, <1>5, <2>4 DEF Over, Typed
<1> QED BY <1>3, <1>4, <1>5

LEMMA WinsKept ==
    ASSUME NEW ops, NEW op, NEW more, Extends(ops, op, more), NEW S, Old(ops, S), NEW k, NEW w,
           Wins(ops, S, k, w)
    PROVE  Wins(more, S, k, w) /\ more[w] = ops[w]
<1>1. \A i \in S : more[i] = ops[i]
  BY DEF Extends, Old
<1>2. Writes(more, S, k) = Writes(ops, S, k) /\ Writes(ops, S, k) \subseteq S
  BY <1>1 DEF Writes
<1>3. w \in Writes(ops, S, k) /\ \A j \in Writes(ops, S, k) \ {w} : Over(ops, w, j)
  BY DEF Wins
<1>4. \A j \in Writes(ops, S, k) \ {w} : Over(more, w, j)
  BY <1>1, <1>2, <1>3 DEF Over
<1> QED BY <1>1, <1>2, <1>3, <1>4 DEF Wins

LEMMA RegisterKept ==
    ASSUME NEW ops, NEW op, NEW more, Extends(ops, op, more), NEW S, Old(ops, S), NEW n, NEW s,
           RegisterHolds(ops, n, s, S)
    PROVE  RegisterHolds(more, n, s, S)
<1>1. CASE S = {}
  BY <1>1 DEF RegisterHolds
<1>2. CASE S # {}
  <2>1. PICK w \in S : /\ Wins(ops, S, CNull, w)
                       /\ s.val = ops[w].arg /\ s.ts = ops[w].ts /\ s.writer = ops[w].by
    BY <1>2 DEF RegisterHolds
  <2>2. Wins(more, S, CNull, w) /\ more[w] = ops[w]
    BY <2>1, WinsKept
  <2> QED BY <1>2, <2>1, <2>2 DEF RegisterHolds
<1> QED BY <1>1, <1>2

\* A register read off a write.
LEMMA RegisterFrom ==
    ASSUME NEW ops, NEW n, NEW S, NEW w \in S, Wins(ops, S, CNull, w), ops[w].by \in CNodes,
           NEW r, r = [node |-> n, val |-> ops[w].arg, ts |-> ops[w].ts, writer |-> ops[w].by]
    PROVE  RegisterHolds(ops, n, r, S)
<1>1. /\ r.node = n /\ r.val = ops[w].arg /\ r.ts = ops[w].ts /\ r.writer = ops[w].by
      /\ S # {}
  OBVIOUS
<1>2. r = [node |-> n, val |-> r.val, ts |-> r.ts, writer |-> r.writer]
  BY <1>1
<1> QED BY <1>1, <1>2 DEF RegisterHolds

LEMMA RegisterMerge ==
    ASSUME NEW ops, History("LWWRegister", ops), NEW S, Closed(ops, S), NEW T, Closed(ops, T),
           NEW n, NEW m, NEW s, RegisterHolds(ops, n, s, S), NEW t, RegisterHolds(ops, m, t, T)
    PROVE  RegisterHolds(ops, n, MergeRegister(s, t), S \cup T)
<1>1. Typed(ops, S) /\ Typed(ops, T) /\ CNodes \subseteq Nat
  BY HistoryTyped, NodesAreNumbers
<1>2. \A i \in S \cup T : ops[i].ts # 0 /\ ops[i].ts \in Nat /\ ops[i].by \in CNodes
  <2>1. \A i \in 1 .. Len(ops) : ops[i].ts # 0 /\ ops[i] \in Updates
    BY DEF History, Fits
  <2> QED BY <2>1 DEF Closed, Updates
<1>3. s = [node |-> n, val |-> s.val, ts |-> s.ts, writer |-> s.writer]
  BY DEF RegisterHolds
<1>4. t = [node |-> m, val |-> t.val, ts |-> t.ts, writer |-> t.writer]
  BY DEF RegisterHolds
<1>5. PICK r : r = [t EXCEPT !.node = s.node]
  OBVIOUS
<1>6. r = [node |-> n, val |-> t.val, ts |-> t.ts, writer |-> t.writer]
  <2>1. s.node = n
    BY <1>3
  <2> QED BY <1>4, <1>5, <2>1
<1>7. MergeRegister(s, t) = IF ShouldUpdate(s, t.ts, t.writer) THEN r ELSE s
  BY <1>5 DEF MergeRegister
<1>8. s.writer \in CNodes /\ t.writer \in CNodes
  BY DEF RegisterHolds
<1>9. CASE T = {} /\ S = {}
  <2>1. s.val = CNull /\ s.ts = 0 /\ t.val = CNull /\ t.ts = 0
    BY <1>9 DEF RegisterHolds
  <2>2. r.val = CNull /\ r.ts = 0 /\ r.writer \in CNodes
    BY <1>6, <1>8, <2>1
  <2>3. r = [node |-> n, val |-> r.val, ts |-> r.ts, writer |-> r.writer]
    BY <1>6
  <2>4. RegisterHolds(ops, n, r, S \cup T)
    BY <1>9, <2>2, <2>3 DEF RegisterHolds
  <2>5. S \cup T = S
    BY <1>9
  <2> QED BY <1>7, <2>4, <2>5
<1>10. CASE T = {} /\ S # {}
  <2>1. PICK w \in S : s.ts = ops[w].ts
    BY <1>10 DEF RegisterHolds
  <2>2. t.ts = 0
    BY <1>10 DEF RegisterHolds
  <2>3. ~ ShouldUpdate(s, t.ts, t.writer)
    BY <1>2, <2>1, <2>2 DEF ShouldUpdate
  <2>4. S \cup T = S
    BY <1>10
  <2> QED BY <1>7, <2>3, <2>4
<1>11. CASE T # {}
  <2>1. PICK w \in T : /\ Wins(ops, T, CNull, w)
                       /\ t.val = ops[w].arg /\ t.ts = ops[w].ts /\ t.writer = ops[w].by
    BY <1>11 DEF RegisterHolds
  <2>2. r = [node |-> n, val |-> ops[w].arg, ts |-> ops[w].ts, writer |-> ops[w].by]
    BY <1>6, <2>1
  <2>3. CASE S = {}
    <3>1. s.ts = 0 /\ S \cup T = T
      BY <2>3 DEF RegisterHolds
    <3>2. ShouldUpdate(s, t.ts, t.writer)
      BY <1>2, <2>1, <3>1 DEF ShouldUpdate
    <3>3. RegisterHolds(ops, n, r, T)
      BY <1>2, <2>1, <2>2, RegisterFrom
    <3> QED BY <1>7, <3>1, <3>2, <3>3
  <2>4. CASE S # {}
    <3>1. PICK v \in S : /\ Wins(ops, S, CNull, v)
                         /\ s.val = ops[v].arg /\ s.ts = ops[v].ts /\ s.writer = ops[v].by
      BY <2>4 DEF RegisterHolds
    <3>2. s = [node |-> n, val |-> ops[v].arg, ts |-> ops[v].ts, writer |-> ops[v].by]
      BY <1>3, <3>1
    <3>3. /\ ops[v].ts \in Nat /\ ops[w].ts \in Nat /\ ops[v].by \in Nat /\ ops[w].by \in Nat
          /\ v \in Nat /\ w \in Nat
      BY <1>1 DEF Typed
    <3>4. CASE v = w
      <4>1. ~ ShouldUpdate(s, t.ts, t.writer)
        BY <2>1, <3>1, <3>3, <3>4 DEF ShouldUpdate
      <4>2. Wins(ops, S \cup T, CNull, v)
        BY <1>1, <2>1, <3>1, <3>4, WinnerOfUnion
      <4>3. RegisterHolds(ops, n, s, S \cup T)
        BY <1>2, <3>2, <4>2, RegisterFrom
      <4> QED BY <1>7, <4>1, <4>3
    <3>5. CASE v # w
      <4>1. ops[v].ts # ops[w].ts \/ ops[v].by # ops[w].by
        BY <2>1, <3>1, <3>5, WinnersDiffer
      <4>2. CASE ShouldUpdate(s, t.ts, t.writer)
        <5>1. Over(ops, w, v)
          BY <2>1, <3>1, <4>2 DEF ShouldUpdate, Over
        <5>2. Wins(ops, S \cup T, CNull, w)
          BY <1>1, <2>1, <3>1, <5>1, WinnerOfUnion
        <5>3. RegisterHolds(ops, n, r, S \cup T)
          BY <1>2, <2>2, <5>2, RegisterFrom
        <5> QED BY <1>7, <4>2, <5>3
      <4>3. CASE ~ ShouldUpdate(s, t.ts, t.writer)
        <5>1. Over(ops, v, w)
          BY <2>1, <3>1, <3>3, <4>1, <4>3 DEF ShouldUpdate, Over
        <5>2. Wins(ops, S \cup T, CNull, v)
          BY <1>1, <2>1, <3>1, <5>1, WinnerOfUnion
        <5>3. RegisterHolds(ops, n, s, S \cup T)
          BY <1>2, <3>2, <5>2, RegisterFrom
        <5> QED BY <1>7, <4>3, <5>3
      <4> QED BY <4>2, <4>3
    <3> QED BY <3>4, <3>5
  <2> QED BY <2>3, <2>4
<1> QED BY <1>9, <1>10, <1>11

\* The write at l, that is made, wins of itself alone, and its place is new.
IsWrite(op) == op.kind = "write"
NewWins(ops, op, more, S, l) ==
    /\ Wins(more, {l}, op.on, l)
    /\ Typed(more, S) /\ Typed(more, {l}) /\ Old(ops, S)
    /\ \A w \in S : Over(more, l, w) <=>
                        op.ts > ops[w].ts \/ (op.ts = ops[w].ts /\ op.by > ops[w].by)
    /\ \A w \in S : w # l
    /\ l \in With(ops, S) /\ more[l] = op

LEMMA NewWrite ==
    ASSUME NEW ops, NEW op, NEW more, Extends(ops, op, more), NEW S, Closed(ops, S),
           Typed(ops, S), IsWrite(op)
    PROVE  NewWins(ops, op, more, S, Len(ops) + 1)
<1> DEFINE l == Len(ops) + 1
<1>1. more[l] = op /\ Len(more) = l /\ Len(ops) \in Nat
  BY DEF Extends
<1>2. S \subseteq 1 .. Len(ops) /\ \A w \in S : more[w] = ops[w]
  BY DEF Extends, Closed
<1>3. op.ts \in Nat /\ op.by \in Nat
  <2>1. op.ts \in Nat /\ op.by \in CNodes
    BY DEF Extends, Updates
  <2> QED BY <2>1, NodesAreNumbers
<1>4. \A w \in S : w < l /\ w # l
  BY <1>1, <1>2
<1>5. Typed(more, S) /\ Typed(more, {l})
  <2>1. S \subseteq 1 .. Len(more) /\ {l} \subseteq 1 .. Len(more) /\ l \in Nat
    BY <1>1, <1>2
  <2> HIDE DEF l
  <2> QED BY <1>1, <1>2, <1>3, <2>1 DEF Typed
<1>6. Wins(more, {l}, op.on, l)
  <2> HIDE DEF l
  <2> QED BY <1>1 DEF Wins, Writes, IsWrite
<1>7. ASSUME NEW w \in S
      PROVE  Over(more, l, w) <=> \/ op.ts > ops[w].ts
                                  \/ op.ts = ops[w].ts /\ op.by > ops[w].by
  <2>1. ~ (l < w) /\ more[l] = op /\ more[w] = ops[w]
    BY <1>1, <1>2, <1>4
  <2> HIDE DEF l
  <2> QED BY <2>1 DEF Over
<1> HIDE DEF l
<1>8. Old(ops, S)
  BY <1>2 DEF Old
<1>9. l \in With(ops, S)
  BY DEF With, l
<1>10. NewWins(ops, op, more, S, l)
  BY <1>1, <1>4, <1>5, <1>6, <1>7, <1>8, <1>9 DEF NewWins
<1> QED BY <1>10 DEF l

LEMMA RegisterStep ==
    ASSUME NEW ops, NEW op, NEW more, Extends(ops, op, more), History("LWWRegister", ops),
           NEW S, Closed(ops, S), op.kind = "write", op.on = CNull, op.ts # 0,
           NEW s, RegisterHolds(ops, op.by, s, S)
    PROVE  RegisterHolds(more, op.by, Written(s, op.arg, op.ts), With(ops, S))
<1> DEFINE l == Len(ops) + 1
           n == op.by
<1>0. Typed(ops, S)
  BY HistoryTyped
<1>1. /\ Wins(more, {l}, CNull, l)
      /\ Typed(more, S) /\ Typed(more, {l}) /\ Old(ops, S)
      /\ \A w \in S : Over(more, l, w) <=>
                          op.ts > ops[w].ts \/ (op.ts = ops[w].ts /\ n > ops[w].by)
      /\ \A w \in S : w # l
      /\ l \in With(ops, S) /\ more[l] = op
  <2>1. IsWrite(op)
    BY DEF IsWrite
  <2>2. NewWins(ops, op, more, S, l)
    BY <1>0, <2>1, NewWrite
  <2> QED BY <2>2 DEF NewWins
<1>2. n \in CNodes /\ op.ts \in Nat
  BY DEF Extends, Updates
<1>3. s = [node |-> n, val |-> s.val, ts |-> s.ts, writer |-> s.writer]
  BY DEF RegisterHolds
<1>4. With(ops, S) = S \cup {l}
  BY DEF With
<1> HIDE DEF l
<1>5. PICK r : r = [s EXCEPT !.val = op.arg, !.ts = op.ts, !.writer = s.node]
  OBVIOUS
<1>6. r = [node |-> n, val |-> more[l].arg, ts |-> more[l].ts, writer |-> more[l].by]
  <2>1. s.node = n
    BY <1>3
  <2>2. r = [node |-> n, val |-> op.arg, ts |-> op.ts, writer |-> n]
    BY <1>3, <1>5, <2>1
  <2> QED BY <1>1, <2>2
<1>7. s.node = n /\ Written(s, op.arg, op.ts) = IF ShouldUpdate(s, op.ts, n) THEN r ELSE s
  <2>1. s.node = n
    BY <1>3
  <2> QED BY <1>5, <2>1 DEF Written
<1>8. CASE S = {}
  <2>1. s.ts = 0
    BY <1>8 DEF RegisterHolds
  <2>2. ShouldUpdate(s, op.ts, n)
    BY <1>2, <2>1 DEF ShouldUpdate
  <2>3. S \cup {l} = {l}
    BY <1>8
  <2>4. RegisterHolds(more, n, r, {l})
    BY <1>1, <1>2, <1>6, RegisterFrom
  <2> QED BY <1>4, <1>7, <2>2, <2>3, <2>4
<1>9. CASE S # {}
  <2>1. PICK w \in S : /\ Wins(ops, S, CNull, w)
                       /\ s.val = ops[w].arg /\ s.ts = ops[w].ts /\ s.writer = ops[w].by
    BY <1>9 DEF RegisterHolds
  <2>2. Wins(more, S, CNull, w) /\ more[w] = ops[w]
    BY <1>1, <2>1, WinsKept
  <2>3. Over(more, l, w) <=> ShouldUpdate(s, op.ts, n)
    BY <1>1, <2>1 DEF ShouldUpdate
  <2>4. CASE ShouldUpdate(s, op.ts, n)
    <3>1. Wins(more, S \cup {l}, CNull, l)
      BY <1>1, <2>2, <2>3, <2>4, WinnerOfUnion
    <3>2. RegisterHolds(more, n, r, S \cup {l})
      <4>1. l \in S \cup {l} /\ more[l].by \in CNodes
        BY <1>1, <1>2
      <4> QED BY <1>6, <3>1, <4>1, RegisterFrom
    <3> QED BY <1>4, <1>7, <2>4, <3>2
  <2>5. CASE ~ ShouldUpdate(s, op.ts, n)
    <3>1. Over(more, w, l)
      <4>1. Typed(more, S \cup {l}) /\ w \in S \cup {l} /\ l \in S \cup {l} /\ w # l
        BY <1>1 DEF Typed
      <4> QED BY <2>3, <2>5, <4>1, OverIsTotal
    <3>2. Wins(more, S \cup {l}, CNull, w)
      BY <1>1, <2>2, <3>1, WinnerOfUnion
    <3>3. s = [node |-> n, val |-> more[w].arg, ts |-> more[w].ts, writer |-> more[w].by]
      BY <1>3, <2>1, <2>2
    <3>4. more[w].by \in CNodes /\ w \in S \cup {l}
      <4>1. s.writer \in CNodes
        BY DEF RegisterHolds
      <4> QED BY <2>1, <2>2, <4>1
    <3>5. RegisterHolds(more, n, s, S \cup {l})
      BY <3>2, <3>3, <3>4, RegisterFrom
    <3> QED BY <1>4, <1>7, <2>5, <3>5
  <2> QED BY <2>4, <2>5
<1> QED BY <1>8, <1>9

-----------------------------------------------------------------------------
(* The map, where no stamp is used twice.                                   *)

LEMMA EntryKept ==
    ASSUME NEW ops, NEW op, NEW more, Extends(ops, op, more), NEW S, Old(ops, S), NEW k, NEW e,
           EntryHolds(ops, e, S, k)
    PROVE  EntryHolds(more, e, S, k)
<1>1. PICK w \in S : Wins(ops, S, k, w) /\ e.val = ops[w].arg /\ e.ts = ops[w].ts
  BY DEF EntryHolds
<1>2. Wins(more, S, k, w) /\ more[w] = ops[w]
  BY <1>1, WinsKept
<1> QED BY <1>1, <1>2 DEF EntryHolds

\* Updates on other keys change nothing.
LEMMA EntryAlone ==
    ASSUME NEW ops, NEW S, NEW T, NEW k, Writes(ops, T, k) = {}, NEW e, EntryHolds(ops, e, S, k)
    PROVE  EntryHolds(ops, e, S \cup T, k)
<1>1. PICK w \in S : Wins(ops, S, k, w) /\ e.val = ops[w].arg /\ e.ts = ops[w].ts
  BY DEF EntryHolds
<1>2. Writes(ops, S \cup T, k) = Writes(ops, S, k)
  BY DEF Writes
<1>3. Wins(ops, S \cup T, k, w) /\ w \in S \cup T
  BY <1>1, <1>2 DEF Wins
<1> QED BY <1>1, <1>3 DEF EntryHolds

\* No two updates bear one stamp.
Stamped(ops, S) == Typed(ops, S) /\ \A i, j \in S : i # j => ops[i].ts # ops[j].ts

LEMMA HistoryStamped ==
    ASSUME NEW ops, History("LWWMap", ops), "LWWMap" \notin CTies, NEW S, Closed(ops, S)
    PROVE  Stamped(ops, S)
<1>1. Typed(ops, S)
  BY HistoryTyped
<1>2. \A i \in 1 .. Len(ops) : \A j \in 1 .. i - 1 : ops[j].ts # ops[i].ts
  BY DEF History
<1>3. ASSUME NEW i \in S, NEW j \in S, i # j PROVE ops[i].ts # ops[j].ts
  <2>1. i \in 1 .. Len(ops) /\ j \in 1 .. Len(ops) /\ Len(ops) \in Nat
    BY DEF Closed, History
  <2>2. CASE i < j
    <3>1. i \in 1 .. j - 1
      BY <2>1, <2>2
    <3> QED BY <1>2, <2>1, <3>1
  <2>3. CASE j < i
    <3>1. j \in 1 .. i - 1
      BY <2>1, <2>3
    <3> QED BY <1>2, <2>1, <3>1
  <2> QED BY <1>3, <2>1, <2>2, <2>3
<1> QED BY <1>1, <1>3 DEF Stamped

LEMMA EntryMerge ==
    ASSUME NEW ops, NEW S, NEW T, Stamped(ops, S \cup T), NEW k,
           NEW e, EntryHolds(ops, e, S, k), NEW f, EntryHolds(ops, f, T, k)
    PROVE  EntryHolds(ops, MergeRegister(e, f), S \cup T, k)
<1>1. PICK v \in S : Wins(ops, S, k, v) /\ e.val = ops[v].arg /\ e.ts = ops[v].ts
  BY DEF EntryHolds
<1>2. PICK w \in T : Wins(ops, T, k, w) /\ f.val = ops[w].arg /\ f.ts = ops[w].ts
  BY DEF EntryHolds
<1>3. Typed(ops, S) /\ Typed(ops, T)
  BY DEF Stamped, Typed
<1>4. /\ e = [node |-> e.node, val |-> e.val, ts |-> e.ts, writer |-> e.writer]
      /\ e.node \in CNodes /\ e.writer \in CNodes
  BY DEF EntryHolds
<1>5. /\ f = [node |-> f.node, val |-> f.val, ts |-> f.ts, writer |-> f.writer]
      /\ f.node \in CNodes /\ f.writer \in CNodes
  BY DEF EntryHolds
<1>6. PICK r : r = [f EXCEPT !.node = e.node]
  OBVIOUS
<1>7. r = [node |-> e.node, val |-> f.val, ts |-> f.ts, writer |-> f.writer]
  BY <1>5, <1>6
<1>8. /\ r = [node |-> r.node, val |-> r.val, ts |-> r.ts, writer |-> r.writer]
      /\ r.node \in CNodes /\ r.writer \in CNodes /\ r.val = ops[w].arg /\ r.ts = ops[w].ts
  BY <1>2, <1>4, <1>5, <1>7
<1>9. MergeRegister(e, f) = IF ShouldUpdate(e, f.ts, f.writer) THEN r ELSE e
  BY <1>6 DEF MergeRegister
<1>10. ops[v].ts \in Nat /\ ops[w].ts \in Nat /\ v \in S \cup T /\ w \in S \cup T
  BY <1>3 DEF Typed
<1>11. CASE v = w
  <2>1. Wins(ops, S \cup T, k, v)
    BY <1>1, <1>2, <1>3, <1>11, WinnerOfUnion
  <2>2. EntryHolds(ops, r, S \cup T, k)
    BY <1>8, <1>10, <1>11, <2>1 DEF EntryHolds
  <2>3. EntryHolds(ops, e, S \cup T, k)
    BY <1>1, <1>4, <1>10, <2>1 DEF EntryHolds
  <2> QED BY <1>9, <2>2, <2>3
<1>12. CASE v # w
  <2>1. ops[v].ts # ops[w].ts
    BY <1>10, <1>12 DEF Stamped
  <2>2. CASE ops[w].ts > ops[v].ts
    <3>1. Over(ops, w, v) /\ ShouldUpdate(e, f.ts, f.writer)
      BY <1>1, <1>2, <2>2 DEF Over, ShouldUpdate
    <3>2. Wins(ops, S \cup T, k, w)
      BY <1>1, <1>2, <1>3, <3>1, WinnerOfUnion
    <3>3. EntryHolds(ops, r, S \cup T, k)
      BY <1>8, <1>10, <3>2 DEF EntryHolds
    <3> QED BY <1>9, <3>1, <3>3
  <2>3. CASE ops[v].ts > ops[w].ts
    <3>1. Over(ops, v, w) /\ ~ ShouldUpdate(e, f.ts, f.writer)
      BY <1>1, <1>2, <1>10, <2>3 DEF Over, ShouldUpdate
    <3>2. Wins(ops, S \cup T, k, v)
      BY <1>1, <1>2, <1>3, <3>1, WinnerOfUnion
    <3>3. EntryHolds(ops, e, S \cup T, k)
      BY <1>1, <1>4, <1>10, <3>2 DEF EntryHolds
    <3> QED BY <1>9, <3>1, <3>3
  <2> QED BY <1>10, <2>1, <2>2, <2>3
<1> QED BY <1>11, <1>12

\* The stamp of the new write is new.
NewStamp(ops, op, S) == \A i \in S : ops[i].ts # op.ts

LEMMA EntryStep ==
    ASSUME NEW ops, NEW op, NEW more, Extends(ops, op, more), NEW S, Closed(ops, S), Typed(ops, S),
           IsWrite(op), NewStamp(ops, op, S), NEW e, EntryHolds(ops, e, S, op.on)
    PROVE  EntryHolds(more, Written(e, op.arg, op.ts), With(ops, S), op.on)
<1> DEFINE l == Len(ops) + 1
<1>1. NewWins(ops, op, more, S, l)
  BY NewWrite
<1>2. With(ops, S) = S \cup {l}
  BY DEF With
<1> HIDE DEF l
<1>3. PICK w \in S : Wins(ops, S, op.on, w) /\ e.val = ops[w].arg /\ e.ts = ops[w].ts
  BY DEF EntryHolds
<1>4. /\ e = [node |-> e.node, val |-> e.val, ts |-> e.ts, writer |-> e.writer]
      /\ e.node \in CNodes /\ e.writer \in CNodes
  BY DEF EntryHolds
<1>5. Wins(more, S, op.on, w) /\ more[w] = ops[w]
  BY <1>1, <1>3, WinsKept DEF NewWins
<1>6. PICK r : r = [e EXCEPT !.val = op.arg, !.ts = op.ts, !.writer = e.node]
  OBVIOUS
<1>7. r = [node |-> e.node, val |-> op.arg, ts |-> op.ts, writer |-> e.node]
  BY <1>4, <1>6
<1>8. /\ r = [node |-> r.node, val |-> r.val, ts |-> r.ts, writer |-> r.writer]
      /\ r.node \in CNodes /\ r.writer \in CNodes /\ r.val = more[l].arg /\ r.ts = more[l].ts
  BY <1>1, <1>4, <1>7 DEF NewWins
<1>9. Written(e, op.arg, op.ts) = IF ShouldUpdate(e, op.ts, e.node) THEN r ELSE e
  BY <1>6 DEF Written
<1>10. /\ ops[w].ts \in Nat /\ op.ts \in Nat /\ ops[w].ts # op.ts
       /\ w \in S \cup {l} /\ l \in S \cup {l} /\ w # l
  BY <1>1 DEF Typed, NewStamp, NewWins, Extends, Updates
<1>11. Wins(more, {l}, op.on, l) /\ Typed(more, S) /\ Typed(more, {l})
  BY <1>1 DEF NewWins
<1>12. CASE op.ts > ops[w].ts
  <2>1. Over(more, l, w)
    BY <1>1, <1>12 DEF NewWins
  <2>2. ShouldUpdate(e, op.ts, e.node)
    BY <1>3, <1>12 DEF ShouldUpdate
  <2>3. Wins(more, S \cup {l}, op.on, l)
    BY <1>5, <1>11, <2>1, WinnerOfUnion
  <2>4. EntryHolds(more, r, S \cup {l}, op.on)
    BY <1>8, <1>10, <2>3 DEF EntryHolds
  <2> QED BY <1>2, <1>9, <2>2, <2>4
<1>13. CASE ops[w].ts > op.ts
  <2>1. Over(more, w, l)
    BY <1>1, <1>5, <1>13 DEF NewWins, Over
  <2>2. ~ ShouldUpdate(e, op.ts, e.node)
    BY <1>3, <1>10, <1>13 DEF ShouldUpdate
  <2>3. Wins(more, S \cup {l}, op.on, w)
    BY <1>5, <1>11, <2>1, WinnerOfUnion
  <2>4. EntryHolds(more, e, S \cup {l}, op.on)
    BY <1>3, <1>4, <1>5, <1>10, <2>3 DEF EntryHolds
  <2> QED BY <1>2, <1>9, <2>2, <2>4
<1> QED BY <1>10, <1>12, <1>13

LEMMA EntryNew ==
    ASSUME NEW ops, NEW op, NEW more, Extends(ops, op, more), NEW S, Closed(ops, S), Typed(ops, S),
           IsWrite(op), op.on \notin On(ops, S, "write")
    PROVE  EntryHolds(more, EmptyRegister(op.by, op.arg, op.ts), With(ops, S), op.on)
<1> DEFINE l == Len(ops) + 1
<1>1. NewWins(ops, op, more, S, l)
  BY NewWrite
<1>2. With(ops, S) = S \cup {l}
  BY DEF With
<1> HIDE DEF l
<1>3. \A i \in S : more[i] = ops[i]
  BY DEF Extends, Closed
<1>4. Writes(more, S, op.on) = {}
  BY <1>3 DEF Writes, On, OfKind
<1>5. Wins(more, {l}, op.on, l) /\ more[l] = op
  BY <1>1 DEF NewWins
<1>6. op.by \in CNodes
  BY DEF Extends, Updates
<1>7. PICK r : r = EmptyRegister(op.by, op.arg, op.ts)
  OBVIOUS
<1>8. /\ r = [node |-> r.node, val |-> r.val, ts |-> r.ts, writer |-> r.writer]
      /\ r.node \in CNodes /\ r.writer \in CNodes /\ r.val = more[l].arg /\ r.ts = more[l].ts
  BY <1>5, <1>6, <1>7 DEF EmptyRegister
<1>9. EntryHolds(more, r, {l}, op.on)
  BY <1>5, <1>8 DEF EntryHolds
<1>10. EntryHolds(more, r, {l} \cup S, op.on)
  BY <1>4, <1>9, EntryAlone
<1>11. {l} \cup S = S \cup {l}
  OBVIOUS
<1> QED BY <1>2, <1>7, <1>10, <1>11

\* The keys are those that were written.
LEMMA KeysWritten ==
    ASSUME NEW ops, NEW S, NEW k
    PROVE  k \in On(ops, S, "write") <=> Writes(ops, S, k) # {}
BY DEF On, OfKind, Writes

LEMMA MapKept ==
    ASSUME NEW ops, NEW op, NEW more, Extends(ops, op, more), NEW S, Old(ops, S), NEW s,
           MapHolds(ops, s, S)
    PROVE  MapHolds(more, s, S)
<1>1. \A i \in S : more[i] = ops[i]
  BY DEF Extends, Old
<1>2. OfKind(more, S, "write") = OfKind(ops, S, "write") /\ OfKind(ops, S, "write") \subseteq S
  BY <1>1 DEF OfKind
<1>3. On(more, S, "write") = On(ops, S, "write")
  BY <1>1, <1>2 DEF On
<1>4. ASSUME NEW k \in DOMAIN s PROVE EntryHolds(more, s[k], S, k)
  <2>1. EntryHolds(ops, s[k], S, k)
    BY DEF MapHolds
  <2> QED BY <2>1, EntryKept
<1> QED BY <1>3, <1>4 DEF MapHolds

LEMMA MapMerge ==
    ASSUME NEW ops, NEW S, NEW T, Stamped(ops, S \cup T),
           NEW s, MapHolds(ops, s, S), NEW t, MapHolds(ops, t, T)
    PROVE  MapHolds(ops, MergeMap(s, t), S \cup T)
<1>1. PICK r : r = MergeMap(s, t)
  OBVIOUS
<1>2. DOMAIN r = DOMAIN s \cup DOMAIN t /\ r = [k \in DOMAIN r |-> r[k]]
  BY <1>1 DEF MergeMap
<1>3. DOMAIN s = On(ops, S, "write") /\ DOMAIN t = On(ops, T, "write")
  BY DEF MapHolds
<1>4. DOMAIN r = On(ops, S \cup T, "write")
  BY <1>2, <1>3, OnOfUnion
<1>5. ASSUME NEW k \in DOMAIN r PROVE EntryHolds(ops, r[k], S \cup T, k)
  <2>1. r[k] = IF k \notin DOMAIN s THEN t[k]
               ELSE IF k \notin DOMAIN t THEN s[k] ELSE MergeRegister(s[k], t[k])
    BY <1>1, <1>2 DEF MergeMap
  <2>2. CASE k \notin DOMAIN s
    <3>1. Writes(ops, S, k) = {}
      BY <1>3, <2>2, KeysWritten
    <3>2. EntryHolds(ops, t[k], T, k)
      BY <1>2, <2>2 DEF MapHolds
    <3>3. EntryHolds(ops, t[k], T \cup S, k) /\ T \cup S = S \cup T
      BY <3>1, <3>2, EntryAlone
    <3> QED BY <2>1, <2>2, <3>3
  <2>3. CASE k \in DOMAIN s /\ k \notin DOMAIN t
    <3>1. Writes(ops, T, k) = {}
      BY <1>3, <2>3, KeysWritten
    <3>2. EntryHolds(ops, s[k], S, k)
      BY <2>3 DEF MapHolds
    <3>3. EntryHolds(ops, s[k], S \cup T, k)
      BY <3>1, <3>2, EntryAlone
    <3> QED BY <2>1, <2>3, <3>3
  <2>4. CASE k \in DOMAIN s /\ k \in DOMAIN t
    <3>1. EntryHolds(ops, s[k], S, k) /\ EntryHolds(ops, t[k], T, k)
      BY <2>4 DEF MapHolds
    <3>2. EntryHolds(ops, MergeRegister(s[k], t[k]), S \cup T, k)
      BY <3>1, EntryMerge
    <3> QED BY <2>1, <2>4, <3>2
  <2> QED BY <2>2, <2>3, <2>4
<1>6. MapHolds(ops, r, S \cup T)
  BY <1>2, <1>4, <1>5 DEF MapHolds
<1> QED BY <1>1, <1>6

\* What MapPut makes of a map.
Put(s, op) ==
    [j \in DOMAIN s \cup {op.on} |->
        IF j # op.on THEN s[j]
        ELSE IF op.on \in DOMAIN s THEN Written(s[op.on], op.arg, op.ts)
        ELSE EmptyRegister(op.by, op.arg, op.ts)]

LEMMA MapStep ==
    ASSUME NEW ops, NEW op, NEW more, Extends(ops, op, more), NEW S, Closed(ops, S), Typed(ops, S),
           IsWrite(op), NewStamp(ops, op, S), NEW s, MapHolds(ops, s, S)
    PROVE  MapHolds(more, Put(s, op), With(ops, S))
<1>1. PICK r : r = Put(s, op)
  OBVIOUS
<1>2. DOMAIN r = DOMAIN s \cup {op.on} /\ r = [k \in DOMAIN r |-> r[k]]
  BY <1>1 DEF Put
<1>3. Old(ops, S) /\ DOMAIN s = On(ops, S, "write")
  BY DEF Old, Closed, MapHolds
<1>4. DOMAIN r = On(more, With(ops, S), "write")
  <2>1. On(more, With(ops, S), "write")
          = IF op.kind = "write" THEN On(ops, S, "write") \cup {op.on} ELSE On(ops, S, "write")
    BY <1>3, OnOfMore
  <2> QED BY <1>2, <1>3, <2>1 DEF IsWrite
<1>5. ASSUME NEW k \in DOMAIN r PROVE EntryHolds(more, r[k], With(ops, S), k)
  <2>1. r[k] = IF k # op.on THEN s[k]
               ELSE IF op.on \in DOMAIN s THEN Written(s[op.on], op.arg, op.ts)
               ELSE EmptyRegister(op.by, op.arg, op.ts)
    BY <1>1, <1>2 DEF Put
  <2>2. CASE k # op.on
    <3>1. EntryHolds(ops, s[k], S, k)
      BY <1>2, <2>2 DEF MapHolds
    <3>2. EntryHolds(more, s[k], S, k)
      BY <1>3, <3>1, EntryKept
    <3>3. Writes(more, {Len(ops) + 1}, k) = {}
      BY <2>2 DEF Writes, Extends
    <3>4. EntryHolds(more, s[k], S \cup {Len(ops) + 1}, k)
      BY <3>2, <3>3, EntryAlone
    <3> QED BY <2>1, <2>2, <3>4 DEF With
  <2>3. CASE k = op.on /\ op.on \in DOMAIN s
    <3>1. EntryHolds(ops, s[k], S, op.on)
      BY <2>3 DEF MapHolds
    <3>2. EntryHolds(more, Written(s[k], op.arg, op.ts), With(ops, S), op.on)
      BY <3>1, EntryStep
    <3> QED BY <2>1, <2>3, <3>2
  <2>4. CASE k = op.on /\ op.on \notin DOMAIN s
    <3>1. EntryHolds(more, EmptyRegister(op.by, op.arg, op.ts), With(ops, S), op.on)
      BY <1>3, <2>4, EntryNew
    <3> QED BY <2>1, <2>4, <3>1
  <2> QED BY <2>2, <2>3, <2>4
<1>6. MapHolds(more, r, With(ops, S))
  BY <1>2, <1>4, <1>5 DEF MapHolds
<1> QED BY <1>1, <1>6


-----------------------------------------------------------------------------
(* All types.                                                               *)

\* The updates of a counter and of a version vector carry numbers.
LEMMA SeenAreNumbers ==
    ASSUME NEW type, NEW ops, History(type, ops), NEW S, Closed(ops, S)
    PROVE  /\ type \in {"GCounter", "CausalContext", "PNCounter"} => Counted(ops, S)
           /\ type = "DVV" => FromOne(ops, S)
           /\ Old(ops, S)
<1>1. ops \in Seq(Updates) /\ S \subseteq 1 .. Len(ops)
  BY DEF History, Closed
<1>2. ASSUME NEW i \in S PROVE Fits(type, ops[i])
  BY <1>1 DEF History
<1>3. CAmounts \cup {1} \subseteq Nat
  BY CNumbersAssumption
<1>4. ASSUME type \in {"GCounter", "CausalContext", "PNCounter"}, NEW i \in S PROVE ops[i].arg \in Nat
  BY <1>2, <1>3, <1>4 DEF Fits
<1>5. ASSUME type = "DVV", NEW i \in S PROVE ops[i].arg \in Nat \ {0}
  BY <1>2, <1>5 DEF Fits
<1> QED BY <1>1, <1>4, <1>5 DEF Counted, FromOne, Old

\* A state stands for the same updates in a longer history.
LEMMA HoldsKept ==
    ASSUME NEW type, NEW ops, NEW op, NEW more, Extends(ops, op, more), History(type, ops),
           NEW S, Closed(ops, S), NEW n, NEW s, Holds(type, ops, n, s, S)
    PROVE  Holds(type, more, n, s, S)
<1>1. /\ type \in {"GCounter", "CausalContext", "PNCounter"} => Counted(ops, S)
      /\ type = "DVV" => FromOne(ops, S)
      /\ Old(ops, S)
  BY SeenAreNumbers
<1>2. type = "GCounter" => CountsHold(more, s, S, "inc")
  BY <1>1, CountsKept DEF Holds
<1>3. type = "CausalContext" => ContextHolds(more, s, S)
  BY <1>1, ContextKept DEF Holds
<1>4. ASSUME type = "PNCounter" PROVE PNHolds(more, s, S)
  <2>1. PNHolds(ops, s, S) /\ Counted(ops, S)
    BY <1>1, <1>4 DEF Holds
  <2>2. CountsHold(ops, s.positive, S, "inc") /\ CountsHold(ops, s.negative, S, "dec")
    BY <2>1 DEF PNHolds
  <2>3. CountsHold(more, s.positive, S, "inc") /\ CountsHold(more, s.negative, S, "dec")
    BY <2>1, <2>2, CountsKept
  <2> QED BY <2>1, <2>3 DEF PNHolds
<1>5. type = "DVV" => DVVHolds(more, s, S)
  BY <1>1, DVVKept DEF Holds
<1>6. type = "GSet" => GSetHolds(more, s, S)
  BY <1>1, SetsKept DEF Holds
<1>7. type = "TwoPhaseSet" => TwoPhaseHolds(more, s, S)
  BY <1>1, SetsKept DEF Holds
<1>8. type = "ORSet" => ORHolds(more, s, S)
  BY <1>1, SetsKept DEF Holds
<1>9. type = "LWWRegister" => RegisterHolds(more, n, s, S)
  BY <1>1, RegisterKept DEF Holds
<1>10. type = "LWWMap" /\ type \notin CTies => MapHolds(more, s, S)
  BY <1>1, MapKept DEF Holds
<1> QED BY <1>2, <1>3, <1>4, <1>5, <1>6, <1>7, <1>8, <1>9, <1>10 DEF Holds

\* A merge of states stands for the union of the updates.
LEMMA HoldsMerge ==
    ASSUME NEW ops, History(cType, ops), cType \in CTypes,
           NEW S, Closed(ops, S), NEW T, Closed(ops, T),
           NEW n, NEW m, NEW s, Holds(cType, ops, n, s, S), NEW t, Holds(cType, ops, m, t, T)
    PROVE  Holds(cType, ops, n, Merged(s, t), S \cup T) /\ Closed(ops, S \cup T)
<1>1. /\ cType \in {"GCounter", "CausalContext", "PNCounter"} => Counted(ops, S) /\ Counted(ops, T)
      /\ cType = "DVV" => FromOne(ops, S) /\ FromOne(ops, T)
  BY SeenAreNumbers
<1>2. Closed(ops, S \cup T)
  BY DEF Closed
<1>3. CASE cType = "GCounter"
  <2>1. CountsHold(ops, s, S, "inc") /\ CountsHold(ops, t, T, "inc") /\ Counted(ops, S) /\ Counted(ops, T)
    BY <1>1, <1>3 DEF Holds
  <2>2. CountsHold(ops, MergeCounts(s, t), S \cup T, "inc")
    BY <2>1, CountsMerge
  <2>3. Merged(s, t) = MergeCounts(s, t)
    BY <1>3 DEF Merged
  <2> QED BY <1>2, <1>3, <2>2, <2>3 DEF Holds
<1>4. CASE cType = "CausalContext"
  <2>1. ContextHolds(ops, s, S) /\ ContextHolds(ops, t, T)
    BY <1>4 DEF Holds
  <2>2. ContextHolds(ops, MergeCounts(s, t), S \cup T)
    BY <2>1, ContextMerge
  <2>3. Merged(s, t) = MergeCounts(s, t)
    BY <1>4 DEF Merged
  <2> QED BY <1>2, <1>4, <2>2, <2>3 DEF Holds
<1>5. CASE cType = "PNCounter"
  <2>1. PNHolds(ops, s, S) /\ PNHolds(ops, t, T) /\ Counted(ops, S) /\ Counted(ops, T)
    BY <1>1, <1>5 DEF Holds
  <2>2. /\ CountsHold(ops, s.positive, S, "inc") /\ CountsHold(ops, t.positive, T, "inc")
        /\ CountsHold(ops, s.negative, S, "dec") /\ CountsHold(ops, t.negative, T, "dec")
    BY <2>1 DEF PNHolds
  <2>3. /\ CountsHold(ops, MergeCounts(s.positive, t.positive), S \cup T, "inc")
        /\ CountsHold(ops, MergeCounts(s.negative, t.negative), S \cup T, "dec")
    BY <2>1, <2>2, CountsMerge
  <2>4. PICK u, v : u = MergeCounts(s.positive, t.positive) /\ v = MergeCounts(s.negative, t.negative)
    OBVIOUS
  <2>5. Merged(s, t) = [positive |-> u, negative |-> v]
    BY <1>5, <2>4 DEF Merged
  <2>6. PNHolds(ops, [positive |-> u, negative |-> v], S \cup T)
    BY <2>3, <2>4 DEF PNHolds
  <2> QED BY <1>2, <1>5, <2>5, <2>6 DEF Holds
<1>6. CASE cType = "DVV"
  <2>1. DVVHolds(ops, s, S) /\ DVVHolds(ops, t, T)
    BY <1>6 DEF Holds
  <2>2. DVVHolds(ops, MergeDVV(s, t), S \cup T)
    BY <1>1, <1>6, <2>1, DVVMerge
  <2>3. Merged(s, t) = MergeDVV(s, t)
    BY <1>6 DEF Merged
  <2> QED BY <1>2, <1>6, <2>2, <2>3 DEF Holds
<1>7. CASE cType = "GSet"
  <2>1. GSetHolds(ops, s \cup t, S \cup T)
    BY <1>7 DEF Holds, GSetHolds
  <2>2. Merged(s, t) = s \cup t
    BY <1>7 DEF Merged
  <2> QED BY <1>2, <1>7, <2>1, <2>2 DEF Holds
<1>8. CASE cType = "TwoPhaseSet"
  <2>1. TwoPhaseHolds(ops, MergePairs(s, t), S \cup T)
    BY <1>8, TwoPhaseMerge DEF Holds
  <2>2. Merged(s, t) = MergePairs(s, t)
    BY <1>8 DEF Merged
  <2> QED BY <1>2, <1>8, <2>1, <2>2 DEF Holds
<1>9. CASE cType = "ORSet"
  <2>1. ORHolds(ops, MergePairs(s, t), S \cup T)
    BY <1>9, ORMerge DEF Holds
  <2>2. Merged(s, t) = MergePairs(s, t)
    BY <1>9 DEF Merged
  <2> QED BY <1>2, <1>9, <2>1, <2>2 DEF Holds
<1>10. CASE cType = "LWWRegister"
  <2>1. RegisterHolds(ops, n, MergeRegister(s, t), S \cup T)
    BY <1>10, RegisterMerge DEF Holds
  <2>2. Merged(s, t) = MergeRegister(s, t)
    BY <1>10 DEF Merged
  <2> QED BY <1>2, <1>10, <2>1, <2>2 DEF Holds
<1>11. CASE cType = "LWWMap" /\ cType \notin CTies
  <2>1. Stamped(ops, S \cup T)
    BY <1>2, <1>11, HistoryStamped
  <2>2. MapHolds(ops, MergeMap(s, t), S \cup T)
    BY <1>11, <2>1, MapMerge DEF Holds
  <2>3. Merged(s, t) = MergeMap(s, t)
    BY <1>11 DEF Merged
  <2> QED BY <1>2, <1>11, <2>2, <2>3 DEF Holds
<1>12. CASE cType = "LWWMap" /\ cType \in CTies
  BY <1>2, <1>12 DEF Holds
<1> QED BY <1>3, <1>4, <1>5, <1>6, <1>7, <1>8, <1>9, <1>10, <1>11, <1>12, CTypesAssumption

\* The empty states stand for no updates.
LEMMA HoldsAtStart ==
    ASSUME NEW type \in CTypes, NEW n \in CNodes
    PROVE  Holds(type, << >>, n, InitState(type, n), {})
<1> DEFINE none == << >>
<1>1. none \in Seq(Updates) /\ Len(none) = 0
  OBVIOUS
<1> HIDE DEF none
<1>2. ASSUME NEW kind PROVE CountsHold(none, NoCounts, {}, kind)
  <2>1. OfKind(none, {}, kind) = {}
    BY DEF OfKind
  <2>2. ASSUME NEW m PROVE By(none, {}, m) = {}
    BY DEF By
  <2>3. Weight(none, {}) = 0
    BY <1>1, NothingWeighsNothing
  <2>4. ByAuthor(none, {}) = NoCounts
    BY <2>2, <2>3 DEF ByAuthor, NoCounts
  <2> QED BY <2>1, <2>4 DEF CountsHold
<1>3. ContextHolds(none, NoCounts, {})
  <2>1. ASSUME NEW m PROVE Cardinality(By(none, {}, m)) = 0
    BY FS_EmptySet DEF By
  <2> QED BY <2>1 DEF ContextHolds, NoCounts
<1>4. PNHolds(none, [positive |-> NoCounts, negative |-> NoCounts], {})
  BY <1>2 DEF PNHolds
<1>5. DVVHolds(none, [clock |-> NoCounts, dots |-> {}], {})
  <2>1. PICK d : d = [clock |-> NoCounts, dots |-> {}]
    OBVIOUS
  <2>2. CausalPast(d) = {}
    BY <2>1 DEF CausalPast, NoCounts
  <2>3. DVVHolds(none, d, {})
    BY <2>1, <2>2 DEF DVVHolds, NoCounts
  <2> QED BY <2>1, <2>3
<1>6. GSetHolds(none, {}, {})
  BY DEF GSetHolds
<1>7. TwoPhaseHolds(none, [added |-> {}, removed |-> {}], {}) /\ ORHolds(none, [added |-> {}, removed |-> {}], {})
  BY DEF TwoPhaseHolds, ORHolds, On, Gone, OfKind
<1>8. RegisterHolds(none, n, EmptyRegister(n, CNull, 0), {})
  BY DEF RegisterHolds, EmptyRegister
<1>9. MapHolds(none, << >>, {})
  <2>1. DOMAIN << >> = {} /\ << >> = [k \in DOMAIN << >> |-> << >>[k]]
    OBVIOUS
  <2> QED BY <2>1 DEF MapHolds, On, OfKind
<1>10. Holds(type, none, n, InitState(type, n), {})
  BY <1>2, <1>3, <1>4, <1>5, <1>6, <1>7, <1>8, <1>9 DEF Holds, InitState
<1> QED BY <1>10 DEF none

LEMMA CInvAtStart == CInit => CInv
<1> SUFFICES ASSUME CInit PROVE CInv
  OBVIOUS
<1>1. History(cType, << >>)
  BY DEF History
<1>2. ASSUME NEW n \in CNodes
      PROVE  /\ cState[n] = InitState(cType, n) /\ cSeen[n] = {}
             /\ cSaved[n] = <<InitState(cType, n), {}>>
             /\ Closed(cOps, {}) /\ OwnSeen(n, cOps, {})
             /\ Holds(cType, cOps, n, InitState(cType, n), {})
  BY HoldsAtStart DEF CInit, Closed, OwnSeen
<1> QED BY <1>1, <1>2 DEF CInit, CInv

\* What an update asks of the history.
Additional(type, ops, op, S) ==
    /\ op \in Updates /\ Fits(type, op) /\ op.sees = S
    /\ type \notin CTies /\ type \in {"LWWRegister", "LWWMap"} =>
            \A j \in 1 .. Len(ops) : ops[j].ts # op.ts
    /\ type \notin CTies /\ type = "DVV" =>
            \A j \in 1 .. Len(ops) : ops[j].by = op.by => ops[j].arg # op.arg

LEMMA HistoryGrows ==
    ASSUME NEW type, NEW ops, History(type, ops), NEW op, NEW more, Extends(ops, op, more),
           NEW S, Closed(ops, S), OwnSeen(op.by, ops, S), Additional(type, ops, op, S)
    PROVE  History(type, more)
<1>1. /\ Len(ops) \in Nat /\ Len(more) = Len(ops) + 1 /\ more \in Seq(Updates)
      /\ \A i \in 1 .. Len(ops) : more[i] = ops[i]
  BY DEF Extends
<1>2. ASSUME NEW i \in 1 .. Len(more)
      PROVE  /\ Fits(type, more[i])
             /\ more[i].sees \subseteq 1 .. i - 1
             /\ \A j \in more[i].sees : more[j].sees \subseteq more[i].sees
             /\ \A j \in 1 .. i - 1 : more[j].by = more[i].by => j \in more[i].sees
             /\ type \notin CTies /\ type \in {"LWWRegister", "LWWMap"} =>
                    \A j \in 1 .. i - 1 : more[j].ts # more[i].ts
             /\ type \notin CTies /\ type = "DVV" =>
                    \A j \in 1 .. i - 1 : more[j].by = more[i].by => more[j].arg # more[i].arg
  <2>1. CASE i \in 1 .. Len(ops)
    <3>1. more[i] = ops[i] /\ \A j \in 1 .. i - 1 : more[j] = ops[j]
      BY <1>1, <2>1
    <3>2. ops[i].sees \subseteq 1 .. i - 1
      BY <2>1 DEF History
    <3> QED BY <2>1, <3>1, <3>2 DEF History
  <2>2. CASE i = Len(ops) + 1
    <3>1. more[i] = op /\ i - 1 = Len(ops) /\ \A j \in 1 .. Len(ops) : more[j] = ops[j]
      BY <1>1, <2>2 DEF Extends
    <3>2. op.sees = S /\ S \subseteq 1 .. Len(ops) /\ \A j \in S : ops[j].sees \subseteq S
      BY DEF Additional, Closed
    <3>3. \A j \in S : more[j].sees \subseteq S
      BY <3>1, <3>2
    <3> QED BY <3>1, <3>2, <3>3 DEF Additional, OwnSeen
  <2> QED BY <1>1, <2>1, <2>2
<1> QED BY <1>1, <1>2 DEF History

-----------------------------------------------------------------------------
(* The steps.                                                               *)

\* An update that is added to the history and to the state of its author.
LEMMA UpdateKeeps ==
    ASSUME CInv, NEW n \in CNodes, NEW kind, NEW on, NEW arg, NEW ts, NEW new,
           NEW op, op = [kind |-> kind, on |-> on, arg |-> arg, ts |-> ts,
                         by |-> n, sees |-> cSeen[n]],
           Additional(cType, cOps, op, cSeen[n]),
           Holds(cType, Append(cOps, op), n, new, With(cOps, cSeen[n])),
           Update(n, kind, on, arg, ts, new)
    PROVE  CInv'
<1>1. PICK more : more = Append(cOps, op)
  OBVIOUS
<1>2. /\ cType' = cType /\ cSaved' = cSaved /\ cOps' = more
      /\ cState' = [cState EXCEPT ![n] = new]
      /\ cSeen' = [cSeen EXCEPT ![n] = With(cOps, cSeen[n])]
  BY <1>1 DEF Update, With
<1>3. /\ History(cType, cOps) /\ cState = [m \in CNodes |-> cState[m]]
      /\ cSeen = [m \in CNodes |-> cSeen[m]] /\ cSaved = [m \in CNodes |-> cSaved[m]]
      /\ cType \in CTypes
  BY DEF CInv
<1>4. Extends(cOps, op, more)
  <2>1. cOps \in Seq(Updates) /\ op \in Updates
    BY <1>3 DEF History, Additional
  <2> QED BY <1>1, <2>1, AppendExtends
<1>5. Closed(cOps, cSeen[n]) /\ OwnSeen(op.by, cOps, cSeen[n]) /\ op.by = n /\ op.sees = cSeen[n]
  BY DEF CInv
<1>6. History(cType, more)
  BY <1>3, <1>4, <1>5, HistoryGrows
<1>7. /\ Len(cOps) \in Nat /\ Len(more) = Len(cOps) + 1 /\ more[Len(cOps) + 1] = op
      /\ \A i \in 1 .. Len(cOps) : more[i] = cOps[i]
  BY <1>4 DEF Extends
<1>8. ASSUME NEW S, Closed(cOps, S) PROVE Closed(more, S)
  BY <1>7, <1>8 DEF Closed
<1>9. Closed(more, With(cOps, cSeen[n])) /\ OwnSeen(n, more, With(cOps, cSeen[n]))
  <2>1. Closed(more, cSeen[n])
    BY <1>5, <1>8
  <2> QED BY <1>5, <1>7, <2>1 DEF Closed, OwnSeen, With
<1>10. ASSUME NEW m \in CNodes
       PROVE  /\ Closed(more, cSeen'[m]) /\ OwnSeen(m, more, cSeen'[m])
              /\ Closed(more, cSaved[m][2])
              /\ Holds(cType, more, m, cState'[m], cSeen'[m])
              /\ Holds(cType, more, m, cSaved[m][1], cSaved[m][2])
  <2>1. /\ Closed(cOps, cSeen[m]) /\ OwnSeen(m, cOps, cSeen[m]) /\ Closed(cOps, cSaved[m][2])
        /\ Holds(cType, cOps, m, cState[m], cSeen[m])
        /\ Holds(cType, cOps, m, cSaved[m][1], cSaved[m][2])
    BY DEF CInv
  <2>2. Closed(more, cSaved[m][2]) /\ Holds(cType, more, m, cSaved[m][1], cSaved[m][2])
    BY <1>3, <1>4, <1>8, <2>1, HoldsKept
  <2>3. CASE m = n
    <3>1. cState'[m] = new /\ cSeen'[m] = With(cOps, cSeen[n])
      BY <1>2, <1>3, <2>3
    <3> QED BY <1>1, <1>9, <2>2, <2>3, <3>1
  <2>4. CASE m # n
    <3>1. cState'[m] = cState[m] /\ cSeen'[m] = cSeen[m]
      BY <1>2, <1>3, <2>4
    <3>2. Closed(more, cSeen[m]) /\ Holds(cType, more, m, cState[m], cSeen[m])
      BY <1>3, <1>4, <1>8, <2>1, HoldsKept
    <3>3. OwnSeen(m, more, cSeen[m])
      BY <1>5, <1>7, <2>1, <2>4 DEF OwnSeen
    <3> QED BY <2>2, <3>1, <3>2, <3>3
  <2> QED BY <2>3, <2>4
<1>11. /\ cState' = [m \in CNodes |-> cState'[m]] /\ cSeen' = [m \in CNodes |-> cSeen'[m]]
       /\ cSaved' = [m \in CNodes |-> cSaved'[m]]
  BY <1>2, <1>3
<1> QED BY <1>2, <1>3, <1>6, <1>10, <1>11 DEF CInv

LEMMA ShipKeeps == ASSUME CInv, NEW n \in CNodes, Ship(n) PROVE CInv'
<1>1. /\ cSaved' = [cSaved EXCEPT ![n] = <<cState[n], cSeen[n]>>]
      /\ cType' = cType /\ cState' = cState /\ cOps' = cOps /\ cSeen' = cSeen
  BY DEF Ship
<1>2. cSaved = [m \in CNodes |-> cSaved[m]]
  BY DEF CInv
<1>3. ASSUME NEW m \in CNodes
      PROVE Closed(cOps, cSaved'[m][2]) /\ Holds(cType, cOps, m, cSaved'[m][1], cSaved'[m][2])
  BY <1>1, <1>2 DEF CInv
<1>4. cSaved' = [m \in CNodes |-> cSaved'[m]]
  BY <1>1, <1>2
<1> QED BY <1>1, <1>3, <1>4 DEF CInv

LEMMA MergeKeeps ==
    ASSUME CInv, NEW n \in CNodes, NEW m \in CNodes, Merge(n, m)
    PROVE  CInv'
<1>1. PICK new : new = Merged(cState[n], cSaved[m][1])
  OBVIOUS
<1>2. /\ cState = [k \in CNodes |-> cState[k]] /\ cSeen = [k \in CNodes |-> cSeen[k]]
      /\ History(cType, cOps) /\ cType \in CTypes
  BY DEF CInv
<1>3. /\ cState' = [cState EXCEPT ![n] = new]
      /\ cSeen' = [cSeen EXCEPT ![n] = cSeen[n] \cup cSaved[m][2]]
      /\ cType' = cType /\ cSaved' = cSaved /\ cOps' = cOps
  BY <1>1, <1>2 DEF Merge
<1>4. /\ Closed(cOps, cSeen[n]) /\ Closed(cOps, cSaved[m][2]) /\ OwnSeen(n, cOps, cSeen[n])
      /\ Holds(cType, cOps, n, cState[n], cSeen[n])
      /\ Holds(cType, cOps, m, cSaved[m][1], cSaved[m][2])
  BY DEF CInv
<1>5. /\ Holds(cType, cOps, n, new, cSeen[n] \cup cSaved[m][2])
      /\ Closed(cOps, cSeen[n] \cup cSaved[m][2])
  BY <1>1, <1>2, <1>4, HoldsMerge
<1>6. OwnSeen(n, cOps, cSeen[n] \cup cSaved[m][2])
  BY <1>4 DEF OwnSeen
<1>7. ASSUME NEW k \in CNodes
      PROVE  /\ Closed(cOps, cSeen'[k]) /\ OwnSeen(k, cOps, cSeen'[k])
             /\ Holds(cType, cOps, k, cState'[k], cSeen'[k])
  <2>1. CASE k = n
    <3>1. cState'[k] = new /\ cSeen'[k] = cSeen[n] \cup cSaved[m][2]
      BY <1>2, <1>3, <2>1
    <3> QED BY <1>5, <1>6, <2>1, <3>1
  <2>2. CASE k # n
    <3>1. cState'[k] = cState[k] /\ cSeen'[k] = cSeen[k]
      BY <1>2, <1>3, <2>2
    <3> QED BY <3>1 DEF CInv
  <2> QED BY <2>1, <2>2
<1>8. cState' = [k \in CNodes |-> cState'[k]] /\ cSeen' = [k \in CNodes |-> cSeen'[k]]
  BY <1>2, <1>3
<1> QED BY <1>3, <1>7, <1>8 DEF CInv

\* The history and the author's state, before an update op.
LEMMA Before ==
    ASSUME CInv, NEW n \in CNodes
    PROVE  /\ cOps \in Seq(Updates) /\ History(cType, cOps)
           /\ Closed(cOps, cSeen[n]) /\ Old(cOps, cSeen[n]) /\ cSeen[n] \in SUBSET Nat
           /\ Holds(cType, cOps, n, cState[n], cSeen[n])
           /\ \A op \in Updates : Extends(cOps, op, Append(cOps, op))
<1>1. cOps \in Seq(Updates) /\ History(cType, cOps)
  BY DEF CInv, History
<1>2. Closed(cOps, cSeen[n])
  BY DEF CInv
<1>3. cSeen[n] \subseteq 1 .. Len(cOps) /\ 1 .. Len(cOps) \subseteq Nat
  BY <1>1, <1>2 DEF Closed
<1>4. \A op \in Updates : Extends(cOps, op, Append(cOps, op))
  BY <1>1, AppendExtends
<1> QED BY <1>1, <1>2, <1>3, <1>4 DEF CInv, Old

LEMMA CounterIncrementKeeps ==
    ASSUME CInv, NEW n \in CNodes, NEW v \in CAmounts, CounterIncrement(n, v) PROVE CInv'
<1>1. PICK op : op = [kind |-> "inc", on |-> CNull, arg |-> v, ts |-> 0, by |-> n, sees |-> cSeen[n]]
  OBVIOUS
<1>2. v \in Nat /\ cType = "GCounter" /\ Update(n, "inc", CNull, v, 0, [cState[n] EXCEPT ![n] = @ + v])
  BY CNumbersAssumption DEF CounterIncrement
<1>3. op \in Updates /\ Additional(cType, cOps, op, cSeen[n])
  BY <1>1, <1>2, Before DEF Updates, Additional, Fits
<1>4. CountsHold(cOps, cState[n], cSeen[n], op.kind) /\ Counted(cOps, cSeen[n]) /\ op.kind = "inc"
  BY <1>1, <1>2, Before, SeenAreNumbers DEF Holds
<1>5. op.by = n /\ op.arg = v /\ Extends(cOps, op, Append(cOps, op))
  BY <1>1, <1>3, Before
<1>6. CountsHold(Append(cOps, op), [cState[n] EXCEPT ![op.by] = @ + op.arg], With(cOps, cSeen[n]), op.kind)
  BY <1>2, <1>4, <1>5, CountsStep
<1>7. Holds(cType, Append(cOps, op), n, [cState[n] EXCEPT ![n] = @ + v], With(cOps, cSeen[n]))
  BY <1>2, <1>4, <1>5, <1>6 DEF Holds
<1> QED BY <1>1, <1>2, <1>3, <1>7, UpdateKeeps

LEMMA ContextIncrementKeeps ==
    ASSUME CInv, NEW n \in CNodes, ContextIncrement(n) PROVE CInv'
<1>1. PICK op : op = [kind |-> "inc", on |-> CNull, arg |-> 1, ts |-> 0, by |-> n, sees |-> cSeen[n]]
  OBVIOUS
<1>2. cType = "CausalContext" /\ Update(n, "inc", CNull, 1, 0, [cState[n] EXCEPT ![n] = @ + 1])
  BY DEF ContextIncrement
<1>3. op \in Updates /\ Additional(cType, cOps, op, cSeen[n])
  BY <1>1, <1>2, Before DEF Updates, Additional, Fits
<1>4. ContextHolds(cOps, cState[n], cSeen[n]) /\ op.by = n /\ Extends(cOps, op, Append(cOps, op))
  BY <1>1, <1>2, <1>3, Before DEF Holds
<1>5. ContextHolds(Append(cOps, op), [cState[n] EXCEPT ![op.by] = @ + 1], With(cOps, cSeen[n]))
  BY <1>4, Before, ContextStep
<1>6. Holds(cType, Append(cOps, op), n, [cState[n] EXCEPT ![n] = @ + 1], With(cOps, cSeen[n]))
  BY <1>2, <1>4, <1>5 DEF Holds
<1> QED BY <1>1, <1>2, <1>3, <1>6, UpdateKeeps

\* An entry of a counter in a record changes as if on its own.
LEMMA CounterInRecord ==
    ASSUME NEW s, s = [positive |-> s.positive, negative |-> s.negative], NEW n, NEW v
    PROVE  /\ [s EXCEPT !.positive[n] = @ + v]
                = [positive |-> [s.positive EXCEPT ![n] = @ + v], negative |-> s.negative]
           /\ [s EXCEPT !.negative[n] = @ + v]
                = [positive |-> s.positive, negative |-> [s.negative EXCEPT ![n] = @ + v]]
<1>1. PICK p, q : p = s.positive /\ q = s.negative
  OBVIOUS
<1>2. PICK u, w : u = [p EXCEPT ![n] = @ + v] /\ w = [q EXCEPT ![n] = @ + v]
  OBVIOUS
<1>3. s = [positive |-> p, negative |-> q]
  BY <1>1
<1>4. [s EXCEPT !.positive[n] = @ + v] = [s EXCEPT !.positive = [s.positive EXCEPT ![n] = @ + v]]
  OBVIOUS
<1>5. [s EXCEPT !.negative[n] = @ + v] = [s EXCEPT !.negative = [s.negative EXCEPT ![n] = @ + v]]
  OBVIOUS
<1>6. [s EXCEPT !.positive = u] = [positive |-> u, negative |-> q]
  BY <1>3
<1>7. [s EXCEPT !.negative = w] = [positive |-> p, negative |-> w]
  BY <1>3
<1> QED BY <1>1, <1>2, <1>4, <1>5, <1>6, <1>7

LEMMA PNIncrementKeeps ==
    ASSUME CInv, NEW n \in CNodes, NEW v \in CAmounts, PNIncrement(n, v) PROVE CInv'
<1>1. PICK op : op = [kind |-> "inc", on |-> CNull, arg |-> v, ts |-> 0, by |-> n, sees |-> cSeen[n]]
  OBVIOUS
<1>2. PICK new : new = [cState[n] EXCEPT !.positive[n] = @ + v]
  OBVIOUS
<1>3. v \in Nat /\ cType = "PNCounter" /\ Update(n, "inc", CNull, v, 0, new)
  BY <1>2, CNumbersAssumption DEF PNIncrement
<1>4. op \in Updates /\ Additional(cType, cOps, op, cSeen[n])
  BY <1>1, <1>3, Before DEF Updates, Additional, Fits
<1>5. /\ op.by = n /\ op.arg = v /\ op.kind = "inc" /\ op.kind # "dec"
      /\ Extends(cOps, op, Append(cOps, op))
  BY <1>1, <1>4, Before
<1>6. PICK p, q : p = cState[n].positive /\ q = cState[n].negative
  OBVIOUS
<1>7. /\ cState[n] = [positive |-> cState[n].positive, negative |-> cState[n].negative]
      /\ CountsHold(cOps, p, cSeen[n], "inc") /\ CountsHold(cOps, q, cSeen[n], "dec")
      /\ Counted(cOps, cSeen[n])
  BY <1>3, <1>6, Before, SeenAreNumbers DEF Holds, PNHolds
<1>8. PICK u : u = [p EXCEPT ![op.by] = @ + op.arg]
  OBVIOUS
<1>9. CountsHold(Append(cOps, op), u, With(cOps, cSeen[n]), "inc")
  <2>1. CountsHold(cOps, p, cSeen[n], op.kind)
    BY <1>5, <1>7
  <2>2. CountsHold(Append(cOps, op), [p EXCEPT ![op.by] = @ + op.arg], With(cOps, cSeen[n]), op.kind)
    BY <1>3, <1>5, <1>7, <2>1, CountsStep
  <2> QED BY <1>5, <1>8, <2>2
<1>10. CountsHold(Append(cOps, op), q, With(cOps, cSeen[n]), "dec")
  BY <1>5, <1>7, CountsKept
<1>11. new = [positive |-> u, negative |-> q]
  BY <1>2, <1>5, <1>6, <1>7, <1>8, CounterInRecord
<1>12. PNHolds(Append(cOps, op), new, With(cOps, cSeen[n]))
  BY <1>9, <1>10, <1>11 DEF PNHolds
<1>13. Holds(cType, Append(cOps, op), n, new, With(cOps, cSeen[n]))
  BY <1>3, <1>12 DEF Holds
<1> QED BY <1>1, <1>3, <1>4, <1>13, UpdateKeeps

LEMMA PNDecrementKeeps ==
    ASSUME CInv, NEW n \in CNodes, NEW v \in CAmounts, PNDecrement(n, v) PROVE CInv'
<1>1. PICK op : op = [kind |-> "dec", on |-> CNull, arg |-> v, ts |-> 0, by |-> n, sees |-> cSeen[n]]
  OBVIOUS
<1>2. PICK new : new = [cState[n] EXCEPT !.negative[n] = @ + v]
  OBVIOUS
<1>3. v \in Nat /\ cType = "PNCounter" /\ Update(n, "dec", CNull, v, 0, new)
  BY <1>2, CNumbersAssumption DEF PNDecrement
<1>4. op \in Updates /\ Additional(cType, cOps, op, cSeen[n])
  BY <1>1, <1>3, Before DEF Updates, Additional, Fits
<1>5. /\ op.by = n /\ op.arg = v /\ op.kind = "dec" /\ op.kind # "inc"
      /\ Extends(cOps, op, Append(cOps, op))
  BY <1>1, <1>4, Before
<1>6. PICK p, q : p = cState[n].positive /\ q = cState[n].negative
  OBVIOUS
<1>7. /\ cState[n] = [positive |-> cState[n].positive, negative |-> cState[n].negative]
      /\ CountsHold(cOps, p, cSeen[n], "inc") /\ CountsHold(cOps, q, cSeen[n], "dec")
      /\ Counted(cOps, cSeen[n])
  BY <1>3, <1>6, Before, SeenAreNumbers DEF Holds, PNHolds
<1>8. PICK u : u = [q EXCEPT ![op.by] = @ + op.arg]
  OBVIOUS
<1>9. CountsHold(Append(cOps, op), u, With(cOps, cSeen[n]), "dec")
  <2>1. CountsHold(cOps, q, cSeen[n], op.kind)
    BY <1>5, <1>7
  <2>2. CountsHold(Append(cOps, op), [q EXCEPT ![op.by] = @ + op.arg], With(cOps, cSeen[n]), op.kind)
    BY <1>3, <1>5, <1>7, <2>1, CountsStep
  <2> QED BY <1>5, <1>8, <2>2
<1>10. CountsHold(Append(cOps, op), p, With(cOps, cSeen[n]), "inc")
  BY <1>5, <1>7, CountsKept
<1>11. new = [positive |-> p, negative |-> u]
  BY <1>2, <1>5, <1>6, <1>7, <1>8, CounterInRecord
<1>12. PNHolds(Append(cOps, op), new, With(cOps, cSeen[n]))
  BY <1>9, <1>10, <1>11 DEF PNHolds
<1>13. Holds(cType, Append(cOps, op), n, new, With(cOps, cSeen[n]))
  BY <1>3, <1>12 DEF Holds
<1> QED BY <1>1, <1>3, <1>4, <1>13, UpdateKeeps

LEMMA DVVIncrementKeeps ==
    ASSUME CInv, NEW n \in CNodes, NEW ts \in CJumps, DVVIncrement(n, ts) PROVE CInv'
<1>1. cType = "DVV"
  BY DEF DVVIncrement
<1>2. DVVHolds(cOps, cState[n], cSeen[n]) /\ FromOne(cOps, cSeen[n])
  BY <1>1, Before, SeenAreNumbers DEF Holds
<1>3. PICK current \in Nat : current = cState[n].clock[n]
  BY <1>2 DEF DVVHolds
<1>4. ts \in Nat
  BY CNumbersAssumption
<1>5. PICK arg : arg = IF ts = 0 THEN current + 1 ELSE ts
  OBVIOUS
<1>6. arg \in Nat
  BY <1>3, <1>4, <1>5
<1>7. PICK op : op = [kind |-> "inc", on |-> CNull, arg |-> arg, ts |-> ts, by |-> n, sees |-> cSeen[n]]
  OBVIOUS
<1>8. PICK new : new = Incremented(cState[n], n, arg)
  OBVIOUS
<1>9. /\ arg > current
      /\ cType \in CTies \/ \A i \in 1 .. Len(cOps) : cOps[i].by = n => cOps[i].arg # arg
      /\ Update(n, "inc", CNull, arg, ts, new)
  BY <1>3, <1>5, <1>8 DEF DVVIncrement, Incremented
<1>10. arg \in Nat \ {0}
  BY <1>3, <1>6, <1>9
<1>11. op \in Updates /\ Additional(cType, cOps, op, cSeen[n])
  BY <1>1, <1>4, <1>7, <1>9, <1>10, Before DEF Updates, Additional, Fits
<1>12. op.by = n /\ op.arg = arg /\ Extends(cOps, op, Append(cOps, op))
  BY <1>7, <1>11, Before
<1>13. op.arg \in Nat /\ op.arg > cState[n].clock[op.by]
  BY <1>3, <1>6, <1>9, <1>12
<1>14. DVVHolds(Append(cOps, op), Incremented(cState[n], op.by, op.arg), With(cOps, cSeen[n]))
  BY <1>2, <1>12, <1>13, DVVStep
<1>15. Holds(cType, Append(cOps, op), n, new, With(cOps, cSeen[n]))
  BY <1>1, <1>8, <1>12, <1>14 DEF Holds
<1> QED BY <1>7, <1>9, <1>11, <1>15, UpdateKeeps

LEMMA GSetAddKeeps ==
    ASSUME CInv, NEW n \in CNodes, NEW e \in CElements, GSetAdd(n, e) PROVE CInv'
<1>1. PICK op : op = [kind |-> "add", on |-> e, arg |-> 1, ts |-> 0, by |-> n, sees |-> cSeen[n]]
  OBVIOUS
<1>2. cType = "GSet" /\ Update(n, "add", e, 1, 0, cState[n] \cup {e})
  BY DEF GSetAdd
<1>3. op \in Updates /\ Additional(cType, cOps, op, cSeen[n])
  BY <1>1, <1>2, Before DEF Updates, Additional, Fits
<1>4. GSetHolds(cOps, cState[n], cSeen[n]) /\ op.on = e /\ Extends(cOps, op, Append(cOps, op))
  BY <1>1, <1>2, <1>3, Before DEF Holds
<1>5. GSetHolds(Append(cOps, op), cState[n] \cup {op.on}, With(cOps, cSeen[n]))
  BY <1>4, Before, GSetStep
<1>6. Holds(cType, Append(cOps, op), n, cState[n] \cup {e}, With(cOps, cSeen[n]))
  BY <1>2, <1>4, <1>5 DEF Holds
<1> QED BY <1>1, <1>2, <1>3, <1>6, UpdateKeeps

LEMMA TwoPhaseAddKeeps ==
    ASSUME CInv, NEW n \in CNodes, NEW e \in CElements, TwoPhaseAdd(n, e) PROVE CInv'
<1>1. PICK op : op = [kind |-> "add", on |-> e, arg |-> 1, ts |-> 0, by |-> n, sees |-> cSeen[n]]
  OBVIOUS
<1>2. PICK new : new = IF e \in cState[n].removed THEN cState[n]
                       ELSE [cState[n] EXCEPT !.added = @ \cup {e}]
  OBVIOUS
<1>3. cType = "TwoPhaseSet" /\ Update(n, "add", e, 1, 0, new)
  BY <1>2 DEF TwoPhaseAdd
<1>4. op \in Updates /\ Additional(cType, cOps, op, cSeen[n])
  BY <1>1, <1>3, Before DEF Updates, Additional, Fits
<1>5. /\ TwoPhaseHolds(cOps, cState[n], cSeen[n]) /\ op.on = e /\ op.kind = "add"
      /\ Extends(cOps, op, Append(cOps, op))
  BY <1>1, <1>3, <1>4, Before DEF Holds
<1>6. TwoPhaseHolds(Append(cOps, op), new, With(cOps, cSeen[n]))
  BY <1>2, <1>5, Before, TwoPhaseStep
<1>7. Holds(cType, Append(cOps, op), n, new, With(cOps, cSeen[n]))
  BY <1>3, <1>6 DEF Holds
<1> QED BY <1>1, <1>3, <1>4, <1>7, UpdateKeeps

LEMMA TwoPhaseRemoveKeeps ==
    ASSUME CInv, NEW n \in CNodes, NEW e \in CElements, TwoPhaseRemove(n, e) PROVE CInv'
<1>1. PICK op : op = [kind |-> "remove", on |-> e, arg |-> 1, ts |-> 0, by |-> n, sees |-> cSeen[n]]
  OBVIOUS
<1>2. PICK new : new = [cState[n] EXCEPT !.removed = @ \cup {e}]
  OBVIOUS
<1>3. cType = "TwoPhaseSet" /\ Update(n, "remove", e, 1, 0, new)
  BY <1>2 DEF TwoPhaseRemove
<1>4. op \in Updates /\ Additional(cType, cOps, op, cSeen[n])
  BY <1>1, <1>3, Before DEF Updates, Additional, Fits
<1>5. /\ TwoPhaseHolds(cOps, cState[n], cSeen[n]) /\ op.on = e /\ op.kind = "remove"
      /\ Extends(cOps, op, Append(cOps, op))
  BY <1>1, <1>3, <1>4, Before DEF Holds
<1>6. TwoPhaseHolds(Append(cOps, op), new, With(cOps, cSeen[n]))
  BY <1>2, <1>5, Before, TwoPhaseStep
<1>7. Holds(cType, Append(cOps, op), n, new, With(cOps, cSeen[n]))
  BY <1>3, <1>6 DEF Holds
<1> QED BY <1>1, <1>3, <1>4, <1>7, UpdateKeeps

LEMMA ORAddKeeps ==
    ASSUME CInv, NEW n \in CNodes, NEW e \in CElements, ORAdd(n, e) PROVE CInv'
<1>1. PICK op : op = [kind |-> "add", on |-> e, arg |-> 1, ts |-> 0, by |-> n, sees |-> cSeen[n]]
  OBVIOUS
<1>2. PICK new : new = [cState[n] EXCEPT !.added = @ \cup {<<e, Len(cOps) + 1>>}]
  OBVIOUS
<1>3. cType = "ORSet" /\ Update(n, "add", e, 1, 0, new)
  BY <1>2 DEF ORAdd
<1>4. op \in Updates /\ Additional(cType, cOps, op, cSeen[n])
  BY <1>1, <1>3, Before DEF Updates, Additional, Fits
<1>5. /\ ORHolds(cOps, cState[n], cSeen[n]) /\ op.on = e /\ op.kind = "add" /\ op.sees = cSeen[n]
      /\ Extends(cOps, op, Append(cOps, op)) /\ Closed(cOps, cSeen[n])
  BY <1>1, <1>3, <1>4, Before DEF Holds
<1>6. \A i \in 1 .. Len(cOps) : cOps[i].sees \subseteq 1 .. i - 1
  BY Before DEF History
<1>7. ORHolds(Append(cOps, op), new, With(cOps, cSeen[n]))
  BY <1>2, <1>5, <1>6, ORStep
<1>8. Holds(cType, Append(cOps, op), n, new, With(cOps, cSeen[n]))
  BY <1>3, <1>7 DEF Holds
<1> QED BY <1>1, <1>3, <1>4, <1>8, UpdateKeeps

LEMMA ORRemoveKeeps ==
    ASSUME CInv, NEW n \in CNodes, NEW e \in CElements, ORRemove(n, e) PROVE CInv'
<1>1. PICK op : op = [kind |-> "remove", on |-> e, arg |-> 1, ts |-> 0, by |-> n, sees |-> cSeen[n]]
  OBVIOUS
<1>2. PICK new : new = [cState[n] EXCEPT !.removed = @ \cup Observed(cState[n], e)]
  OBVIOUS
<1>3. cType = "ORSet" /\ Update(n, "remove", e, 1, 0, new)
  BY <1>2 DEF ORRemove
<1>4. op \in Updates /\ Additional(cType, cOps, op, cSeen[n])
  BY <1>1, <1>3, Before DEF Updates, Additional, Fits
<1>5. /\ ORHolds(cOps, cState[n], cSeen[n]) /\ op.on = e /\ op.kind = "remove" /\ op.sees = cSeen[n]
      /\ Extends(cOps, op, Append(cOps, op)) /\ Closed(cOps, cSeen[n])
  BY <1>1, <1>3, <1>4, Before DEF Holds
<1>6. \A i \in 1 .. Len(cOps) : cOps[i].sees \subseteq 1 .. i - 1
  BY Before DEF History
<1>7. ORHolds(Append(cOps, op), new, With(cOps, cSeen[n]))
  BY <1>2, <1>5, <1>6, ORStep
<1>8. Holds(cType, Append(cOps, op), n, new, With(cOps, cSeen[n]))
  BY <1>3, <1>7 DEF Holds
<1> QED BY <1>1, <1>3, <1>4, <1>8, UpdateKeeps

LEMMA RegisterWriteKeeps ==
    ASSUME CInv, NEW n \in CNodes, NEW ts \in Stamps, RegisterWrite(n, Fresh, ts) PROVE CInv'
<1>1. PICK arg : arg = Fresh
  OBVIOUS
<1>2. arg \in Nat /\ ts \in Nat \ {0}
  BY <1>1, Before, CNumbersAssumption DEF Fresh, Stamps
<1>3. PICK op : op = [kind |-> "write", on |-> CNull, arg |-> arg, ts |-> ts, by |-> n, sees |-> cSeen[n]]
  OBVIOUS
<1>4. PICK new : new = Written(cState[n], arg, ts)
  OBVIOUS
<1>5. cType = "LWWRegister" /\ MayStamp(ts) /\ Update(n, "write", CNull, arg, ts, new)
  BY <1>1, <1>4 DEF RegisterWrite
<1>6. op \in Updates /\ Additional(cType, cOps, op, cSeen[n])
  BY <1>2, <1>3, <1>5, Before DEF Updates, Additional, Fits, MayStamp
<1>7. /\ RegisterHolds(cOps, n, cState[n], cSeen[n]) /\ Extends(cOps, op, Append(cOps, op))
      /\ History("LWWRegister", cOps) /\ Closed(cOps, cSeen[n])
      /\ op.by = n /\ op.kind = "write" /\ op.on = CNull /\ op.ts # 0 /\ op.ts = ts /\ op.arg = arg
  BY <1>2, <1>3, <1>5, <1>6, Before DEF Holds
<1>8. RegisterHolds(Append(cOps, op), op.by, Written(cState[n], op.arg, op.ts), With(cOps, cSeen[n]))
  BY <1>7, RegisterStep
<1>9. Holds(cType, Append(cOps, op), n, new, With(cOps, cSeen[n]))
  BY <1>4, <1>5, <1>7, <1>8 DEF Holds
<1> QED BY <1>3, <1>5, <1>6, <1>9, UpdateKeeps

LEMMA MapPutKeeps ==
    ASSUME CInv, NEW n \in CNodes, NEW k \in CKeys, NEW v \in {Fresh, CNull},
           NEW ts \in Stamps, MapPut(n, k, v, ts)
    PROVE  CInv'
<1>1. Fresh \in Nat
  BY Before DEF Fresh
<1>2. v \in Nat \cup {CNull} /\ ts \in Nat \ {0}
  BY <1>1, CNumbersAssumption DEF Stamps
<1>3. PICK op : op = [kind |-> "write", on |-> k, arg |-> v, ts |-> ts, by |-> n, sees |-> cSeen[n]]
  OBVIOUS
<1>4. PICK new : new = Put(cState[n], op)
  OBVIOUS
<1>5. new = [j \in DOMAIN cState[n] \cup {k} |->
                  IF j # k THEN cState[n][j]
                  ELSE IF k \in DOMAIN cState[n] THEN Written(cState[n][k], v, ts)
                  ELSE EmptyRegister(n, v, ts)]
  BY <1>3, <1>4 DEF Put
<1>6. cType = "LWWMap" /\ MayStamp(ts) /\ Update(n, "write", k, v, ts, new)
  BY <1>5 DEF MapPut
<1>7. op \in Updates /\ Additional(cType, cOps, op, cSeen[n])
  BY <1>2, <1>3, <1>6, Before DEF Updates, Additional, Fits, MayStamp
<1>8. Extends(cOps, op, Append(cOps, op)) /\ Closed(cOps, cSeen[n]) /\ IsWrite(op)
  BY <1>3, <1>7, Before DEF IsWrite
<1>9. Typed(cOps, cSeen[n])
  BY Before, HistoryTyped
<1>10. ASSUME cType \notin CTies PROVE MapHolds(Append(cOps, op), new, With(cOps, cSeen[n]))
  <2>1. MapHolds(cOps, cState[n], cSeen[n])
    BY <1>6, <1>10, Before DEF Holds
  <2>2. NewStamp(cOps, op, cSeen[n])
    BY <1>3, <1>6, <1>8, <1>10 DEF MayStamp, NewStamp, Closed
  <2> QED BY <1>4, <1>8, <1>9, <2>1, <2>2, MapStep
<1>11. Holds(cType, Append(cOps, op), n, new, With(cOps, cSeen[n]))
  BY <1>6, <1>10 DEF Holds
<1> QED BY <1>3, <1>6, <1>7, <1>11, UpdateKeeps

\* Every state of a replica, and every state it has shipped, stands for the
\* updates that reached it, whatever the order of the merges, their repetition
\* and the age of what is merged (merge and the updates of each class).
THEOREM StatesStandForHistories == CSpec => []CInv
<1>1. CInit => CInv
  BY CInvAtStart
<1>2. CInv /\ [CNext]_cVars => CInv'
  <2> SUFFICES ASSUME CInv, [CNext]_cVars PROVE CInv'
    OBVIOUS
  <2>1. CASE UNCHANGED cVars
    BY <2>1 DEF cVars, CInv
  <2>2. CASE CNext
    <3>1. PICK n \in CNodes :
             \/ \E v \in CAmounts : CounterIncrement(n, v) \/ PNIncrement(n, v)
                                  \/ PNDecrement(n, v)
             \/ ContextIncrement(n)
             \/ \E ts \in CJumps : DVVIncrement(n, ts)
             \/ \E e \in CElements : GSetAdd(n, e) \/ TwoPhaseAdd(n, e)
                                     \/ TwoPhaseRemove(n, e) \/ ORAdd(n, e)
                                     \/ ORRemove(n, e)
             \/ \E ts \in Stamps : RegisterWrite(n, Fresh, ts)
             \/ \E k \in CKeys, v \in {Fresh, CNull}, ts \in Stamps : MapPut(n, k, v, ts)
             \/ Ship(n)
             \/ \E m \in CNodes : Merge(n, m)
      BY <2>2 DEF CNext
    <3>2. ASSUME NEW v \in CAmounts, CounterIncrement(n, v) \/ PNIncrement(n, v) \/ PNDecrement(n, v)
          PROVE  CInv'
      BY <3>2, CounterIncrementKeeps, PNIncrementKeeps, PNDecrementKeeps
    <3>3. ContextIncrement(n) => CInv'
      BY ContextIncrementKeeps
    <3>4. ASSUME NEW ts \in CJumps, DVVIncrement(n, ts) PROVE CInv'
      BY <3>4, DVVIncrementKeeps
    <3>5. ASSUME NEW e \in CElements,
                 GSetAdd(n, e) \/ TwoPhaseAdd(n, e) \/ TwoPhaseRemove(n, e) \/ ORAdd(n, e) \/ ORRemove(n, e)
          PROVE  CInv'
      BY <3>5, GSetAddKeeps, TwoPhaseAddKeeps, TwoPhaseRemoveKeeps, ORAddKeeps, ORRemoveKeeps
    <3>6. ASSUME NEW ts \in Stamps, RegisterWrite(n, Fresh, ts) PROVE CInv'
      BY <3>6, RegisterWriteKeeps
    <3>7. ASSUME NEW k \in CKeys, NEW v \in {Fresh, CNull}, NEW ts \in Stamps, MapPut(n, k, v, ts) PROVE CInv'
      BY <3>7, MapPutKeeps
    <3>8. Ship(n) => CInv'
      BY ShipKeeps
    <3>9. ASSUME NEW m \in CNodes, Merge(n, m) PROVE CInv'
      BY <3>9, MergeKeeps
    <3> QED BY <3>1, <3>2, <3>3, <3>4, <3>5, <3>6, <3>7, <3>8, <3>9
  <2> QED BY <2>1, <2>2
<1> QED BY <1>1, <1>2, PTL DEF CSpec

-----------------------------------------------------------------------------
(* Answers.                                                                 *)

LEMMA AmountIsWeight ==
    ASSUME NEW S, NEW kind PROVE Amount(S, kind) = Weight(cOps, OfKind(cOps, S, kind))
BY DEF Amount, Weight, Weights, Kind, OfKind

LEMMA TotalIsAmount ==
    ASSUME NEW S, Counted(cOps, S), NEW kind, NEW s, CountsHold(cOps, s, S, kind)
    PROVE  Total(s) = Amount(S, kind)
<1>1. Counted(cOps, OfKind(cOps, S, kind))
  BY DEF Counted, OfKind
<1>2. Total(ByAuthor(cOps, OfKind(cOps, S, kind))) = Weight(cOps, OfKind(cOps, S, kind))
  BY <1>1, AuthorsWeighAll
<1> QED BY <1>2, AmountIsWeight DEF CountsHold

\* The pairs that stand are those of the additions no removal had seen.
LEMMA PairsAnswer ==
    ASSUME NEW S, NEW s, ORHolds(cOps, s, S)
    PROVE  PairsValue(s) = {cOps[i].on : i \in Standing(S)}
<1>1. PICK A : A = OfKind(cOps, S, "add")
  OBVIOUS
<1>2. PICK G : G = Gone(cOps, S)
  OBVIOUS
<1>3. Standing(S) = A \ G
  BY <1>1, <1>2 DEF Standing, Gone, Kind, OfKind
<1>4. s.added = {<<cOps[i].on, i>> : i \in A} /\ s.removed = {<<cOps[i].on, i>> : i \in G}
  BY <1>1, <1>2 DEF ORHolds
<1>5. s.added \ s.removed = {<<cOps[i].on, i>> : i \in A \ G}
  BY <1>4
<1>6. {p[1] : p \in {<<cOps[i].on, i>> : i \in A \ G}} = {cOps[i].on : i \in A \ G}
  <2>1. PICK L, R, P : /\ P = {<<cOps[i].on, i>> : i \in A \ G}
                       /\ L = {p[1] : p \in P} /\ R = {cOps[i].on : i \in A \ G}
    OBVIOUS
  <2>2. ASSUME NEW e \in L PROVE e \in R
    BY <2>1
  <2>3. ASSUME NEW i \in A \ G PROVE cOps[i].on \in L
    <3>1. <<cOps[i].on, i>> \in P /\ <<cOps[i].on, i>>[1] = cOps[i].on
      BY <2>1
    <3> QED BY <2>1, <3>1
  <2>4. ASSUME NEW e \in R PROVE e \in L
    BY <2>1, <2>3
  <2> QED BY <2>1, <2>2, <2>4
<1> QED BY <1>3, <1>5, <1>6 DEF PairsValue

LEMMA MapAnswer ==
    ASSUME NEW S, Typed(cOps, S), NEW s, MapHolds(cOps, s, S)
    PROVE  MapValue(s) = {<<k, cOps[Winner(S, k)].arg>> :
                            k \in {j \in KeysOf(S) : cOps[Winner(S, j)].arg # CNull}}
<1>1. DOMAIN s = KeysOf(S)
  BY DEF MapHolds, KeysOf, On, Kind, OfKind
<1>2. ASSUME NEW k \in DOMAIN s PROVE s[k].val = cOps[Winner(S, k)].arg
  <2>1. PICK w \in S : Wins(cOps, S, k, w) /\ s[k].val = cOps[w].arg
    BY DEF MapHolds, EntryHolds
  <2> QED BY <2>1, WinnerWins
<1>3. {j \in DOMAIN s : s[j].val # CNull} = {j \in KeysOf(S) : cOps[Winner(S, j)].arg # CNull}
  BY <1>1, <1>2
<1>4. PICK D \in SUBSET DOMAIN s : D = {j \in DOMAIN s : s[j].val # CNull}
  OBVIOUS
<1>5. {<<k, s[k].val>> : k \in D} = {<<k, cOps[Winner(S, k)].arg>> : k \in D}
  BY <1>2
<1> QED BY <1>3, <1>4, <1>5 DEF MapValue

LEMMA Answers ==
    ASSUME "LWWMap" \notin CTies, CInv, NEW n \in CNodes
    PROVE  Value(cState[n]) = HistoryValue(cSeen[n])
<1>1. PICK s, S : s = cState[n] /\ S = cSeen[n]
  OBVIOUS
<1>2. /\ Holds(cType, cOps, n, s, S) /\ Closed(cOps, S) /\ History(cType, cOps)
      /\ cType \in CTypes
  BY <1>1 DEF CInv
<1>3. /\ cType \in {"GCounter", "CausalContext", "PNCounter"} => Counted(cOps, S)
      /\ Typed(cOps, S)
  BY <1>2, SeenAreNumbers, HistoryTyped
<1>4. Value(s) = HistoryValue(S)
  <2>1. CASE cType = "GCounter"
    <3>1. Total(s) = Amount(S, "inc")
      BY <1>2, <1>3, <2>1, TotalIsAmount DEF Holds
    <3> QED BY <2>1, <3>1 DEF Value, HistoryValue
  <2>2. CASE cType = "CausalContext"
    <3>1. s = [m \in CNodes |-> Cardinality({i \in S : cOps[i].by = m})]
      BY <1>2, <2>2 DEF Holds, ContextHolds, By
    <3> QED BY <2>2, <3>1 DEF Value, HistoryValue
  <2>3. CASE cType = "PNCounter"
    <3>1. CountsHold(cOps, s.positive, S, "inc") /\ CountsHold(cOps, s.negative, S, "dec")
      BY <1>2, <2>3 DEF Holds, PNHolds
    <3>2. Total(s.positive) = Amount(S, "inc") /\ Total(s.negative) = Amount(S, "dec")
      BY <1>3, <2>3, <3>1, TotalIsAmount
    <3> QED BY <2>3, <3>2 DEF Value, HistoryValue
  <2>4. CASE cType = "DVV"
    <3>1. CausalPast(s) = {<<cOps[i].by, cOps[i].arg>> : i \in S}
      BY <1>2, <2>4 DEF Holds, DVVHolds
    <3> QED BY <2>4, <3>1 DEF Value, HistoryValue
  <2>5. CASE cType = "GSet"
    <3>1. s = {cOps[i].on : i \in S}
      BY <1>2, <2>5 DEF Holds, GSetHolds
    <3> QED BY <2>5, <3>1 DEF Value, HistoryValue
  <2>6. CASE cType = "TwoPhaseSet"
    <3>1. s.added \ s.removed
            = {cOps[i].on : i \in Kind(S, "add")} \ {cOps[i].on : i \in Kind(S, "remove")}
      BY <1>2, <2>6 DEF Holds, TwoPhaseHolds, On, Kind, OfKind
    <3> QED BY <2>6, <3>1 DEF Value, HistoryValue
  <2>7. CASE cType = "ORSet"
    <3>1. PairsValue(s) = {cOps[i].on : i \in Standing(S)}
      BY <1>2, <2>7, PairsAnswer DEF Holds
    <3> QED BY <2>7, <3>1 DEF Value, HistoryValue
  <2>8. CASE cType = "LWWRegister"
    <3>1. RegisterHolds(cOps, n, s, S)
      BY <1>2, <2>8 DEF Holds
    <3>2. s.val = IF S = {} THEN CNull ELSE cOps[Winner(S, CNull)].arg
      <4>1. CASE S = {}
        BY <3>1, <4>1 DEF RegisterHolds
      <4>2. CASE S # {}
        <5>1. PICK w \in S : Wins(cOps, S, CNull, w) /\ s.val = cOps[w].arg
          BY <3>1, <4>2 DEF RegisterHolds
        <5>2. Winner(S, CNull) = w
          BY <1>3, <5>1, WinnerWins
        <5> QED BY <4>2, <5>1, <5>2
      <4> QED BY <4>1, <4>2
    <3> QED BY <2>8, <3>2 DEF Value, HistoryValue
  <2>9. CASE cType = "LWWMap"
    <3>1. MapValue(s) = {<<k, cOps[Winner(S, k)].arg>> :
                            k \in {j \in KeysOf(S) : cOps[Winner(S, j)].arg # CNull}}
      BY <1>2, <1>3, <2>9, MapAnswer DEF Holds
    <3> QED BY <2>9, <3>1 DEF Value, HistoryValue
  <2> QED BY <1>2, <2>1, <2>2, <2>3, <2>4, <2>5, <2>6, <2>7, <2>8, <2>9, CTypesAssumption
<1> QED BY <1>1, <1>4

\* What a replica of any type answers is a function of the updates that reached
\* it, and the one its type promises (value, elements, get of each class): not
\* of the order of the merges nor of how often a state was merged.  Two puts of
\* a map have two timestamps (the clock's): with one, lww_map.py:107 breaks it.
THEOREM AnswersComeFromHistory ==
    ASSUME "LWWMap" \notin CTies PROVE CSpec => []ValueIsHistory
<1>1. CInv => ValueIsHistory
  BY Answers DEF ValueIsHistory
<1> QED BY <1>1, StatesStandForHistories, PTL

-----------------------------------------------------------------------------
(* Comparisons.                                                             *)

\* The updates of S weigh more for an author, if T lacks one of them.
LEMMA MissingWeighs ==
    ASSUME NEW type, NEW ops, History(type, ops), NEW S, Closed(ops, S), NEW T, Closed(ops, T),
           NEW i \in S, i \notin T
    PROVE  /\ By(ops, T, ops[i].by) \subseteq By(ops, S, ops[i].by)
           /\ i \in By(ops, S, ops[i].by) \ By(ops, T, ops[i].by)
<1>1. PICK n : n = ops[i].by
  OBVIOUS
<1>2. By(ops, S, n) \subseteq T \/ By(ops, T, n) \subseteq S
  BY Prefixes
<1>3. i \in By(ops, S, n) /\ i \notin By(ops, T, n)
  BY <1>1 DEF By
<1>4. By(ops, T, n) \subseteq S
  BY <1>2, <1>3
<1> QED BY <1>1, <1>3, <1>4 DEF By

LEMMA CountsOrder ==
    ASSUME History("GCounter", cOps), 0 \notin CAmounts,
           NEW S, Closed(cOps, S), NEW T, Closed(cOps, T),
           NEW s, CountsHold(cOps, s, S, "inc"), NEW t, CountsHold(cOps, t, T, "inc")
    PROVE  Beyond(s, t) <=> ~ (S \subseteq T)
<1>1. Counted(cOps, S) /\ Counted(cOps, T)
  BY SeenAreNumbers
<1>2. ASSUME NEW i \in S \cup T PROVE cOps[i].kind = "inc" /\ cOps[i].by \in CNodes /\ cOps[i].arg # 0
  <2>1. i \in 1 .. Len(cOps) /\ cOps[i] \in Updates
    BY DEF Closed, History
  <2>2. Fits("GCounter", cOps[i]) /\ cOps[i].by \in CNodes
    BY <2>1 DEF History, Updates
  <2> QED BY <2>2 DEF Fits
<1>3. OfKind(cOps, S, "inc") = S /\ OfKind(cOps, T, "inc") = T
  BY <1>2 DEF OfKind
<1>4. ASSUME NEW n \in CNodes
      PROVE s[n] = Weight(cOps, By(cOps, S, n)) /\ t[n] = Weight(cOps, By(cOps, T, n))
  BY <1>3 DEF CountsHold, ByAuthor
<1>5. ASSUME S \subseteq T, NEW n \in CNodes PROVE ~ (s[n] > t[n])
  <2>1. By(cOps, S, n) \subseteq By(cOps, T, n) /\ Counted(cOps, By(cOps, T, n))
    BY <1>1, <1>5 DEF By, Counted
  <2>2. PICK a \in Nat, b \in Nat : a = Weight(cOps, By(cOps, S, n)) /\ b = Weight(cOps, By(cOps, T, n)) /\ a <= b
    BY <2>1, WeightGrows
  <2>3. ~ (a > b)
    BY <2>2
  <2> QED BY <1>4, <2>2, <2>3
<1>6. ASSUME NEW i \in S, i \notin T PROVE Beyond(s, t)
  <2>1. PICK n \in CNodes : n = cOps[i].by
    BY <1>2
  <2>2. By(cOps, T, n) \subseteq By(cOps, S, n) /\ i \in By(cOps, S, n) \ By(cOps, T, n)
    BY <1>6, <2>1, MissingWeighs
  <2>3. Counted(cOps, By(cOps, S, n))
    BY <1>1 DEF By, Counted
  <2>4. \E j \in By(cOps, S, n) \ By(cOps, T, n) : cOps[j].arg # 0
    BY <1>2, <1>6, <2>2
  <2>5. PICK a \in Nat, b \in Nat : a = Weight(cOps, By(cOps, S, n)) /\ b = Weight(cOps, By(cOps, T, n)) /\ b < a
    BY <2>2, <2>3, <2>4, WeightGrows
  <2>6. a > b
    BY <2>5
  <2> QED BY <1>4, <2>5, <2>6 DEF Beyond
<1> QED BY <1>5, <1>6 DEF Beyond

LEMMA ContextOrder ==
    ASSUME History("CausalContext", cOps), NEW S, Closed(cOps, S), NEW T, Closed(cOps, T),
           NEW s, ContextHolds(cOps, s, S), NEW t, ContextHolds(cOps, t, T)
    PROVE  Beyond(s, t) <=> ~ (S \subseteq T)
<1>1. cOps \in Seq(Updates) /\ S \subseteq 1 .. Len(cOps) /\ T \subseteq 1 .. Len(cOps)
  BY DEF History, Closed
<1>2. IsFiniteSet(1 .. Len(cOps))
  BY <1>1, FS_Interval
<1>3. ASSUME NEW n PROVE IsFiniteSet(By(cOps, S, n)) /\ IsFiniteSet(By(cOps, T, n))
  <2>1. By(cOps, S, n) \subseteq 1 .. Len(cOps) /\ By(cOps, T, n) \subseteq 1 .. Len(cOps)
    BY <1>1 DEF By
  <2> QED BY <1>2, <2>1, FS_Subset
<1>4. ASSUME NEW n \in CNodes
      PROVE s[n] = Cardinality(By(cOps, S, n)) /\ t[n] = Cardinality(By(cOps, T, n))
  BY DEF ContextHolds
<1>5. ASSUME S \subseteq T, NEW n \in CNodes PROVE ~ (s[n] > t[n])
  <2>1. By(cOps, S, n) \subseteq By(cOps, T, n)
    BY <1>5 DEF By
  <2>2. PICK a \in Nat, b \in Nat : a = Cardinality(By(cOps, S, n)) /\ b = Cardinality(By(cOps, T, n)) /\ a <= b
    BY <1>3, <2>1, FS_Subset, FS_CardinalityType
  <2>3. ~ (a > b)
    BY <2>2
  <2> QED BY <1>4, <2>2, <2>3
<1>6. ASSUME NEW i \in S, i \notin T PROVE Beyond(s, t)
  <2>1. PICK n \in CNodes : n = cOps[i].by
    <3>1. cOps[i] \in Updates
      BY <1>1, <1>6
    <3> QED BY <3>1 DEF Updates
  <2>2. By(cOps, T, n) \subseteq By(cOps, S, n) /\ i \in By(cOps, S, n) \ By(cOps, T, n)
    BY <1>6, <2>1, MissingWeighs
  <2>3. PICK a \in Nat, b \in Nat : a = Cardinality(By(cOps, S, n)) /\ b = Cardinality(By(cOps, T, n)) /\ b < a
    BY <1>3, <2>2, FS_Subset, FS_CardinalityType
  <2>4. a > b
    BY <2>3
  <2> QED BY <1>4, <2>3, <2>4 DEF Beyond
<1> QED BY <1>5, <1>6 DEF Beyond

\* is_subset of two vectors says that of their causal pasts.
LEMMA SubsetOfPasts ==
    ASSUME NEW s, NEW b, Vector(s, b), NEW t, NEW c, Vector(t, c)
    PROVE  SubsetDVV(s, t) <=> CausalPast(s) \subseteq CausalPast(t)
<1>1. /\ s.clock \in [CNodes -> Nat] /\ t.clock \in [CNodes -> Nat]
      /\ \A p \in s.dots : p \in CNodes \X (Nat \ {0})
  BY DEF Vector
<1>2. ASSUME SubsetDVV(s, t), NEW n \in CNodes, NEW k \in Nat \ {0}, <<n, k>> \in CausalPast(s)
      PROVE  <<n, k>> \in CausalPast(t)
  <2>1. PICK u \in Nat, v \in Nat : u = s.clock[n] /\ v = t.clock[n]
    BY <1>1
  <2>2. /\ <<n, k>> \in s.dots \/ k <= u
        /\ (<<n, k>> \in t.dots \/ k <= v) => <<n, k>> \in CausalPast(t)
    BY <1>2, <2>1, PastOf
  <2>3. CASE k <= v
    BY <2>2, <2>3
  <2>4. CASE ~ (k <= v) /\ k <= u
    <3>1. k \in t.clock[n] + 1 .. s.clock[n]
      BY <2>1, <2>4
    <3> QED BY <1>2, <2>2, <3>1 DEF SubsetDVV
  <2>5. CASE ~ (k <= v) /\ <<n, k>> \in s.dots
    <3>1. PICK p : p = <<n, k>>
      OBVIOUS
    <3>2. p \in s.dots /\ p[2] > t.clock[p[1]]
      BY <2>1, <2>5, <3>1
    <3> QED BY <1>2, <2>2, <3>1, <3>2 DEF SubsetDVV
  <2> QED BY <2>2, <2>3, <2>4, <2>5
<1>3. ASSUME SubsetDVV(s, t) PROVE CausalPast(s) \subseteq CausalPast(t)
  <2>1. CausalPast(s) \subseteq CNodes \X (Nat \ {0})
    BY PastIsPairs
  <2>2. ASSUME NEW p \in CausalPast(s) PROVE p \in CausalPast(t)
    <3>1. PICK n \in CNodes, k \in Nat \ {0} : p = <<n, k>>
      BY <2>1
    <3> QED BY <1>2, <1>3, <3>1
  <2> QED BY <2>2
<1>4. ASSUME CausalPast(s) \subseteq CausalPast(t) PROVE SubsetDVV(s, t)
  <2>1. ASSUME NEW n \in CNodes, NEW k \in t.clock[n] + 1 .. s.clock[n] PROVE <<n, k>> \in t.dots
    <3>1. PICK u \in Nat, v \in Nat : u = s.clock[n] /\ v = t.clock[n]
      BY <1>1
    <3>2. k \in Nat \ {0} /\ k <= u /\ ~ (k <= v)
      BY <3>1
    <3>3. <<n, k>> \in CausalPast(t)
      BY <1>4, <3>1, <3>2, PastOf
    <3> QED BY <3>1, <3>2, <3>3, PastOf
  <2>2. ASSUME NEW p \in s.dots, p[2] > t.clock[p[1]] PROVE p \in t.dots
    <3>1. PICK n \in CNodes, k \in Nat \ {0} : p = <<n, k>>
      BY <1>1
    <3>2. <<n, k>> \in CausalPast(t)
      BY <1>4, <3>1, PastOf
    <3>3. PICK v \in Nat : v = t.clock[n]
      BY <1>1
    <3>4. ~ (k <= v)
      BY <2>2, <3>1, <3>3
    <3> QED BY <3>1, <3>2, <3>3, <3>4, PastOf
  <2> QED BY <2>1, <2>2 DEF SubsetDVV
<1> QED BY <1>3, <1>4

LEMMA DVVOrder ==
    ASSUME History("DVV", cOps), "DVV" \notin CTies,
           NEW S, Closed(cOps, S), NEW T, Closed(cOps, T),
           NEW s, DVVHolds(cOps, s, S), NEW t, DVVHolds(cOps, t, T)
    PROVE  SubsetDVV(s, t) <=> S \subseteq T
<1>1. FromOne(cOps, S) /\ FromOne(cOps, T)
  BY SeenAreNumbers
<1>2. PICK b \in Nat, c \in Nat : Vector(s, b) /\ Vector(t, c)
  BY <1>1, DVVIsVector
<1>3. SubsetDVV(s, t) <=> CausalPast(s) \subseteq CausalPast(t)
  BY <1>2, SubsetOfPasts
<1>4. CausalPast(s) = Numbered(cOps, S) /\ CausalPast(t) = Numbered(cOps, T)
  BY DEF DVVHolds, Numbered
<1>5. S \subseteq T => Numbered(cOps, S) \subseteq Numbered(cOps, T)
  BY DEF Numbered
<1>6. ASSUME NEW i \in S, Numbered(cOps, S) \subseteq Numbered(cOps, T) PROVE i \in T
  <2>1. <<cOps[i].by, cOps[i].arg>> \in Numbered(cOps, T)
    BY <1>6 DEF Numbered
  <2>2. PICK j \in T : cOps[i].by = cOps[j].by /\ cOps[i].arg = cOps[j].arg
    BY <2>1 DEF Numbered
  <2>3. i \in 1 .. Len(cOps) /\ j \in 1 .. Len(cOps) /\ Len(cOps) \in Nat
    BY DEF Closed, History
  <2>4. CASE i < j
    <3>1. i \in 1 .. j - 1
      BY <2>3, <2>4
    <3> QED BY <2>2, <2>3, <3>1 DEF History
  <2>5. CASE j < i
    <3>1. j \in 1 .. i - 1
      BY <2>3, <2>5
    <3> QED BY <2>2, <2>3, <3>1 DEF History
  <2>6. CASE i = j
    BY <2>6
  <2> QED BY <2>3, <2>4, <2>5, <2>6
<1> QED BY <1>3, <1>4, <1>5, <1>6

\* compare orders the replicas of the counters and of the version vectors as
\* the sets of updates that reached them are ordered (compare of GCounter and
\* CausalContext, is_subset of DottedVersionVector).  An increment by 0, which
\* GCounter.increment accepts (g_counter.py:46), leaves the counter as it was,
\* and one number given twice leaves the vector: neither can be told apart.
THEOREM ComparisonsAreCausal ==
    ASSUME "DVV" \notin CTies, 0 \notin CAmounts
    PROVE  CSpec => []CompareIsCausality
<1>1. ASSUME CInv, cType \in {"GCounter", "CausalContext", "DVV"}, NEW n \in CNodes, NEW m \in CNodes
      PROVE  Compare(cState[n], cState[m]) =
                IF cSeen[n] = cSeen[m] THEN "equal"
                ELSE IF cSeen[n] \subseteq cSeen[m] THEN "less"
                ELSE IF cSeen[m] \subseteq cSeen[n] THEN "greater"
                ELSE "concurrent"
  <2>1. PICK s, t, S, T : s = cState[n] /\ t = cState[m] /\ S = cSeen[n] /\ T = cSeen[m]
    OBVIOUS
  <2>2. /\ Holds(cType, cOps, n, s, S) /\ Closed(cOps, S)
        /\ Holds(cType, cOps, m, t, T) /\ Closed(cOps, T)
        /\ History(cType, cOps)
    BY <1>1, <2>1 DEF CInv
  <2>3. CASE cType = "GCounter"
    <3>1. /\ CountsHold(cOps, s, S, "inc") /\ CountsHold(cOps, t, T, "inc")
          /\ History("GCounter", cOps)
      BY <2>2, <2>3 DEF Holds
    <3>2. Beyond(s, t) <=> ~ (S \subseteq T)
      BY <2>2, <3>1, CountsOrder
    <3>3. Beyond(t, s) <=> ~ (T \subseteq S)
      BY <2>2, <3>1, CountsOrder
    <3> QED BY <2>1, <2>3, <3>2, <3>3 DEF Compare
  <2>4. CASE cType = "CausalContext"
    <3>1. ContextHolds(cOps, s, S) /\ ContextHolds(cOps, t, T) /\ History("CausalContext", cOps)
      BY <2>2, <2>4 DEF Holds
    <3>2. Beyond(s, t) <=> ~ (S \subseteq T)
      BY <2>2, <3>1, ContextOrder
    <3>3. Beyond(t, s) <=> ~ (T \subseteq S)
      BY <2>2, <3>1, ContextOrder
    <3> QED BY <2>1, <2>4, <3>2, <3>3 DEF Compare
  <2>5. CASE cType = "DVV"
    <3>1. DVVHolds(cOps, s, S) /\ DVVHolds(cOps, t, T) /\ History("DVV", cOps)
      BY <2>2, <2>5 DEF Holds
    <3>2. SubsetDVV(s, t) <=> S \subseteq T
      BY <2>2, <3>1, DVVOrder
    <3>3. SubsetDVV(t, s) <=> T \subseteq S
      BY <2>2, <3>1, DVVOrder
    <3> QED BY <2>1, <2>5, <3>2, <3>3 DEF Compare
  <2> QED BY <1>1, <2>3, <2>4, <2>5
<1>2. CInv => CompareIsCausality
  BY <1>1 DEF CompareIsCausality
<1> QED BY <1>2, StatesStandForHistories, PTL

\* Maps that have received the same writes answer the same, as long as no two
\* writes share a timestamp: what README.md:280 says of them, which one
\* timestamp given to two puts refutes (lww_map.py:107).
THEOREM MapsWithStampsConverge ==
    ASSUME "LWWMap" \notin CTies PROVE CSpec => []MapsConverge
<1>1. CInv => MapsConverge
  <2> SUFFICES ASSUME CInv, NEW n \in CNodes, NEW m \in CNodes, cType = "LWWMap", cSeen[n] = cSeen[m]
               PROVE  MapValue(cState[n]) = MapValue(cState[m])
    BY DEF MapsConverge
  <2>1. Value(cState[n]) = HistoryValue(cSeen[n]) /\ Value(cState[m]) = HistoryValue(cSeen[m])
    BY Answers
  <2>2. Value(cState[n]) = MapValue(cState[n]) /\ Value(cState[m]) = MapValue(cState[m])
    BY DEF Value
  <2> QED BY <2>1, <2>2
<1> QED BY <1>1, StatesStandForHistories, PTL

-----------------------------------------------------------------------------
(* Hash trees: the shape of a tree of n blocks.                             *)

\* Half of a number.
LEMMA Half == \A m \in Nat : \E h \in Nat : m = 2 * h \/ m = 2 * h + 1
<1> DEFINE N == {m \in Nat : \E h \in Nat : m = 2 * h \/ m = 2 * h + 1}
<1>1. 0 \in N
  OBVIOUS
<1>2. ASSUME NEW m \in Nat, m \in N PROVE m + 1 \in N
  <2>1. PICK h \in Nat : m = 2 * h \/ m = 2 * h + 1
    BY <1>2
  <2>2. CASE m = 2 * h
    <3>1. m + 1 = 2 * h + 1
      BY <2>2
    <3> QED BY <3>1
  <2>3. CASE m = 2 * h + 1
    <3>1. PICK g \in Nat : g = h + 1
      OBVIOUS
    <3>2. m + 1 = 2 * g
      BY <2>3, <3>1
    <3> QED BY <3>2
  <2> QED BY <2>1, <2>2, <2>3
<1> HIDE DEF N
<1>3. \A m \in Nat : m \in N
  BY <1>1, <1>2, EveryNumber
<1> QED BY <1>3 DEF N

\* The size nodes of a level cover the places 1 .. n: node i those from lo[i]
\* to hi[i].
Spans(n, s) ==
    /\ s.size \in Nat \ {0} /\ s.lo \in [1 .. s.size -> Nat] /\ s.hi \in [1 .. s.size -> Nat]
    /\ s.lo[1] = 1 /\ s.hi[s.size] = n
    /\ \A i \in 1 .. s.size : s.lo[i] <= s.hi[i]
    /\ \A i \in 1 .. s.size - 1 : s.lo[i + 1] = s.hi[i] + 1

\* r is of the level above that of s.
Joins(s, r) ==
    /\ \A i \in Nat \ {0} : i \in 1 .. r.size <=> 2 * i - 1 \in 1 .. s.size
    /\ \A i \in 1 .. r.size :
          /\ r.lo[i] = s.lo[2 * i - 1]
          /\ r.hi[i] = IF 2 * i \in 1 .. s.size THEN s.hi[2 * i] ELSE s.hi[2 * i - 1]

Narrow(n, k, s) == s.size = 1 \/ s.size <= n - k

Shape(f, n, top) ==
    /\ f[0].size = n /\ \A i \in 1 .. n : f[0].lo[i] = i /\ f[0].hi[i] = i
    /\ \A k \in 0 .. top : Spans(n, f[k]) /\ Narrow(n, k, f[k])
    /\ \A k \in 1 .. top : Joins(f[k - 1], f[k])

LEMMA JoinsExist ==
    ASSUME NEW n \in Nat \ {0}, NEW k \in Nat, k < n, NEW s, Spans(n, s), Narrow(n, k, s)
    PROVE  \E r : Joins(s, r) /\ Spans(n, r) /\ Narrow(n, k + 1, r)
<1>1. PICK m \in Nat \ {0} : m = s.size
  BY DEF Spans
<1>2. PICK h \in Nat \ {0} : m = 2 * h \/ m = 2 * h - 1
  <2>1. PICK g \in Nat : m = 2 * g \/ m = 2 * g + 1
    BY Half
  <2>2. (m = 2 * g /\ g \in Nat \ {0}) \/ (m = 2 * (g + 1) - 1 /\ g + 1 \in Nat \ {0})
    BY <2>1
  <2> QED BY <2>2
<1>3. /\ \A i \in Nat \ {0} : i \in 1 .. h <=> 2 * i - 1 \in 1 .. m
      /\ \A i \in 1 .. h : 2 * i - 1 \in 1 .. m /\ (2 * i \in 1 .. m \/ (i = h /\ m = 2 * h - 1))
  BY <1>2
<1> DEFINE lo == [i \in 1 .. h |-> s.lo[2 * i - 1]]
           hi == [i \in 1 .. h |-> IF 2 * i \in 1 .. m THEN s.hi[2 * i] ELSE s.hi[2 * i - 1]]
<1>4. PICK r : r = [size |-> h, lo |-> lo, hi |-> hi]
  OBVIOUS
<1>5. /\ r.size = h /\ \A i \in 1 .. h : r.lo[i] = s.lo[2 * i - 1]
      /\ \A i \in 1 .. h : r.hi[i] = IF 2 * i \in 1 .. m THEN s.hi[2 * i] ELSE s.hi[2 * i - 1]
  BY <1>4
<1>6. Joins(s, r)
  BY <1>1, <1>3, <1>5 DEF Joins
<1>7. /\ s.lo \in [1 .. m -> Nat] /\ s.hi \in [1 .. m -> Nat] /\ s.lo[1] = 1 /\ s.hi[m] = n
      /\ \A i \in 1 .. m : s.lo[i] <= s.hi[i] /\ s.lo[i] \in Nat /\ s.hi[i] \in Nat
      /\ \A i \in 1 .. m - 1 : s.lo[i + 1] = s.hi[i] + 1
  BY <1>1 DEF Spans
<1>8. lo \in [1 .. h -> Nat] /\ hi \in [1 .. h -> Nat]
  BY <1>3, <1>7
<1>9. r.lo[1] = 1 /\ r.hi[h] = n
  <2>1. 1 \in 1 .. h /\ h \in 1 .. h /\ 2 * 1 - 1 = 1
    OBVIOUS
  <2>2. r.lo[1] = s.lo[1]
    BY <1>5, <2>1
  <2>3. CASE m = 2 * h
    BY <1>5, <1>7, <2>1, <2>2, <2>3, SMTT(30)
  <2>4. CASE m = 2 * h - 1
    <3>1. ~ (2 * h \in 1 .. m)
      BY <2>4
    <3> QED BY <1>5, <1>7, <2>1, <2>2, <2>4, <3>1
  <2> QED BY <1>2, <2>3, <2>4
<1>10. ASSUME NEW i \in 1 .. h PROVE r.lo[i] <= r.hi[i]
  <2>1. CASE 2 * i \in 1 .. m
    <3>1. PICK a \in Nat, b \in Nat, c \in Nat, d \in Nat :
             a = s.lo[2 * i - 1] /\ b = s.hi[2 * i - 1] /\ c = s.lo[2 * i] /\ d = s.hi[2 * i]
      BY <1>3, <1>7, <2>1
    <3>2. 2 * i - 1 \in 1 .. m - 1 /\ (2 * i - 1) + 1 = 2 * i
      BY <2>1
    <3>3. a <= b /\ c = b + 1 /\ c <= d
      BY <1>3, <1>7, <2>1, <3>1, <3>2
    <3> QED BY <1>5, <2>1, <3>1, <3>3
  <2>2. CASE ~ (2 * i \in 1 .. m)
    <3>1. r.lo[i] = s.lo[2 * i - 1] /\ r.hi[i] = s.hi[2 * i - 1]
      BY <1>5, <2>2
    <3> QED BY <1>3, <1>7, <3>1
  <2> QED BY <2>1, <2>2
<1>11. ASSUME NEW i \in 1 .. h - 1 PROVE r.lo[i + 1] = r.hi[i] + 1
  <2>1. i \in 1 .. h /\ i + 1 \in 1 .. h /\ 2 * i \in 1 .. m - 1 /\ 2 * i \in 1 .. m /\ 2 * (i + 1) - 1 = 2 * i + 1
    BY <1>2
  <2>2. r.lo[i + 1] = s.lo[2 * i + 1] /\ r.hi[i] = s.hi[2 * i]
    BY <1>5, <2>1
  <2> QED BY <1>7, <2>1, <2>2
<1>12. Spans(n, r)
  BY <1>4, <1>8, <1>9, <1>10, <1>11 DEF Spans
<1>13. Narrow(n, k + 1, r)
  <2>1. m = 1 \/ m <= n - k
    BY <1>1 DEF Narrow
  <2>2. h = 1 \/ h <= n - (k + 1)
    BY <1>2, <2>1
  <2> QED BY <1>5, <2>2 DEF Narrow
<1> QED BY <1>6, <1>12, <1>13

\* The levels have a shape, and the n-th is the root's.
LEMMA ShapeExists ==
    ASSUME NEW n \in Nat \ {0}
    PROVE  \E f : Shape(f, n, n) /\ f[n].size = 1
<1> DEFINE N == {k \in Nat : k <= n => \E f : Shape(f, n, k)}
<1>1. 0 \in N
  <2> DEFINE s == [size |-> n, lo |-> [i \in 1 .. n |-> i], hi |-> [i \in 1 .. n |-> i]]
  <2>1. Spans(n, s)
    BY DEF Spans
  <2>2. s.size = n /\ \A i \in 1 .. n : s.lo[i] = i /\ s.hi[i] = i
    OBVIOUS
  <2> HIDE DEF s
  <2>3. PICK f : f = [k \in 0 .. 0 |-> s]
    OBVIOUS
  <2>4. f[0] = s /\ \A k \in 0 .. 0 : f[k] = s /\ k = 0
    BY <2>3
  <2>5. Shape(f, n, 0)
    BY <2>1, <2>2, <2>4 DEF Shape, Narrow
  <2> QED BY <2>5
<1>2. ASSUME NEW k \in Nat, k \in N PROVE k + 1 \in N
  <2> SUFFICES ASSUME k + 1 <= n PROVE \E f : Shape(f, n, k + 1)
    OBVIOUS
  <2>1. PICK f : Shape(f, n, k)
    BY <1>2
  <2>2. Spans(n, f[k]) /\ Narrow(n, k, f[k])
    BY <2>1 DEF Shape
  <2>3. PICK r : Joins(f[k], r) /\ Spans(n, r) /\ Narrow(n, k + 1, r)
    BY <2>2, JoinsExist
  <2>4. PICK g : g = [i \in 0 .. k + 1 |-> IF i = k + 1 THEN r ELSE f[i]]
    OBVIOUS
  <2>5. g[k + 1] = r /\ \A i \in 0 .. k : g[i] = f[i]
    BY <2>4
  <2>6. ASSUME NEW i \in 0 .. k + 1 PROVE Spans(n, g[i]) /\ Narrow(n, i, g[i])
    <3>1. CASE i = k + 1
      BY <2>3, <2>5, <3>1
    <3>2. CASE i \in 0 .. k
      BY <2>1, <2>5, <3>2 DEF Shape
    <3> QED BY <3>1, <3>2
  <2>7. ASSUME NEW i \in 1 .. k + 1 PROVE Joins(g[i - 1], g[i])
    <3>1. CASE i = k + 1
      BY <2>3, <2>5, <3>1
    <3>2. CASE i \in 1 .. k
      <4>1. i - 1 \in 0 .. k /\ i \in 0 .. k
        BY <3>2
      <4> QED BY <2>1, <2>5, <3>2, <4>1 DEF Shape
    <3> QED BY <3>1, <3>2
  <2>8. g[0] = f[0]
    BY <2>5
  <2>9. Shape(g, n, k + 1)
    BY <2>1, <2>6, <2>7, <2>8 DEF Shape
  <2> QED BY <2>9
<1> HIDE DEF N
<1>3. n \in N
  BY <1>1, <1>2, EveryNumber
<1>4. PICK f : Shape(f, n, n)
  BY <1>3 DEF N
<1>5. Narrow(n, n, f[n]) /\ f[n].size \in Nat \ {0}
  BY <1>4 DEF Shape, Spans
<1> QED BY <1>4, <1>5 DEF Narrow

-----------------------------------------------------------------------------
(* Hash trees: what a node stands for.                                      *)

LeavesOf(copy) == [i \in 1 .. Len(copy) |-> Leaf(copy[i])]

Above(nodes) == IF DOMAIN nodes = {1} THEN nodes ELSE Parents(nodes)

Levels(t, copy, top) == t[0] = LeavesOf(copy) /\ \A k \in 1 .. top : t[k] = Above(t[k - 1])

\* The levels that BuildTree goes through.
LEMMA TreeIsBuilt ==
    ASSUME NEW copy, Len(copy) \in Nat
    PROVE  Levels(BuildTree(copy), copy, Len(copy))
<1>1. PICK n \in Nat : n = Len(copy)
  OBVIOUS
<1> DEFINE Row(g, k) == IF k = 0 THEN LeavesOf(copy) ELSE Above(g[k - 1])
           Built(g, top) == g = [k \in 0 .. top |-> Row(g, k)]
           N == {k \in Nat : \E g : Built(g, k)}
<1>2. 0 \in N
  <2>1. PICK g : g = [k \in 0 .. 0 |-> LeavesOf(copy)]
    OBVIOUS
  <2>2. g = [k \in 0 .. 0 |-> IF k = 0 THEN LeavesOf(copy) ELSE Above(g[k - 1])]
    BY <2>1
  <2> QED BY <2>2
<1>3. ASSUME NEW k \in Nat, k \in N PROVE k + 1 \in N
  <2>1. PICK g : Built(g, k)
    BY <1>3
  <2>2. PICK next : next = Above(g[k])
    OBVIOUS
  <2>3. PICK h : h = [i \in 0 .. k + 1 |-> IF i = k + 1 THEN next ELSE g[i]]
    OBVIOUS
  <2>4. h[k + 1] = next /\ \A i \in 0 .. k : h[i] = g[i]
    BY <2>3
  <2>5. ASSUME NEW i \in 0 .. k + 1 PROVE h[i] = Row(h, i)
    <3>1. CASE i = k + 1
      <4>1. i # 0 /\ i - 1 = k /\ k \in 0 .. k
        BY <3>1
      <4> QED BY <2>2, <2>4, <3>1, <4>1
    <3>2. CASE i = 0
      <4>1. 0 \in 0 .. k
        OBVIOUS
      <4>2. g[0] = Row(g, 0)
        BY <2>1, <4>1
      <4> QED BY <2>4, <3>2, <4>1, <4>2
    <3>3. CASE i \in 1 .. k
      <4>1. i \in 0 .. k /\ i - 1 \in 0 .. k /\ i # 0
        BY <3>3
      <4>2. g[i] = Row(g, i)
        BY <2>1, <4>1
      <4> QED BY <2>4, <4>1, <4>2
    <3> QED BY <3>1, <3>2, <3>3
  <2>6. h = [i \in 0 .. k + 1 |-> h[i]]
    BY <2>3
  <2>7. Built(h, k + 1)
    <3> HIDE DEF Row
    <3> QED BY <2>5, <2>6
  <2> QED BY <2>7
<1>4. n \in N
  <2> HIDE DEF N
  <2> QED BY <1>2, <1>3, EveryNumber
<1>5. PICK t : t = CHOOSE g : Built(g, n)
  OBVIOUS
<1>6. Built(t, n)
  <2>1. \E g : Built(g, n)
    BY <1>4
  <2> HIDE DEF Built
  <2> QED BY <1>5, <2>1
<1>7. BuildTree(copy) = t
  <2>1. BuildTree(copy) = CHOOSE g : g = [k \in 0 .. n |-> IF k = 0 THEN LeavesOf(copy) ELSE Above(g[k - 1])]
    BY <1>1 DEF BuildTree, LeavesOf, Above
  <2> QED BY <1>5, <2>1
<1>8. t[0] = LeavesOf(copy) /\ \A k \in 1 .. n : t[k] = Above(t[k - 1])
  <2>1. \A k \in 0 .. n : t[k] = Row(t, k)
    BY <1>6
  <2> QED BY <2>1
<1> QED BY <1>1, <1>7, <1>8 DEF Levels

\* The nodes of a level with shape s; an odd node goes up as it is.
Fitting(nodes, s) ==
    DOMAIN nodes = 1 .. s.size /\ \A i \in 1 .. s.size : nodes[i].width = s.hi[i] - s.lo[i] + 1

\* Node i of the level with shape r above s.
Left(s, r, i) == 2 * i - 1 \in 1 .. s.size /\ r.lo[i] = s.lo[2 * i - 1]
Paired(s, r, i) ==
    /\ 2 * i \in 1 .. s.size
    /\ r.hi[i] = s.hi[2 * i] /\ s.lo[2 * i] = s.hi[2 * i - 1] + 1
    /\ s.lo[2 * i - 1] <= s.hi[2 * i - 1] /\ s.lo[2 * i] <= s.hi[2 * i]
    /\ s.lo[2 * i - 1] \in Nat /\ s.hi[2 * i - 1] \in Nat /\ s.lo[2 * i] \in Nat /\ s.hi[2 * i] \in Nat
Promoted(s, r, i) == 2 * i \notin 1 .. s.size /\ r.hi[i] = s.hi[2 * i - 1]

LEMMA Children ==
    ASSUME NEW n, NEW s, Spans(n, s), NEW r, Joins(s, r), NEW i \in 1 .. r.size, r.size \in Nat
    PROVE  Left(s, r, i) /\ (Paired(s, r, i) \/ Promoted(s, r, i)) /\ i \in Nat \ {0}
<1>1. i \in Nat \ {0} /\ 2 * i - 1 \in Nat
  OBVIOUS
<1>2. 2 * i - 1 \in 1 .. s.size /\ r.lo[i] = s.lo[2 * i - 1]
  BY <1>1 DEF Joins
<1>3. r.hi[i] = IF 2 * i \in 1 .. s.size THEN s.hi[2 * i] ELSE s.hi[2 * i - 1]
  BY DEF Joins
<1>4. CASE 2 * i \in 1 .. s.size
  <2>1. PICK m \in Nat : m = s.size
    BY DEF Spans
  <2>2. 2 * i - 1 \in 1 .. m - 1 /\ (2 * i - 1) + 1 = 2 * i
    BY <1>1, <1>4, <2>1
  <2>3. s.lo[2 * i] = s.hi[2 * i - 1] + 1
    BY <2>1, <2>2 DEF Spans
  <2>4. /\ s.lo[2 * i - 1] \in Nat /\ s.hi[2 * i - 1] \in Nat /\ s.lo[2 * i] \in Nat /\ s.hi[2 * i] \in Nat
        /\ s.lo[2 * i - 1] <= s.hi[2 * i - 1] /\ s.lo[2 * i] <= s.hi[2 * i]
    BY <1>2, <1>4 DEF Spans
  <2> QED BY <1>1, <1>2, <1>3, <1>4, <2>3, <2>4 DEF Left, Paired
<1>5. CASE 2 * i \notin 1 .. s.size
  BY <1>1, <1>2, <1>3, <1>5 DEF Left, Promoted
<1> QED BY <1>4, <1>5

\* The nodes of the level above.
Goes(nodes, above, s, r) ==
    /\ DOMAIN above = 1 .. r.size
    /\ \A i \in 1 .. r.size :
          /\ 2 * i \in 1 .. s.size => above[i] = MerkleNode(nodes[2 * i - 1], nodes[2 * i])
          /\ 2 * i \notin 1 .. s.size => above[i] = nodes[2 * i - 1]

LEMMA NodesAbove ==
    ASSUME NEW n, NEW s, Spans(n, s), NEW r, Spans(n, r), Joins(s, r), NEW nodes, Fitting(nodes, s)
    PROVE  Goes(nodes, Above(nodes), s, r) /\ Fitting(Above(nodes), r)
<1>1. PICK m \in Nat \ {0}, h \in Nat \ {0} : m = s.size /\ h = r.size
  BY DEF Spans
<1>2. DOMAIN nodes = 1 .. m /\ \A i \in Nat \ {0} : i \in 1 .. h <=> 2 * i - 1 \in 1 .. m
  BY <1>1 DEF Fitting, Joins
<1>3. PICK above : above = Above(nodes)
  OBVIOUS
<1>4. Goes(nodes, above, s, r)
  <2>1. CASE m = 1
    <3>1. DOMAIN nodes = {1}
      BY <1>2, <2>1
    <3>2. above = nodes
      BY <1>3, <3>1 DEF Above
    <3>3. h = 1
      <4>1. h \in 1 .. h
        OBVIOUS
      <4>2. 2 * h - 1 \in 1 .. m
        BY <1>2, <4>1
      <4> QED BY <2>1, <4>2
    <3> QED BY <1>1, <1>2, <2>1, <3>2, <3>3 DEF Goes
  <2>2. CASE m # 1
    <3>1. DOMAIN nodes # {1}
      <4>1. m \in 1 .. m
        OBVIOUS
      <4> QED BY <1>2, <2>2, <4>1
    <3>2. above = Parents(nodes)
      BY <1>3, <3>1 DEF Above
    <3>3. {j \in DOMAIN nodes : 2 * j - 1 \in DOMAIN nodes} = 1 .. h
      <4>1. ASSUME NEW j \in 1 .. m, 2 * j - 1 \in 1 .. m PROVE j \in 1 .. h
        BY <1>2, <4>1
      <4>2. ASSUME NEW j \in 1 .. h PROVE j \in 1 .. m /\ 2 * j - 1 \in 1 .. m
        <5>1. 2 * j - 1 \in 1 .. m
          BY <1>2
        <5> QED BY <5>1
      <4> QED BY <1>2, <4>1, <4>2
    <3>4. above = [i \in 1 .. h |-> IF 2 * i \in DOMAIN nodes THEN MerkleNode(nodes[2 * i - 1], nodes[2 * i])
                                    ELSE nodes[2 * i - 1]]
      BY <3>2, <3>3 DEF Parents
    <3> QED BY <1>1, <1>2, <3>4 DEF Goes
  <2> QED BY <2>1, <2>2
<1>5. ASSUME NEW i \in 1 .. h PROVE above[i].width = r.hi[i] - r.lo[i] + 1
  <2>1. Left(s, r, i) /\ (Paired(s, r, i) \/ Promoted(s, r, i))
    BY <1>1, Children
  <2>2. CASE Paired(s, r, i)
    <3>1. PICK a \in Nat, b \in Nat, c \in Nat, d \in Nat :
             a = s.lo[2 * i - 1] /\ b = s.hi[2 * i - 1] /\ c = s.lo[2 * i] /\ d = s.hi[2 * i]
      BY <2>2 DEF Paired
    <3>2. /\ above[i] = MerkleNode(nodes[2 * i - 1], nodes[2 * i])
          /\ c = b + 1 /\ r.hi[i] = d /\ r.lo[i] = a
      BY <1>1, <1>4, <2>1, <2>2, <3>1 DEF Goes, Paired, Left
    <3>3. nodes[2 * i - 1].width = b - a + 1 /\ nodes[2 * i].width = d - c + 1
      BY <2>1, <2>2, <3>1 DEF Fitting, Left, Paired
    <3>4. above[i].width = (b - a + 1) + (d - c + 1)
      BY <3>2, <3>3 DEF MerkleNode
    <3> QED BY <3>2, <3>4
  <2>3. CASE Promoted(s, r, i)
    <3>1. above[i] = nodes[2 * i - 1] /\ r.hi[i] = s.hi[2 * i - 1] /\ r.lo[i] = s.lo[2 * i - 1]
      BY <1>1, <1>4, <2>1, <2>3 DEF Goes, Promoted, Left
    <3> QED BY <2>1, <3>1 DEF Fitting, Left
  <2> QED BY <2>1, <2>2, <2>3
<1> QED BY <1>1, <1>3, <1>4, <1>5 DEF Goes, Fitting

\* t is the tree of the n blocks of copy, whose levels have the shapes f.
Grown(n, f, copy, t) ==
    /\ \A i \in 1 .. n : t[0][i] = Leaf(copy[i])
    /\ \A k \in 0 .. n : Fitting(t[k], f[k])
    /\ \A k \in 1 .. n : Goes(t[k - 1], t[k], f[k - 1], f[k])

LEMMA TreeGrows ==
    ASSUME NEW n \in Nat \ {0}, NEW f, Shape(f, n, n), NEW copy \in [1 .. n -> MValues]
    PROVE  Grown(n, f, copy, BuildTree(copy)) /\ Len(copy) = n
<1>1. Len(copy) = n
  OBVIOUS
<1>2. PICK t : t = BuildTree(copy)
  OBVIOUS
<1>3. t[0] = LeavesOf(copy) /\ \A k \in 1 .. n : t[k] = Above(t[k - 1])
  BY <1>1, <1>2, TreeIsBuilt DEF Levels
<1>4. t[0] = [i \in 1 .. n |-> Leaf(copy[i])]
  BY <1>1, <1>3 DEF LeavesOf
<1> DEFINE N == {k \in Nat : k <= n => Fitting(t[k], f[k])}
<1>5. 0 \in N
  <2>1. f[0].size = n /\ \A i \in 1 .. n : f[0].lo[i] = i /\ f[0].hi[i] = i
    BY DEF Shape
  <2>2. ASSUME NEW i \in 1 .. n PROVE t[0][i].width = f[0].hi[i] - f[0].lo[i] + 1
    BY <1>4, <2>1 DEF Leaf
  <2> QED BY <1>4, <2>1, <2>2 DEF Fitting
<1>6. ASSUME NEW k \in Nat, k < n PROVE Spans(n, f[k]) /\ Spans(n, f[k + 1]) /\ Joins(f[k], f[k + 1])
  <2>1. k \in 0 .. n /\ k + 1 \in 1 .. n /\ k + 1 \in 0 .. n /\ (k + 1) - 1 = k
    BY <1>6
  <2>2. Joins(f[(k + 1) - 1], f[k + 1])
    BY <2>1 DEF Shape
  <2> QED BY <2>1, <2>2 DEF Shape
<1>7. ASSUME NEW k \in Nat, k < n, Fitting(t[k], f[k])
      PROVE  Goes(t[k], t[k + 1], f[k], f[k + 1]) /\ Fitting(t[k + 1], f[k + 1])
  <2>1. k + 1 \in 1 .. n /\ (k + 1) - 1 = k
    BY <1>7
  <2>2. t[k + 1] = Above(t[k])
    BY <1>3, <2>1
  <2>3. Goes(t[k], Above(t[k]), f[k], f[k + 1]) /\ Fitting(Above(t[k]), f[k + 1])
    BY <1>6, <1>7, NodesAbove
  <2> QED BY <2>2, <2>3
<1>8. ASSUME NEW k \in Nat, k \in N PROVE k + 1 \in N
  BY <1>7, <1>8
<1>9. \A k \in Nat : k \in N
  <2> HIDE DEF N
  <2> QED BY <1>5, <1>8, EveryNumber
<1>10. ASSUME NEW k \in 1 .. n PROVE Goes(t[k - 1], t[k], f[k - 1], f[k])
  <2>1. PICK j \in Nat : j = k - 1 /\ j < n /\ j + 1 = k
    OBVIOUS
  <2>2. Fitting(t[j], f[j])
    BY <1>9, <2>1
  <2> QED BY <1>7, <2>1, <2>2
<1>11. Grown(n, f, copy, t)
  BY <1>4, <1>9, <1>10 DEF Grown
<1> QED BY <1>1, <1>2, <1>11

\* What holds of a level and the one above, step by step.
LEMMA LevelFacts ==
    ASSUME NEW n \in Nat \ {0}, NEW f, Shape(f, n, n), NEW k \in Nat, k < n
    PROVE  /\ Spans(n, f[k]) /\ Spans(n, f[k + 1]) /\ Joins(f[k], f[k + 1])
           /\ \A copy, t : Grown(n, f, copy, t) =>
                    /\ Goes(t[k], t[k + 1], f[k], f[k + 1])
                    /\ Fitting(t[k], f[k]) /\ Fitting(t[k + 1], f[k + 1])
           /\ \A i \in 1 .. f[k + 1].size :
                    Left(f[k], f[k + 1], i) /\ (Paired(f[k], f[k + 1], i) \/ Promoted(f[k], f[k + 1], i))
           /\ f[k].size \in Nat /\ f[k + 1].size \in Nat
<1>1. k \in 0 .. n /\ k + 1 \in 1 .. n /\ k + 1 \in 0 .. n /\ (k + 1) - 1 = k
  OBVIOUS
<1>2. Joins(f[(k + 1) - 1], f[k + 1])
  BY <1>1 DEF Shape
<1>3. Spans(n, f[k]) /\ Spans(n, f[k + 1]) /\ Joins(f[k], f[k + 1])
  BY <1>1, <1>2 DEF Shape
<1>4. f[k].size \in Nat /\ f[k + 1].size \in Nat
  BY <1>3 DEF Spans
<1>5. ASSUME NEW copy, NEW t, Grown(n, f, copy, t)
      PROVE  Goes(t[k], t[k + 1], f[k], f[k + 1]) /\ Fitting(t[k], f[k]) /\ Fitting(t[k + 1], f[k + 1])
  <2>1. Goes(t[(k + 1) - 1], t[k + 1], f[(k + 1) - 1], f[k + 1])
    BY <1>1, <1>5 DEF Grown
  <2> QED BY <1>1, <1>5, <2>1 DEF Grown
<1>6. ASSUME NEW i \in 1 .. f[k + 1].size
      PROVE Left(f[k], f[k + 1], i) /\ (Paired(f[k], f[k + 1], i) \/ Promoted(f[k], f[k + 1], i))
  BY <1>3, <1>4, Children
<1> QED BY <1>3, <1>4, <1>5, <1>6

\* What the two kinds of node hash.
LEMMA HashesOf ==
    /\ \A d : Leaf(d).hash = <<d>>
    /\ \A l, r : MerkleNode(l, r).hash = <<l.hash, r.hash>>
BY DEF Leaf, MerkleNode

Agree(c, d, a, b) == \A x \in a .. b : c[x] = d[x]

\* Two nodes with one hash stand for the same blocks.
LEMMA HashesTell ==
    ASSUME NEW n \in Nat \ {0}, NEW f, Shape(f, n, n),
           NEW c, NEW t, Grown(n, f, c, t), NEW d, NEW u, Grown(n, f, d, u)
    PROVE  \A k \in 0 .. n : \A i \in 1 .. f[k].size :
                t[k][i].hash = u[k][i].hash <=> Agree(c, d, f[k].lo[i], f[k].hi[i])
<1> DEFINE Tells(k) == \A i \in 1 .. f[k].size :
                            t[k][i].hash = u[k][i].hash <=> Agree(c, d, f[k].lo[i], f[k].hi[i])
           N == {k \in Nat : k <= n => Tells(k)}
<1>1. 0 \in N
  <2>1. f[0].size = n /\ \A i \in 1 .. n : f[0].lo[i] = i /\ f[0].hi[i] = i
    BY DEF Shape
  <2>2. ASSUME NEW i \in 1 .. n PROVE t[0][i].hash = u[0][i].hash <=> Agree(c, d, i, i)
    <3>1. t[0][i].hash = <<c[i]>> /\ u[0][i].hash = <<d[i]>>
      <4>1. t[0][i] = Leaf(c[i]) /\ u[0][i] = Leaf(d[i])
        BY DEF Grown
      <4> QED BY <4>1, HashesOf
    <3>2. <<c[i]>> = <<d[i]>> <=> c[i] = d[i]
      OBVIOUS
    <3>3. Agree(c, d, i, i) <=> c[i] = d[i]
      BY DEF Agree
    <3> QED BY <3>1, <3>2, <3>3
  <2> QED BY <2>1, <2>2
<1>2. ASSUME NEW k \in Nat, k < n, Tells(k) PROVE Tells(k + 1)
  <2>1. PICK s, r : s = f[k] /\ r = f[k + 1]
    OBVIOUS
  <2>2. PICK v, w, vv, ww : v = t[k] /\ w = u[k] /\ vv = t[k + 1] /\ ww = u[k + 1]
    OBVIOUS
  <2>3. Goes(v, vv, s, r) /\ Goes(w, ww, s, r) /\ s.size \in Nat /\ r.size \in Nat
    BY <1>2, <2>1, <2>2, LevelFacts
  <2>4. ASSUME NEW i \in 1 .. r.size PROVE vv[i].hash = ww[i].hash <=> Agree(c, d, r.lo[i], r.hi[i])
    <3>1. Left(s, r, i) /\ (Paired(s, r, i) \/ Promoted(s, r, i))
      BY <1>2, <2>1, LevelFacts
    <3>2. v[2 * i - 1].hash = w[2 * i - 1].hash <=> Agree(c, d, s.lo[2 * i - 1], s.hi[2 * i - 1])
      BY <1>2, <2>1, <2>2, <3>1 DEF Left
    <3>3. CASE Paired(s, r, i)
      <4>1. v[2 * i].hash = w[2 * i].hash <=> Agree(c, d, s.lo[2 * i], s.hi[2 * i])
        BY <1>2, <2>1, <2>2, <3>3 DEF Paired
      <4>2. vv[i].hash = <<v[2 * i - 1].hash, v[2 * i].hash>> /\ ww[i].hash = <<w[2 * i - 1].hash, w[2 * i].hash>>
        <5>1. vv[i] = MerkleNode(v[2 * i - 1], v[2 * i]) /\ ww[i] = MerkleNode(w[2 * i - 1], w[2 * i])
          BY <2>3, <3>3 DEF Goes, Paired
        <5> QED BY <5>1, HashesOf
      <4>3. PICK a \in Nat, b \in Nat, e \in Nat, g \in Nat :
               a = s.lo[2 * i - 1] /\ b = s.hi[2 * i - 1] /\ e = s.lo[2 * i] /\ g = s.hi[2 * i]
        BY <3>3 DEF Paired
      <4>4. e = b + 1 /\ a <= b /\ e <= g /\ r.lo[i] = a /\ r.hi[i] = g
        BY <3>1, <3>3, <4>3 DEF Paired, Left
      <4>5. Agree(c, d, a, g) <=> Agree(c, d, a, b) /\ Agree(c, d, e, g)
        <5>1. \A x : x \in a .. g <=> x \in a .. b \/ x \in e .. g
          BY <4>4
        <5> QED BY <5>1 DEF Agree
      <4>6. vv[i].hash = ww[i].hash <=> v[2 * i - 1].hash = w[2 * i - 1].hash /\ v[2 * i].hash = w[2 * i].hash
        BY <4>2
      <4> QED BY <3>2, <4>1, <4>3, <4>4, <4>5, <4>6
    <3>4. CASE Promoted(s, r, i)
      <4>1. vv[i] = v[2 * i - 1] /\ ww[i] = w[2 * i - 1]
        BY <2>3, <3>4 DEF Goes, Promoted
      <4>2. r.lo[i] = s.lo[2 * i - 1] /\ r.hi[i] = s.hi[2 * i - 1]
        BY <3>1, <3>4 DEF Left, Promoted
      <4> QED BY <3>2, <4>1, <4>2
    <3> QED BY <3>1, <3>3, <3>4
  <2> QED BY <2>1, <2>2, <2>4
<1>3. ASSUME NEW k \in Nat, k \in N PROVE k + 1 \in N
  <2> HIDE DEF Tells
  <2> QED BY <1>2, <1>3
<1>4. \A k \in Nat : k \in N
  <2> HIDE DEF N
  <2> QED BY <1>1, <1>3, EveryNumber
<1> QED BY <1>4

-----------------------------------------------------------------------------
(* Hash trees: the differences.                                             *)

\* What diffs has of node i of level k, with below that of level k - 1.
Apart(t, u, k, below, i) ==
    IF t[k][i].hash = u[k][i].hash THEN {}
    ELSE IF k = 0 THEN {1}
    ELSE IF 2 * i \notin DOMAIN t[k - 1] THEN below[2 * i - 1]
    ELSE below[2 * i - 1] \cup {t[k - 1][2 * i - 1].width + x : x \in below[2 * i]}

\* The recursion of DiffIn goes through all levels.
LEMMA DiffsAreFound ==
    ASSUME NEW t, NEW u, NEW top \in Nat
    PROVE  \A k \in 0 .. top : \A i \in DOMAIN t[k] :
                DiffIn(t, u, top)[k][i] = Apart(t, u, k, DiffIn(t, u, top)[k - 1], i)
<1> DEFINE Row(g, k) == [i \in DOMAIN t[k] |-> Apart(t, u, k, g[k - 1], i)]
           Built(g, m) == g = [k \in 0 .. m |-> Row(g, k)]
           N == {k \in Nat : \E g : Built(g, k)}
<1>1. 0 \in N
  <2>1. PICK first : first = [i \in DOMAIN t[0] |-> IF t[0][i].hash = u[0][i].hash THEN {} ELSE {1}]
    OBVIOUS
  <2>2. PICK g : g = [k \in 0 .. 0 |-> first]
    OBVIOUS
  <2>3. Row(g, 0) = first
    BY <2>1 DEF Apart
  <2>4. \A k \in 0 .. 0 : k = 0
    OBVIOUS
  <2>5. g = [k \in 0 .. 0 |-> Row(g, k)]
    <3> HIDE DEF Row
    <3> QED BY <2>2, <2>3, <2>4
  <2> QED BY <2>5
<1>2. ASSUME NEW k \in Nat, k \in N PROVE k + 1 \in N
  <2>1. PICK g : Built(g, k)
    BY <1>2
  <2>2. PICK next : next = [i \in DOMAIN t[k + 1] |-> Apart(t, u, k + 1, g[k], i)]
    OBVIOUS
  <2>3. PICK h : h = [i \in 0 .. k + 1 |-> IF i = k + 1 THEN next ELSE g[i]]
    OBVIOUS
  <2>4. h[k + 1] = next /\ \A i \in 0 .. k : h[i] = g[i]
    BY <2>3
  <2>5. ASSUME NEW i \in 0 .. k + 1 PROVE h[i] = Row(h, i)
    <3>1. CASE i = k + 1
      <4>1. i - 1 = k /\ k \in 0 .. k
        BY <3>1
      <4> QED BY <2>2, <2>4, <3>1, <4>1
    <3>2. CASE i = 0
      <4>1. 0 \in 0 .. k
        OBVIOUS
      <4>2. g[0] = Row(g, 0)
        BY <2>1, <4>1
      <4>3. Row(g, 0) = Row(h, 0)
        BY DEF Apart
      <4> QED BY <2>4, <3>2, <4>1, <4>2, <4>3
    <3>3. CASE i \in 1 .. k
      <4>1. i \in 0 .. k /\ i - 1 \in 0 .. k
        BY <3>3
      <4>2. g[i] = Row(g, i)
        BY <2>1, <4>1
      <4> QED BY <2>4, <4>1, <4>2
    <3> QED BY <3>1, <3>2, <3>3
  <2>6. h = [i \in 0 .. k + 1 |-> h[i]]
    BY <2>3
  <2>7. Built(h, k + 1)
    <3> HIDE DEF Row
    <3> QED BY <2>5, <2>6
  <2> QED BY <2>7
<1>3. top \in N
  <2> HIDE DEF N
  <2> QED BY <1>1, <1>2, EveryNumber
<1>4. PICK g : g = CHOOSE x : Built(x, top)
  OBVIOUS
<1>5. Built(g, top)
  <2>1. \E x : Built(x, top)
    BY <1>3
  <2> HIDE DEF Built
  <2> QED BY <1>4, <2>1
<1>6. DiffIn(t, u, top) = g
  BY <1>4 DEF DiffIn, Apart
<1>7. ASSUME NEW k \in 0 .. top, NEW i \in DOMAIN t[k] PROVE g[k][i] = Apart(t, u, k, g[k - 1], i)
  <2>1. g[k] = Row(g, k)
    <3> HIDE DEF Row
    <3> QED BY <1>5
  <2> QED BY <2>1
<1> QED BY <1>6, <1>7

\* The places of a .. b where c and d differ, counted from a.
Offsets(c, d, a, b) == {x - a + 1 : x \in {z \in a .. b : c[z] # d[z]}}

LEMMA OffsetsJoin ==
    ASSUME NEW c, NEW d, NEW a \in Nat, NEW b \in Nat, NEW g \in Nat, a <= b, b < g
    PROVE  Offsets(c, d, a, g)
             = Offsets(c, d, a, b) \cup {(b - a + 1) + y : y \in Offsets(c, d, b + 1, g)}
<1>1. ASSUME NEW p \in Offsets(c, d, a, g)
      PROVE  p \in Offsets(c, d, a, b) \cup {(b - a + 1) + y : y \in Offsets(c, d, b + 1, g)}
  <2>1. PICK x \in a .. g : c[x] # d[x] /\ p = x - a + 1
    BY DEF Offsets
  <2>2. CASE x <= b
    BY <2>1, <2>2 DEF Offsets
  <2>3. CASE ~ (x <= b)
    <3>1. x \in b + 1 .. g
      BY <2>3
    <3>2. PICK y : y = x - (b + 1) + 1
      OBVIOUS
    <3>3. y \in Offsets(c, d, b + 1, g)
      BY <2>1, <3>1, <3>2 DEF Offsets
    <3>4. p = (b - a + 1) + y
      BY <2>1, <3>2
    <3> QED BY <3>3, <3>4
  <2> QED BY <2>2, <2>3
<1>2. ASSUME NEW p \in Offsets(c, d, a, b) PROVE p \in Offsets(c, d, a, g)
  <2>1. PICK x \in a .. b : c[x] # d[x] /\ p = x - a + 1
    BY DEF Offsets
  <2>2. x \in a .. g
    OBVIOUS
  <2> QED BY <2>1, <2>2 DEF Offsets
<1>3. ASSUME NEW y \in Offsets(c, d, b + 1, g) PROVE (b - a + 1) + y \in Offsets(c, d, a, g)
  <2>1. PICK x \in b + 1 .. g : c[x] # d[x] /\ y = x - (b + 1) + 1
    BY DEF Offsets
  <2>2. x \in a .. g /\ (b - a + 1) + y = x - a + 1
    BY <2>1
  <2> QED BY <2>1, <2>2 DEF Offsets
<1> QED BY <1>1, <1>2, <1>3

\* A node's differences are those of its blocks.
LEMMA DiffsTell ==
    ASSUME NEW n \in Nat \ {0}, NEW f, Shape(f, n, n), f[n].size = 1,
           NEW c, NEW t, Grown(n, f, c, t), NEW d, NEW u, Grown(n, f, d, u)
    PROVE  DiffIn(t, u, n)[n][1] = {x \in 1 .. n : c[x] # d[x]}
<1>1. PICK g : g = DiffIn(t, u, n)
  OBVIOUS
<1>2. ASSUME NEW k \in 0 .. n, NEW i \in 1 .. f[k].size
      PROVE  /\ g[k][i] = Apart(t, u, k, g[k - 1], i)
             /\ t[k][i].hash = u[k][i].hash <=> Agree(c, d, f[k].lo[i], f[k].hi[i])
             /\ DOMAIN t[k] = 1 .. f[k].size
  <2>1. DOMAIN t[k] = 1 .. f[k].size
    BY DEF Grown, Fitting
  <2>2. \A j \in 0 .. n : \A l \in DOMAIN t[j] : g[j][l] = Apart(t, u, j, g[j - 1], l)
    BY <1>1, DiffsAreFound
  <2>3. \A j \in 0 .. n : \A l \in 1 .. f[j].size :
            t[j][l].hash = u[j][l].hash <=> Agree(c, d, f[j].lo[l], f[j].hi[l])
    BY HashesTell
  <2> QED BY <2>1, <2>2, <2>3
<1>3. ASSUME NEW a, NEW b, Agree(c, d, a, b) PROVE Offsets(c, d, a, b) = {}
  BY <1>3 DEF Agree, Offsets
<1> DEFINE Tells(k) == \A i \in 1 .. f[k].size : g[k][i] = Offsets(c, d, f[k].lo[i], f[k].hi[i])
           N == {k \in Nat : k <= n => Tells(k)}
<1>4. 0 \in N
  <2>1. f[0].size = n /\ (\A i \in 1 .. n : f[0].lo[i] = i /\ f[0].hi[i] = i) /\ 0 \in 0 .. n
    BY DEF Shape
  <2>2. ASSUME NEW i \in 1 .. n PROVE g[0][i] = Offsets(c, d, i, i)
    <3>1. g[0][i] = IF Agree(c, d, i, i) THEN {} ELSE {1}
      <4>1. i \in 1 .. f[0].size /\ f[0].lo[i] = i /\ f[0].hi[i] = i
        BY <2>1
      <4>2. g[0][i] = Apart(t, u, 0, g[0 - 1], i)
        BY <1>2, <2>1, <4>1
      <4>3. t[0][i].hash = u[0][i].hash <=> Agree(c, d, i, i)
        BY <1>2, <2>1, <4>1
      <4> QED BY <4>2, <4>3 DEF Apart
    <3>2. CASE Agree(c, d, i, i)
      BY <1>3, <3>1, <3>2
    <3>3. CASE ~ Agree(c, d, i, i)
      <4>1. {z \in i .. i : c[z] # d[z]} = {i}
        BY <3>3 DEF Agree
      <4>2. Offsets(c, d, i, i) = {x - i + 1 : x \in {i}}
        BY <4>1 DEF Offsets
      <4>3. {x - i + 1 : x \in {i}} = {1}
        <5>1. i - i + 1 = 1
          OBVIOUS
        <5> QED BY <5>1
      <4> QED BY <3>1, <3>3, <4>2, <4>3
    <3> QED BY <3>2, <3>3
  <2> QED BY <2>1, <2>2
<1>5. ASSUME NEW k \in Nat, k < n, Tells(k) PROVE Tells(k + 1)
  <2>1. PICK s, r : s = f[k] /\ r = f[k + 1]
    OBVIOUS
  <2>2. PICK v, vv, p, q : v = t[k] /\ vv = t[k + 1] /\ p = g[k] /\ q = g[k + 1]
    OBVIOUS
  <2>3. k + 1 \in 0 .. n /\ (k + 1) - 1 = k /\ k + 1 # 0 /\ k \in 0 .. n
    BY <1>5
  <2>4. /\ Fitting(v, s) /\ DOMAIN v = 1 .. s.size
        /\ \A i \in 1 .. s.size : p[i] = Offsets(c, d, s.lo[i], s.hi[i])
    BY <1>5, <2>1, <2>2, LevelFacts DEF Fitting
  <2>5. ASSUME NEW i \in 1 .. r.size PROVE q[i] = Offsets(c, d, r.lo[i], r.hi[i])
    <3>1. Left(s, r, i) /\ (Paired(s, r, i) \/ Promoted(s, r, i))
      BY <1>5, <2>1, LevelFacts
    <3>2. q[i] = IF Agree(c, d, r.lo[i], r.hi[i]) THEN {}
                 ELSE IF 2 * i \notin 1 .. s.size THEN p[2 * i - 1]
                 ELSE p[2 * i - 1] \cup {v[2 * i - 1].width + x : x \in p[2 * i]}
      <4>1. g[k + 1][i] = Apart(t, u, k + 1, g[(k + 1) - 1], i)
        BY <1>2, <2>1, <2>3
      <4>2. t[k + 1][i].hash = u[k + 1][i].hash <=> Agree(c, d, r.lo[i], r.hi[i])
        BY <1>2, <2>1, <2>3
      <4> QED BY <2>1, <2>2, <2>3, <2>4, <4>1, <4>2, ZenonT(30) DEF Apart
    <3>3. CASE Agree(c, d, r.lo[i], r.hi[i])
      BY <1>3, <3>2, <3>3
    <3>4. CASE ~ Agree(c, d, r.lo[i], r.hi[i]) /\ Promoted(s, r, i)
      BY <2>4, <3>1, <3>2, <3>4 DEF Promoted, Left
    <3>5. CASE ~ Agree(c, d, r.lo[i], r.hi[i]) /\ Paired(s, r, i)
      <4>1. PICK a \in Nat, b \in Nat, e \in Nat, h \in Nat :
               a = s.lo[2 * i - 1] /\ b = s.hi[2 * i - 1] /\ e = s.lo[2 * i] /\ h = s.hi[2 * i]
        BY <3>5 DEF Paired
      <4>2. e = b + 1 /\ a <= b /\ b < h /\ r.lo[i] = a /\ r.hi[i] = h
        BY <3>1, <3>5, <4>1 DEF Paired, Left
      <4>3. p[2 * i - 1] = Offsets(c, d, a, b) /\ p[2 * i] = Offsets(c, d, e, h) /\ v[2 * i - 1].width = b - a + 1
        BY <2>4, <3>1, <3>5, <4>1 DEF Left, Paired, Fitting
      <4>4. q[i] = Offsets(c, d, a, b) \cup {(b - a + 1) + x : x \in Offsets(c, d, b + 1, h)}
        BY <3>2, <3>5, <4>2, <4>3 DEF Paired
      <4>5. Offsets(c, d, a, h)
              = Offsets(c, d, a, b) \cup {(b - a + 1) + y : y \in Offsets(c, d, b + 1, h)}
        BY <4>2, OffsetsJoin
      <4> QED BY <4>2, <4>4, <4>5
    <3> QED BY <3>1, <3>3, <3>4, <3>5
  <2> QED BY <2>1, <2>2, <2>5
<1>6. ASSUME NEW k \in Nat, k \in N PROVE k + 1 \in N
  <2> HIDE DEF Tells
  <2> QED BY <1>5, <1>6
<1>7. n \in N
  <2> HIDE DEF N
  <2> QED BY <1>4, <1>6, EveryNumber
<1>8. f[n].lo[1] = 1 /\ f[n].hi[1] = n
  BY DEF Shape, Spans
<1>9. g[n][1] = Offsets(c, d, 1, n)
  BY <1>7, <1>8
<1>10. Offsets(c, d, 1, n) = {x \in 1 .. n : c[x] # d[x]}
  BY DEF Offsets
<1> QED BY <1>1, <1>9, <1>10

-----------------------------------------------------------------------------
(* Hash trees: the proofs of inclusion.                                     *)

\* From the hash of e the steps lead to the hash h.
Up(g, e, proof) == g[0] = <<e>> /\ \A k \in 1 .. Len(proof) : g[k] = Combine(proof[k], g[k - 1])

Climbs(e, proof, h) == Len(proof) \in Nat /\ \E g : Up(g, e, proof) /\ g[Len(proof)] = h

\* verify_proof climbs.
LEMMA VerifyClimbs ==
    ASSUME NEW root, NEW e, NEW proof, NEW h, Climbs(e, proof, h)
    PROVE  VerifyProof(root, e, proof) <=> h = root
<1>1. PICK n \in Nat : n = Len(proof)
  BY DEF Climbs
<1>2. PICK g : g[0] = <<e>> /\ (\A k \in 1 .. n : g[k] = Combine(proof[k], g[k - 1])) /\ g[n] = h
  BY <1>1 DEF Climbs, Up
<1> DEFINE Built(x) == x = [k \in 0 .. n |-> IF k = 0 THEN <<e>> ELSE Combine(proof[k], x[k - 1])]
<1>3. PICK x : x = [k \in 0 .. n |-> g[k]]
  OBVIOUS
<1>4. Built(x)
  <2>1. ASSUME NEW k \in 0 .. n PROVE x[k] = IF k = 0 THEN <<e>> ELSE Combine(proof[k], x[k - 1])
    <3>1. CASE k = 0
      BY <1>2, <1>3, <3>1
    <3>2. CASE k # 0
      <4>1. k \in 1 .. n /\ k - 1 \in 0 .. n
        BY <3>2
      <4> QED BY <1>2, <1>3, <3>2, <4>1
    <3> QED BY <3>1, <3>2
  <2>2. x = [k \in 0 .. n |-> x[k]]
    BY <1>3
  <2> QED BY <2>1, <2>2
<1>5. PICK y : y = CHOOSE z : Built(z)
  OBVIOUS
<1>6. Built(y)
  <2> HIDE DEF Built
  <2> QED BY <1>4, <1>5
<1>7. VerifyProof(root, e, proof) <=> y[n] = root
  BY <1>1, <1>5 DEF VerifyProof
<1> DEFINE N == {k \in Nat : k <= n => y[k] = g[k]}
<1>8. 0 \in N
  <2>1. 0 \in 0 .. n
    OBVIOUS
  <2> QED BY <1>2, <1>6, <2>1
<1>9. ASSUME NEW k \in Nat, k \in N PROVE k + 1 \in N
  <2> SUFFICES ASSUME k + 1 <= n PROVE y[k + 1] = g[k + 1]
    OBVIOUS
  <2>1. k + 1 \in 1 .. n /\ k + 1 \in 0 .. n /\ (k + 1) - 1 = k /\ k + 1 # 0
    OBVIOUS
  <2>2. y[k + 1] = Combine(proof[k + 1], y[k])
    BY <1>6, <2>1
  <2>3. g[k + 1] = Combine(proof[k + 1], g[k])
    BY <1>2, <2>1
  <2> QED BY <1>9, <2>2, <2>3
<1>10. n \in N
  <2> HIDE DEF N
  <2> QED BY <1>8, <1>9, EveryNumber
<1> QED BY <1>2, <1>7, <1>10

LEMMA ClimbsFurther ==
    ASSUME NEW Steps, NEW step \in Steps, NEW proof \in Seq(Steps), NEW e, NEW h, Climbs(e, proof, h)
    PROVE  Climbs(e, Append(proof, step), Combine(step, h)) /\ Append(proof, step) \in Seq(Steps)
<1>1. PICK n \in Nat : n = Len(proof)
  OBVIOUS
<1>2. PICK more : more = Append(proof, step)
  OBVIOUS
<1>3. Len(more) = n + 1 /\ more[n + 1] = step /\ \A k \in 1 .. n : more[k] = proof[k]
  BY <1>1, <1>2
<1>4. PICK g : g[0] = <<e>> /\ (\A k \in 1 .. n : g[k] = Combine(proof[k], g[k - 1])) /\ g[n] = h
  BY <1>1 DEF Climbs, Up
<1>5. PICK last : last = Combine(step, h)
  OBVIOUS
<1>6. PICK x : x = [k \in 0 .. n + 1 |-> IF k = n + 1 THEN last ELSE g[k]]
  OBVIOUS
<1>7. x[n + 1] = last /\ \A k \in 0 .. n : x[k] = g[k]
  BY <1>6
<1>8. ASSUME NEW k \in 1 .. n + 1 PROVE x[k] = Combine(more[k], x[k - 1])
  <2>1. CASE k = n + 1
    <3>1. k - 1 = n /\ n \in 0 .. n
      BY <2>1
    <3> QED BY <1>3, <1>4, <1>5, <1>7, <2>1, <3>1
  <2>2. CASE k \in 1 .. n
    <3>1. k \in 0 .. n /\ k - 1 \in 0 .. n
      BY <2>2
    <3> QED BY <1>3, <1>4, <1>7, <2>2, <3>1
  <2> QED BY <2>1, <2>2
<1>9. x[0] = <<e>>
  BY <1>4, <1>7
<1>10. Climbs(e, more, last)
  BY <1>3, <1>7, <1>8, <1>9 DEF Climbs, Up
<1>11. Append(proof, step) \in Seq(Steps)
  OBVIOUS
<1> QED BY <1>2, <1>5, <1>10, <1>11

\* What paths has of leaf idx of node i of level k, below as for Apart.
Path(t, k, below, i, idx) ==
    IF k = 0 THEN << >>
    ELSE IF 2 * i \notin DOMAIN t[k - 1] THEN below[2 * i - 1][idx]
    ELSE IF idx <= t[k - 1][2 * i - 1].width
    THEN Append(below[2 * i - 1][idx], <<"right", t[k - 1][2 * i].hash>>)
    ELSE Append(below[2 * i][idx - t[k - 1][2 * i - 1].width],
                <<"left", t[k - 1][2 * i - 1].hash>>)

\* The recursion of PathsIn goes through all levels.
LEMMA PathsAreFound ==
    ASSUME NEW t, NEW top \in Nat
    PROVE  \A k \in 0 .. top : \A i \in DOMAIN t[k] : \A idx \in 1 .. t[k][i].width :
                PathsIn(t, top)[k][i][idx] = Path(t, k, PathsIn(t, top)[k - 1], i, idx)
<1> DEFINE Row(g, k) == [i \in DOMAIN t[k] |-> [idx \in 1 .. t[k][i].width |-> Path(t, k, g[k - 1], i, idx)]]
           Built(g, m) == g = [k \in 0 .. m |-> Row(g, k)]
           N == {k \in Nat : \E g : Built(g, k)}
<1>1. 0 \in N
  <2>1. PICK first : first = [i \in DOMAIN t[0] |-> [idx \in 1 .. t[0][i].width |-> << >>]]
    OBVIOUS
  <2>2. PICK g : g = [k \in 0 .. 0 |-> first]
    OBVIOUS
  <2>3. Row(g, 0) = first
    BY <2>1 DEF Path
  <2>4. \A k \in 0 .. 0 : k = 0
    OBVIOUS
  <2>5. g = [k \in 0 .. 0 |-> Row(g, k)]
    <3> HIDE DEF Row
    <3> QED BY <2>2, <2>3, <2>4
  <2> QED BY <2>5
<1>2. ASSUME NEW k \in Nat, k \in N PROVE k + 1 \in N
  <2>1. PICK g : Built(g, k)
    BY <1>2
  <2>2. PICK next : next = [i \in DOMAIN t[k + 1] |-> [idx \in 1 .. t[k + 1][i].width |-> Path(t, k + 1, g[k], i, idx)]]
    OBVIOUS
  <2>3. PICK h : h = [i \in 0 .. k + 1 |-> IF i = k + 1 THEN next ELSE g[i]]
    OBVIOUS
  <2>4. h[k + 1] = next /\ \A i \in 0 .. k : h[i] = g[i]
    BY <2>3
  <2>5. ASSUME NEW i \in 0 .. k + 1 PROVE h[i] = Row(h, i)
    <3>1. CASE i = k + 1
      <4>1. i - 1 = k /\ k \in 0 .. k
        BY <3>1
      <4>2. h[i - 1] = g[k]
        BY <2>4, <4>1
      <4>3. Row(h, i) = [j \in DOMAIN t[i] |-> [idx \in 1 .. t[i][j].width |-> Path(t, i, g[k], j, idx)]]
        BY <4>2
      <4> QED BY <2>2, <2>4, <3>1, <4>3, ZenonT(30)
    <3>2. CASE i = 0
      <4>1. 0 \in 0 .. k
        OBVIOUS
      <4>2. g[0] = Row(g, 0)
        BY <2>1, <4>1
      <4>3. Row(g, 0) = Row(h, 0)
        BY DEF Path
      <4> QED BY <2>4, <3>2, <4>1, <4>2, <4>3
    <3>3. CASE i \in 1 .. k
      <4>1. i \in 0 .. k /\ i - 1 \in 0 .. k
        BY <3>3
      <4>2. g[i] = Row(g, i)
        BY <2>1, <4>1
      <4> QED BY <2>4, <4>1, <4>2
    <3> QED BY <3>1, <3>2, <3>3
  <2>6. h = [i \in 0 .. k + 1 |-> h[i]]
    BY <2>3
  <2>7. Built(h, k + 1)
    <3> HIDE DEF Row
    <3> QED BY <2>5, <2>6
  <2> QED BY <2>7
<1>3. top \in N
  <2> HIDE DEF N
  <2> QED BY <1>1, <1>2, EveryNumber
<1>4. PICK g : g = CHOOSE x : Built(x, top)
  OBVIOUS
<1>5. Built(g, top)
  <2>1. \E x : Built(x, top)
    BY <1>3
  <2> HIDE DEF Built
  <2> QED BY <1>4, <2>1
<1>6. PathsIn(t, top) = g
  BY <1>4 DEF PathsIn, Path
<1>7. ASSUME NEW k \in 0 .. top, NEW i \in DOMAIN t[k], NEW idx \in 1 .. t[k][i].width
      PROVE  g[k][i][idx] = Path(t, k, g[k - 1], i, idx)
  <2>1. g[k] = Row(g, k)
    <3> HIDE DEF Row
    <3> QED BY <1>5
  <2> QED BY <2>1
<1> QED BY <1>6, <1>7

\* Nodes stand for places of 1 .. n only.
LEMMA Within ==
    ASSUME NEW n \in Nat \ {0}, NEW s, Spans(n, s)
    PROVE  \A i \in 1 .. s.size : 1 <= s.lo[i] /\ s.hi[i] <= n
<1>1. PICK m \in Nat \ {0} : m = s.size
  BY DEF Spans
<1>2. /\ s.lo[1] = 1 /\ s.hi[m] = n
      /\ \A i \in 1 .. m : s.lo[i] \in Nat /\ s.hi[i] \in Nat /\ s.lo[i] <= s.hi[i]
      /\ \A i \in 1 .. m - 1 : s.lo[i + 1] = s.hi[i] + 1
  BY <1>1 DEF Spans
<1> DEFINE N == {j \in Nat : j < m => 1 <= s.lo[j + 1] /\ s.hi[m - j] <= n}
<1>3. 0 \in N
  <2>1. 0 + 1 = 1 /\ m - 0 = m
    OBVIOUS
  <2> QED BY <1>2, <2>1
<1>4. ASSUME NEW j \in Nat, j \in N PROVE j + 1 \in N
  <2> SUFFICES ASSUME j + 1 < m PROVE 1 <= s.lo[(j + 1) + 1] /\ s.hi[m - (j + 1)] <= n
    OBVIOUS
  <2>1. PICK a \in 1 .. m - 1, b \in 1 .. m - 1 : a = j + 1 /\ b = m - (j + 1)
    OBVIOUS
  <2>2. b + 1 = m - j /\ a \in 1 .. m /\ b \in 1 .. m /\ b + 1 \in 1 .. m
    BY <2>1
  <2>3. 1 <= s.lo[a] /\ s.hi[b + 1] <= n
    <3>1. j < m
      OBVIOUS
    <3> QED BY <1>4, <2>1, <2>2, <3>1
  <2>4. 1 <= s.lo[a + 1]
    <3>1. PICK y \in Nat, z \in Nat : y = s.lo[a] /\ z = s.hi[a]
      BY <1>2, <2>2
    <3>2. s.lo[a + 1] = z + 1
      BY <1>2, <2>1, <3>1
    <3> QED BY <3>2
  <2>5. s.hi[b] <= n
    <3>1. PICK x \in Nat, y \in Nat, z \in Nat : x = s.hi[b] /\ y = s.lo[b + 1] /\ z = s.hi[b + 1]
      BY <1>2, <2>2
    <3>2. y = x + 1 /\ y <= z /\ z <= n
      BY <1>2, <2>1, <2>2, <2>3, <3>1
    <3> QED BY <3>1, <3>2
  <2> QED BY <2>1, <2>4, <2>5
<1> HIDE DEF N
<1>5. \A j \in Nat : j \in N
  BY <1>3, <1>4, EveryNumber
<1>6. ASSUME NEW i \in 1 .. m PROVE 1 <= s.lo[i] /\ s.hi[i] <= n
  <2>1. PICK j \in Nat, k \in Nat : j = i - 1 /\ k = m - i /\ j < m /\ k < m /\ j + 1 = i /\ m - k = i
    OBVIOUS
  <2> QED BY <1>5, <2>1 DEF N
<1> QED BY <1>1, <1>6

\* The hashes a path may go past.
StepsOf(t) == {"left", "right"} \X {t[k][i].hash : k \in Nat, i \in Nat}

Leads(Steps, e, proof, h) == proof \in Seq(Steps) /\ Climbs(e, proof, h)

\* The path from place x in the tree of c leads, from what e has there, to the
\* hashes of the tree of e, when they differ nowhere else.
LEMMA PathsTell ==
    ASSUME NEW n \in Nat \ {0}, NEW f, Shape(f, n, n), f[n].size = 1,
           NEW c, NEW t, Grown(n, f, c, t), NEW e, NEW u, Grown(n, f, e, u),
           NEW x \in 1 .. n, \A z \in 1 .. n : z # x => c[z] = e[z]
    PROVE  Leads(StepsOf(t), e[x], PathsIn(t, n)[n][1][x], u[n][1].hash)
<1>1. PICK g : g = PathsIn(t, n)
  OBVIOUS
<1>2. PICK Steps : Steps = StepsOf(t)
  OBVIOUS
<1>3. ASSUME NEW k \in 0 .. n, NEW i \in 1 .. f[k].size, NEW idx \in 1 .. t[k][i].width
      PROVE  g[k][i][idx] = Path(t, k, g[k - 1], i, idx)
  <2>1. DOMAIN t[k] = 1 .. f[k].size
    BY DEF Grown, Fitting
  <2>2. \A j \in 0 .. n : \A l \in DOMAIN t[j] : \A m \in 1 .. t[j][l].width :
            g[j][l][m] = Path(t, j, g[j - 1], l, m)
    BY <1>1, PathsAreFound
  <2>3. \A l \in DOMAIN t[k] : \A m \in 1 .. t[k][l].width : g[k][l][m] = Path(t, k, g[k - 1], l, m)
    BY <2>2
  <2> QED BY <2>1, <2>3
<1> DEFINE Tells(k) == \A i \in 1 .. f[k].size : x \in f[k].lo[i] .. f[k].hi[i] =>
                            Leads(Steps, e[x], g[k][i][x - f[k].lo[i] + 1], u[k][i].hash)
           N == {k \in Nat : k <= n => Tells(k)}
<1>4. 0 \in N
  <2>1. f[0].size = n /\ (\A i \in 1 .. n : f[0].lo[i] = i /\ f[0].hi[i] = i) /\ 0 \in 0 .. n
    BY DEF Shape
  <2>2. ASSUME NEW i \in 1 .. n, x \in i .. i PROVE Leads(Steps, e[x], g[0][i][x - i + 1], u[0][i].hash)
    <3>1. i = x /\ x - i + 1 = 1
      BY <2>2
    <3>2. t[0][x].width = 1
      <4>1. t[0][x] = Leaf(c[x])
        BY DEF Grown
      <4> QED BY <4>1 DEF Leaf
    <3>3. g[0][x][1] = << >>
      <4>1. 1 \in 1 .. t[0][x].width /\ x \in 1 .. f[0].size
        BY <2>1, <3>2
      <4>2. g[0][x][1] = Path(t, 0, g[0 - 1], x, 1)
        BY <1>3, <2>1, <4>1
      <4> QED BY <4>2 DEF Path
    <3>4. u[0][x].hash = <<e[x]>>
      BY HashesOf DEF Grown
    <3>5. Climbs(e[x], << >>, <<e[x]>>)
      <4>1. PICK h : h = [k \in {0} |-> <<e[x]>>]
        OBVIOUS
      <4>2. h[0] = <<e[x]>> /\ Len(<< >>) = 0
        BY <4>1
      <4>3. Up(h, e[x], << >>) /\ h[Len(<< >>)] = <<e[x]>>
        BY <4>2 DEF Up
      <4> QED BY <4>2, <4>3 DEF Climbs
    <3>6. Leads(Steps, e[x], << >>, <<e[x]>>)
      BY <3>5 DEF Leads
    <3> QED BY <3>1, <3>3, <3>4, <3>6
  <2> QED BY <2>1, <2>2
<1>5. ASSUME NEW k \in Nat, k < n, Tells(k) PROVE Tells(k + 1)
  <2>1. PICK s, r : s = f[k] /\ r = f[k + 1]
    OBVIOUS
  <2>2. PICK v, vv, w, ww, p, q :
           v = t[k] /\ vv = t[k + 1] /\ w = u[k] /\ ww = u[k + 1] /\ p = g[k] /\ q = g[k + 1]
    OBVIOUS
  <2>3. k + 1 \in 0 .. n /\ (k + 1) - 1 = k /\ k + 1 # 0 /\ k \in 0 .. n
    BY <1>5
  <2>4. /\ Fitting(v, s) /\ Fitting(vv, r) /\ Goes(w, ww, s, r) /\ DOMAIN v = 1 .. s.size
        /\ \A i \in 1 .. s.size : x \in s.lo[i] .. s.hi[i] =>
               Leads(Steps, e[x], p[i][x - s.lo[i] + 1], w[i].hash)
    BY <1>5, <2>1, <2>2, LevelFacts DEF Fitting
  <2>5. ASSUME NEW i \in 1 .. s.size PROVE v[i].hash = w[i].hash <=> Agree(c, e, s.lo[i], s.hi[i])
    BY <2>1, <2>2, <2>3, HashesTell
  <2>6. \A i \in 1 .. s.size : 1 <= s.lo[i] /\ s.hi[i] <= n
    BY <1>5, <2>1, LevelFacts, Within
  <2>7. ASSUME NEW i \in 1 .. r.size, x \in r.lo[i] .. r.hi[i]
        PROVE  Leads(Steps, e[x], q[i][x - r.lo[i] + 1], ww[i].hash)
    <3>1. Left(s, r, i) /\ (Paired(s, r, i) \/ Promoted(s, r, i))
      BY <1>5, <2>1, LevelFacts
    <3>2. PICK lo \in Nat, hi \in Nat : lo = r.lo[i] /\ hi = r.hi[i]
      <4>1. Spans(n, r)
        BY <1>5, <2>1, LevelFacts
      <4> QED BY <4>1 DEF Spans
    <3>3. PICK idx \in Nat : idx = x - lo + 1 /\ idx \in 1 .. hi - lo + 1
      BY <2>7, <3>2
    <3>4. q[i][idx] = Path(t, k + 1, p, i, idx)
      <4>1. vv[i].width = hi - lo + 1
        BY <2>4, <3>2 DEF Fitting
      <4>2. g[k + 1][i][idx] = Path(t, k + 1, g[(k + 1) - 1], i, idx)
        BY <1>3, <2>1, <2>2, <2>3, <3>3, <4>1
      <4> QED BY <2>2, <2>3, <4>2
    <3>5. CASE Promoted(s, r, i)
      <4>1. q[i][idx] = p[2 * i - 1][idx]
        BY <2>2, <2>3, <2>4, <3>4, <3>5 DEF Path, Promoted
      <4>2. ww[i] = w[2 * i - 1] /\ s.lo[2 * i - 1] = lo /\ s.hi[2 * i - 1] = hi
        BY <2>4, <3>1, <3>2, <3>5 DEF Goes, Promoted, Left
      <4>3. Leads(Steps, e[x], p[2 * i - 1][x - lo + 1], w[2 * i - 1].hash)
        BY <2>4, <2>7, <3>1, <3>2, <4>2 DEF Left
      <4> QED BY <3>2, <3>3, <4>1, <4>2, <4>3
    <3>6. CASE Paired(s, r, i)
      <4>1. PICK a \in Nat, b \in Nat, d \in Nat, h \in Nat :
               a = s.lo[2 * i - 1] /\ b = s.hi[2 * i - 1] /\ d = s.lo[2 * i] /\ h = s.hi[2 * i]
        BY <3>6 DEF Paired
      <4>2. d = b + 1 /\ a <= b /\ b < h /\ lo = a /\ hi = h /\ 2 * i - 1 \in 1 .. s.size /\ 2 * i \in 1 .. s.size
        BY <3>1, <3>2, <3>6, <4>1 DEF Paired, Left
      <4>3. ww[i].hash = <<w[2 * i - 1].hash, w[2 * i].hash>>
        BY <2>4, <4>2, HashesOf DEF Goes
      <4>4. v[2 * i - 1].width = b - a + 1
        BY <2>4, <4>1, <4>2 DEF Fitting
      <4>5. 1 <= a /\ h <= n
        BY <2>6, <4>1, <4>2
      <4>6. v[2 * i].hash \in {t[m][j].hash : m \in Nat, j \in Nat}
        <5>1. 2 * i \in Nat
          BY <4>2
        <5> QED BY <2>2, <5>1
      <4>7. v[2 * i - 1].hash \in {t[m][j].hash : m \in Nat, j \in Nat}
        <5>1. 2 * i - 1 \in Nat
          BY <4>2
        <5> QED BY <2>2, <5>1
      <4>8. CASE x <= b
        <5>1. PICK step : step = <<"right", v[2 * i].hash>>
          OBVIOUS
        <5>2. step \in Steps
          BY <1>2, <4>6, <5>1 DEF StepsOf
        <5>3. q[i][idx] = Append(p[2 * i - 1][idx], step)
          <6>1. idx <= v[2 * i - 1].width
            BY <3>3, <4>2, <4>4, <4>8
          <6> QED BY <2>2, <2>3, <2>4, <3>4, <4>2, <5>1, <6>1 DEF Path
        <5>4. Leads(Steps, e[x], p[2 * i - 1][idx], w[2 * i - 1].hash)
          <6>1. x \in a .. b
            BY <2>7, <3>2, <4>2, <4>8
          <6> QED BY <2>4, <3>3, <4>1, <4>2, <6>1
        <5>5. v[2 * i].hash = w[2 * i].hash
          <6>1. Agree(c, e, d, h)
            BY <4>2, <4>5, <4>8 DEF Agree
          <6> QED BY <2>5, <4>1, <4>2, <6>1
        <5>6. Leads(Steps, e[x], Append(p[2 * i - 1][idx], step), Combine(step, w[2 * i - 1].hash))
          BY <5>2, <5>4, ClimbsFurther DEF Leads
        <5>7. Combine(step, w[2 * i - 1].hash) = <<w[2 * i - 1].hash, w[2 * i].hash>>
          BY <5>1, <5>5 DEF Combine
        <5> QED BY <3>2, <3>3, <4>3, <5>3, <5>6, <5>7
      <4>9. CASE ~ (x <= b)
        <5>1. PICK step : step = <<"left", v[2 * i - 1].hash>>
          OBVIOUS
        <5>2. step \in Steps
          BY <1>2, <4>7, <5>1 DEF StepsOf
        <5>3. PICK jdx \in Nat : jdx = x - d + 1 /\ idx - (b - a + 1) = jdx
          BY <2>7, <3>2, <3>3, <4>2, <4>9
        <5>4. q[i][idx] = Append(p[2 * i][jdx], step)
          <6>1. ~ (idx <= v[2 * i - 1].width)
            BY <3>3, <4>2, <4>4, <4>9
          <6>2. idx - v[2 * i - 1].width = jdx
            BY <4>4, <5>3
          <6> QED BY <2>2, <2>3, <2>4, <3>4, <4>2, <5>1, <6>1, <6>2 DEF Path
        <5>5. Leads(Steps, e[x], p[2 * i][jdx], w[2 * i].hash)
          <6>1. x \in d .. h
            BY <2>7, <3>2, <4>2, <4>9
          <6> QED BY <2>4, <4>1, <4>2, <5>3, <6>1
        <5>6. v[2 * i - 1].hash = w[2 * i - 1].hash
          <6>1. Agree(c, e, a, b)
            BY <4>2, <4>5, <4>9 DEF Agree
          <6> QED BY <2>5, <4>1, <4>2, <6>1
        <5>7. Leads(Steps, e[x], Append(p[2 * i][jdx], step), Combine(step, w[2 * i].hash))
          BY <5>2, <5>5, ClimbsFurther DEF Leads
        <5>8. Combine(step, w[2 * i].hash) = <<w[2 * i - 1].hash, w[2 * i].hash>>
          BY <5>1, <5>6 DEF Combine
        <5> QED BY <3>2, <3>3, <4>3, <5>4, <5>7, <5>8
      <4> QED BY <4>8, <4>9
    <3> QED BY <3>1, <3>5, <3>6
  <2> QED BY <2>1, <2>2, <2>7
<1>6. ASSUME NEW k \in Nat, k \in N PROVE k + 1 \in N
  <2> HIDE DEF Tells
  <2> QED BY <1>5, <1>6
<1>7. n \in N
  <2> HIDE DEF N
  <2> QED BY <1>4, <1>6, EveryNumber
<1>8. f[n].lo[1] = 1 /\ f[n].hi[1] = n /\ x - 1 + 1 = x
  BY DEF Shape, Spans
<1> QED BY <1>1, <1>2, <1>7, <1>8

\* The first place of an element.
LEMMA PlaceFound ==
    ASSUME NEW n \in Nat, NEW c \in [1 .. n -> MValues], NEW i \in 1 .. n
    PROVE  PlaceOf(c, c[i]) \in 1 .. n /\ c[PlaceOf(c, c[i])] = c[i]
<1>1. PICK y : y = c[i]
  OBVIOUS
<1> DEFINE N == {j \in Nat : j \in 1 .. n /\ c[j] = y}
<1>2. PICK j \in N : \A k \in N : j <= k
  <2>1. i \in N /\ N \subseteq Nat
    BY <1>1
  <2> HIDE DEF N
  <2> QED BY <2>1, LeastNumber
<1>3. \A k \in 1 .. j - 1 : c[k] # y
  <2> SUFFICES ASSUME NEW k \in 1 .. j - 1, c[k] = y PROVE FALSE
    OBVIOUS
  <2>1. k \in N /\ ~ (j <= k)
    BY <1>2
  <2> QED BY <1>2, <2>1
<1>4. \E k \in 1 .. n : c[k] = y /\ \A m \in 1 .. k - 1 : c[m] # y
  BY <1>2, <1>3
<1>5. PlaceOf(c, y) = CHOOSE k \in 1 .. n : c[k] = y /\ \A m \in 1 .. k - 1 : c[m] # y
  BY DEF PlaceOf
<1>6. PlaceOf(c, y) \in 1 .. n /\ c[PlaceOf(c, y)] = y
  BY <1>4, <1>5
<1> QED BY <1>1, <1>6

\* The differences diff finds.
LEMMA DiffIsExact ==
    ASSUME NEW n \in Nat \ {0}, NEW c \in [1 .. n -> MValues], NEW d \in [1 .. n -> MValues]
    PROVE  Diff(c, d) = {x \in 1 .. n : c[x] # d[x]}
<1>1. PICK f : Shape(f, n, n) /\ f[n].size = 1
  BY ShapeExists
<1>2. Grown(n, f, c, BuildTree(c)) /\ Grown(n, f, d, BuildTree(d)) /\ Len(c) = n
  BY <1>1, TreeGrows
<1>3. DiffIn(BuildTree(c), BuildTree(d), n)[n][1] = {x \in 1 .. n : c[x] # d[x]}
  BY <1>1, <1>2, DiffsTell
<1> QED BY <1>2, <1>3 DEF Diff

\* The proof of the element at place x of c makes d's root hash of a claim just
\* when d is c with the claim at x.
LEMMA ProofsTell ==
    ASSUME NEW n \in Nat \ {0}, NEW c \in [1 .. n -> MValues], NEW d \in [1 .. n -> MValues],
           NEW y, NEW x \in 1 .. n, x = PlaceOf(c, y), NEW claim \in MValues
    PROVE  VerifyProof(Root(d), claim, GenerateProof(c, y))
             <=> d = [c EXCEPT ![x] = claim]
<1>1. PICK f : Shape(f, n, n) /\ f[n].size = 1
  BY ShapeExists
<1>2. PICK e \in [1 .. n -> MValues] : e = [c EXCEPT ![x] = claim]
  OBVIOUS
<1>3. e[x] = claim /\ \A z \in 1 .. n : z # x => c[z] = e[z]
  BY <1>2
<1>4. PICK t, u, v : t = BuildTree(c) /\ u = BuildTree(e) /\ v = BuildTree(d)
  OBVIOUS
<1>5. /\ Grown(n, f, c, t) /\ Grown(n, f, e, u) /\ Grown(n, f, d, v)
      /\ Len(c) = n /\ Len(e) = n /\ Len(d) = n
  BY <1>1, <1>4, TreeGrows
<1>6. Leads(StepsOf(t), e[x], PathsIn(t, n)[n][1][x], u[n][1].hash)
  BY <1>1, <1>3, <1>5, PathsTell
<1>7. GenerateProof(c, y) = PathsIn(t, n)[n][1][x] /\ Root(d) = v[n][1].hash
  BY <1>4, <1>5 DEF GenerateProof, Root
<1>8. VerifyProof(Root(d), claim, GenerateProof(c, y)) <=> u[n][1].hash = v[n][1].hash
  <2>1. Climbs(claim, GenerateProof(c, y), u[n][1].hash)
    BY <1>3, <1>6, <1>7 DEF Leads
  <2> QED BY <1>7, <2>1, VerifyClimbs
<1>9. u[n][1].hash = v[n][1].hash <=> Agree(e, d, 1, n)
  <2>1. n \in 0 .. n /\ 1 \in 1 .. f[n].size /\ f[n].lo[1] = 1 /\ f[n].hi[1] = n
    BY <1>1 DEF Shape, Spans
  <2>2. u[n][1].hash = v[n][1].hash <=> Agree(e, d, f[n].lo[1], f[n].hi[1])
    BY <1>1, <1>5, <2>1, HashesTell
  <2> QED BY <2>1, <2>2
<1>10. Agree(e, d, 1, n) <=> d = e
  BY DEF Agree
<1> QED BY <1>2, <1>8, <1>9, <1>10

-----------------------------------------------------------------------------
(* Hash trees: the heap over the buckets.                                   *)

\* What a node hashes, h the hashes below.
HashAt(copy, h, node) ==
    IF node >= mBuckets THEN <<Bucket(copy, node - mBuckets)>> ELSE <<h[2 * node], h[2 * node + 1]>>

\* build fills the heap.
LEMMA HashesAreBuilt ==
    ASSUME mBuckets \in Nat \ {0}, NEW copy
    PROVE  \A node \in Heap : Hashes(copy)[node] = HashAt(copy, Hashes(copy), node)
<1>1. PICK b \in Nat \ {0} : b = mBuckets
  OBVIOUS
<1> DEFINE From(j) == {node \in 1 .. 2 * b - 1 : 2 * b - 1 < node + j}
           Built(g, D) == g = [node \in D |-> HashAt(copy, g, node)]
           N == {j \in Nat : \E g : Built(g, From(j))}
<1>2. 0 \in N
  <2>1. From(0) = {}
    OBVIOUS
  <2>2. PICK g : g = [node \in {} |-> 0]
    OBVIOUS
  <2>3. g = [node \in {} |-> HashAt(copy, g, node)]
    BY <2>2
  <2> QED BY <2>1, <2>3
<1>3. ASSUME NEW j \in Nat, j \in N PROVE j + 1 \in N
  <2>1. PICK g : Built(g, From(j))
    BY <1>3
  <2>2. PICK h : h = [node \in From(j + 1) |-> HashAt(copy, g, node)]
    OBVIOUS
  <2>3. ASSUME NEW node \in From(j) PROVE node \in From(j + 1) /\ h[node] = g[node]
    <3>1. node \in From(j + 1)
      OBVIOUS
    <3>2. h[node] = HashAt(copy, g, node)
      <4> HIDE DEF From
      <4> QED BY <2>2, <3>1
    <3>3. g[node] = HashAt(copy, g, node)
      <4> HIDE DEF From
      <4> QED BY <2>1
    <3> QED BY <3>1, <3>2, <3>3
  <2>4. ASSUME NEW node \in From(j + 1) PROVE HashAt(copy, g, node) = HashAt(copy, h, node)
    <3>1. CASE node >= mBuckets
      BY <3>1 DEF HashAt
    <3>2. CASE ~ (node >= mBuckets)
      <4>1. 2 * node \in From(j) /\ 2 * node + 1 \in From(j)
        BY <1>1, <3>2
      <4>2. h[2 * node] = g[2 * node] /\ h[2 * node + 1] = g[2 * node + 1]
        <5> HIDE DEF From
        <5> QED BY <2>3, <4>1
      <4> QED BY <3>2, <4>2 DEF HashAt
    <3> QED BY <3>1, <3>2
  <2>5. Built(h, From(j + 1))
    <3> HIDE DEF From
    <3> QED BY <2>2, <2>4
  <2> QED BY <2>5
<1>4. 2 * b \in N
  <2> HIDE DEF N
  <2> QED BY <1>2, <1>3, EveryNumber
<1>5. From(2 * b) = 1 .. 2 * b - 1
  OBVIOUS
<1>6. Heap = 1 .. 2 * b - 1
  BY <1>1 DEF Heap
<1>7. \E g : Built(g, Heap)
  BY <1>4, <1>5, <1>6
<1>8. PICK g : g = CHOOSE x : Built(x, Heap)
  OBVIOUS
<1>9. Built(g, Heap)
  <2> HIDE DEF Built
  <2> QED BY <1>7, <1>8
<1>10. Hashes(copy) = g
  BY <1>8 DEF Hashes, HashAt
<1>11. ASSUME NEW node \in Heap PROVE g[node] = HashAt(copy, g, node)
  BY <1>9
<1> QED BY <1>10, <1>11

\* The keys a node gives, k those the nodes below give.
KeysAt(c, d, k, node) ==
    IF Hashes(c)[node] = Hashes(d)[node] THEN {}
    ELSE IF node >= mBuckets THEN Listed(c, d, node - mBuckets)
    ELSE k[2 * node] \cup k[2 * node + 1]

\* compare_trees goes through the heap.
LEMMA KeysAreCompared ==
    ASSUME mBuckets \in Nat \ {0}, NEW c, NEW d
    PROVE  \A node \in Heap : CompareFrom(c, d)[node] = KeysAt(c, d, CompareFrom(c, d), node)
<1>1. PICK b \in Nat \ {0} : b = mBuckets
  OBVIOUS
<1> DEFINE From(j) == {node \in 1 .. 2 * b - 1 : 2 * b - 1 < node + j}
           Built(g, D) == g = [node \in D |-> KeysAt(c, d, g, node)]
           N == {j \in Nat : \E g : Built(g, From(j))}
<1>2. 0 \in N
  <2>1. From(0) = {}
    OBVIOUS
  <2>2. PICK g : g = [node \in {} |-> 0]
    OBVIOUS
  <2>3. g = [node \in {} |-> KeysAt(c, d, g, node)]
    BY <2>2
  <2> QED BY <2>1, <2>3
<1>3. ASSUME NEW j \in Nat, j \in N PROVE j + 1 \in N
  <2>1. PICK g : Built(g, From(j))
    BY <1>3
  <2>2. PICK h : h = [node \in From(j + 1) |-> KeysAt(c, d, g, node)]
    OBVIOUS
  <2>3. ASSUME NEW node \in From(j) PROVE node \in From(j + 1) /\ h[node] = g[node]
    <3>1. node \in From(j + 1)
      OBVIOUS
    <3>2. h[node] = KeysAt(c, d, g, node)
      <4> HIDE DEF From
      <4> QED BY <2>2, <3>1
    <3>3. g[node] = KeysAt(c, d, g, node)
      <4> HIDE DEF From
      <4> QED BY <2>1
    <3> QED BY <3>1, <3>2, <3>3
  <2>4. ASSUME NEW node \in From(j + 1) PROVE KeysAt(c, d, g, node) = KeysAt(c, d, h, node)
    <3>1. CASE node >= mBuckets
      BY <3>1 DEF KeysAt
    <3>2. CASE ~ (node >= mBuckets)
      <4>1. 2 * node \in From(j) /\ 2 * node + 1 \in From(j)
        BY <1>1, <3>2
      <4>2. h[2 * node] = g[2 * node] /\ h[2 * node + 1] = g[2 * node + 1]
        <5> HIDE DEF From
        <5> QED BY <2>3, <4>1
      <4> QED BY <3>2, <4>2 DEF KeysAt
    <3> QED BY <3>1, <3>2
  <2>5. Built(h, From(j + 1))
    <3> HIDE DEF From
    <3> QED BY <2>2, <2>4
  <2> QED BY <2>5
<1>4. 2 * b \in N
  <2> HIDE DEF N
  <2> QED BY <1>2, <1>3, EveryNumber
<1>5. From(2 * b) = 1 .. 2 * b - 1
  OBVIOUS
<1>6. Heap = 1 .. 2 * b - 1
  BY <1>1 DEF Heap
<1>7. \E g : Built(g, Heap)
  BY <1>4, <1>5, <1>6
<1>8. PICK g : g = CHOOSE x : Built(x, Heap)
  OBVIOUS
<1>9. Built(g, Heap)
  <2> HIDE DEF Built
  <2> QED BY <1>7, <1>8
<1>10. CompareFrom(c, d) = g
  BY <1>8 DEF CompareFrom, KeysAt
<1>11. ASSUME NEW node \in Heap PROVE g[node] = KeysAt(c, d, g, node)
  BY <1>9
<1> QED BY <1>10, <1>11

Apiece(c, d) == {z \in 0 .. mBuckets - 1 : Bucket(c, z) # Bucket(d, z)}

\* compare_trees gives what the buckets that differ hold, all of them.
LEMMA CompareIsExact ==
    ASSUME mBuckets \in Nat \ {0}, NEW c, NEW d
    PROVE  CompareTrees(c, d) = UNION {Listed(c, d, z) : z \in Apiece(c, d)}
<1>1. PICK b \in Nat \ {0} : b = mBuckets
  OBVIOUS
<1>2. PICK ours, theirs, keys : ours = Hashes(c) /\ theirs = Hashes(d) /\ keys = CompareFrom(c, d)
  OBVIOUS
<1>3. Heap = 1 .. 2 * b - 1
  BY <1>1 DEF Heap
<1>4. PICK Goal : Goal = UNION {Listed(c, d, z) : z \in Apiece(c, d)}
  OBVIOUS
<1>5. ASSUME NEW node \in 1 .. 2 * b - 1, node >= b
      PROVE  /\ node - b \in 0 .. b - 1
             /\ ours[node] = theirs[node] <=> node - b \notin Apiece(c, d)
             /\ ours[node] # theirs[node] => keys[node] = Listed(c, d, node - b)
             /\ ours[node] = theirs[node] => keys[node] = {}
  <2>1. ours[node] = HashAt(c, ours, node) /\ theirs[node] = HashAt(d, theirs, node)
    BY <1>2, <1>3, HashesAreBuilt
  <2>2. keys[node] = KeysAt(c, d, keys, node)
    BY <1>2, <1>3, KeysAreCompared
  <2>3. node - b \in 0 .. b - 1
    BY <1>5
  <2>4. ours[node] = <<Bucket(c, node - b)>> /\ theirs[node] = <<Bucket(d, node - b)>>
    BY <1>1, <1>5, <2>1 DEF HashAt
  <2> QED BY <1>1, <1>2, <1>5, <2>2, <2>3, <2>4 DEF KeysAt, Apiece
<1>6. ASSUME NEW node \in 1 .. 2 * b - 1, ~ (node >= b)
      PROVE  /\ ours[node] = theirs[node] <=>
                    ours[2 * node] = theirs[2 * node] /\ ours[2 * node + 1] = theirs[2 * node + 1]
             /\ ours[node] # theirs[node] => keys[node] = keys[2 * node] \cup keys[2 * node + 1]
             /\ ours[node] = theirs[node] => keys[node] = {}
  <2>1. ours[node] = HashAt(c, ours, node) /\ theirs[node] = HashAt(d, theirs, node)
    BY <1>2, <1>3, HashesAreBuilt
  <2>2. keys[node] = KeysAt(c, d, keys, node)
    BY <1>2, <1>3, KeysAreCompared
  <2>3. /\ ours[node] = <<ours[2 * node], ours[2 * node + 1]>>
        /\ theirs[node] = <<theirs[2 * node], theirs[2 * node + 1]>>
    BY <1>1, <1>6, <2>1 DEF HashAt
  <2> QED BY <1>1, <1>2, <1>6, <2>2, <2>3 DEF KeysAt
<1>7. keys[1] \subseteq Goal
  <2> DEFINE N == {j \in Nat : \A node \in 1 .. 2 * b - 1 : 2 * b - 1 < node + j => keys[node] \subseteq Goal}
  <2>1. 0 \in N
    OBVIOUS
  <2>2. ASSUME NEW j \in Nat, j \in N PROVE j + 1 \in N
    <3> SUFFICES ASSUME NEW node \in 1 .. 2 * b - 1, 2 * b - 1 < node + (j + 1)
                 PROVE  keys[node] \subseteq Goal
      OBVIOUS
    <3>1. CASE node >= b
      BY <1>4, <1>5, <3>1
    <3>2. CASE ~ (node >= b)
      <4>1. /\ 2 * node \in 1 .. 2 * b - 1 /\ 2 * node + 1 \in 1 .. 2 * b - 1
            /\ 2 * b - 1 < 2 * node + j /\ 2 * b - 1 < (2 * node + 1) + j
        BY <3>2
      <4>2. keys[2 * node] \subseteq Goal /\ keys[2 * node + 1] \subseteq Goal
        BY <2>2, <4>1
      <4> QED BY <1>6, <3>2, <4>2
    <3> QED BY <3>1, <3>2
  <2>3. 2 * b \in N
    <3> HIDE DEF N
    <3> QED BY <2>1, <2>2, EveryNumber
  <2>4. 1 \in 1 .. 2 * b - 1 /\ 2 * b - 1 < 1 + 2 * b
    OBVIOUS
  <2> QED BY <2>3, <2>4
<1>8. ASSUME NEW z \in Apiece(c, d) PROVE Listed(c, d, z) \subseteq keys[1]
  <2> DEFINE Lit == {node \in 1 .. 2 * b - 1 : ours[node] # theirs[node] /\ Listed(c, d, z) \subseteq keys[node]}
  <2>1. z + b \in Lit
    <3>1. z \in 0 .. b - 1
      BY <1>1 DEF Apiece
    <3>2. z + b \in 1 .. 2 * b - 1 /\ z + b >= b /\ (z + b) - b = z
      BY <3>1
    <3>3. ours[z + b] # theirs[z + b] /\ keys[z + b] = Listed(c, d, z)
      BY <1>5, <3>2
    <3> QED BY <3>2, <3>3
  <2>2. PICK node \in Lit : \A x \in Lit : node <= x
    <3>1. Lit \in SUBSET Nat /\ Lit # {}
      BY <2>1
    <3> HIDE DEF Lit
    <3> QED BY <3>1, LeastNumber
  <2>3. node = 1
    <3> SUFFICES ASSUME node # 1 PROVE FALSE
      OBVIOUS
    <3>1. PICK h \in Nat : node = 2 * h \/ node = 2 * h + 1
      <4>1. node \in Nat
        BY <2>2
      <4> QED BY <4>1, Half
    <3>2. h \in 1 .. 2 * b - 1 /\ ~ (h >= b) /\ h < node
      BY <2>2, <3>1
    <3>3. ours[node] # theirs[node] /\ Listed(c, d, z) \subseteq keys[node]
      BY <2>2
    <3>4. ours[h] # theirs[h] /\ keys[h] = keys[2 * h] \cup keys[2 * h + 1]
      BY <1>6, <3>1, <3>2, <3>3
    <3>5. h \in Lit
      BY <3>1, <3>2, <3>3, <3>4
    <3> QED BY <2>2, <3>2, <3>5
  <2> QED BY <2>2, <2>3
<1>9. keys[1] = Goal
  BY <1>4, <1>7, <1>8
<1> QED BY <1>2, <1>4, <1>9 DEF CompareTrees

Unlike(c, d, z) == \E k \in Blocks : mHashKey[k] = z /\ c[k] # d[k]

\* What is in a bucket, and when it differs.
LEMMA BucketsTell ==
    ASSUME NEW c, NEW d, MAbsent \in MValues, NEW z
    PROVE  /\ Bucket(c, z) # Bucket(d, z) <=> Unlike(c, d, z)
           /\ Listed(c, d, z) = {k \in Blocks : mHashKey[k] = z /\ (c[k] # MAbsent \/ d[k] # MAbsent)}
<1>1. ASSUME NEW e, NEW k
      PROVE  k \in KeysIn(e, z) <=> k \in Blocks /\ mHashKey[k] = z /\ e[k] # MAbsent
  <2>1. ASSUME k \in KeysIn(e, z) PROVE k \in Blocks /\ mHashKey[k] = z /\ e[k] # MAbsent
    <3>1. PICK p \in Bucket(e, z) : k = p[1]
      BY <2>1 DEF KeysIn
    <3>2. PICK j \in {i \in Blocks : mHashKey[i] = z /\ e[i] # MAbsent} : p = <<j, e[j]>>
      BY DEF Bucket
    <3> QED BY <3>1, <3>2
  <2>2. ASSUME k \in Blocks, mHashKey[k] = z, e[k] # MAbsent PROVE k \in KeysIn(e, z)
    <3>1. <<k, e[k]>> \in Bucket(e, z) /\ <<k, e[k]>>[1] = k
      BY <2>2 DEF Bucket
    <3> QED BY <3>1 DEF KeysIn
  <2> QED BY <2>1, <2>2
<1>2. ASSUME NEW e, NEW k, NEW v
      PROVE  <<k, v>> \in Bucket(e, z) <=> k \in Blocks /\ mHashKey[k] = z /\ e[k] # MAbsent /\ v = e[k]
  BY DEF Bucket
<1>3. ASSUME NEW k \in Blocks, mHashKey[k] = z, c[k] # d[k] PROVE Bucket(c, z) # Bucket(d, z)
  <2>1. <<k, c[k]>> \in Bucket(c, z) <=> c[k] # MAbsent
    BY <1>2, <1>3
  <2>2. <<k, c[k]>> \notin Bucket(d, z)
    BY <1>2, <1>3
  <2>3. <<k, d[k]>> \in Bucket(d, z) <=> d[k] # MAbsent
    BY <1>2, <1>3
  <2>4. <<k, d[k]>> \notin Bucket(c, z)
    BY <1>2, <1>3
  <2> QED BY <1>3, <2>1, <2>2, <2>3, <2>4
<1>4. ASSUME \A k \in Blocks : mHashKey[k] = z => c[k] = d[k] PROVE Bucket(c, z) = Bucket(d, z)
  BY <1>4 DEF Bucket
<1>5. Listed(c, d, z) = {k \in Blocks : mHashKey[k] = z /\ (c[k] # MAbsent \/ d[k] # MAbsent)}
  <2>1. ASSUME NEW k
        PROVE  k \in Listed(c, d, z) <=>
                  k \in Blocks /\ mHashKey[k] = z /\ (c[k] # MAbsent \/ d[k] # MAbsent)
    BY <1>1 DEF Listed
  <2> QED BY <2>1
<1> QED BY <1>3, <1>4, <1>5 DEF Unlike

\* Two copies of as many blocks, every key in a bucket.
MInv ==
    \E size \in MSizes :
        /\ mCopy \in [1 .. 2 -> [1 .. size -> MValues]]
        /\ mBuckets \in Nat \ {0} /\ \A k \in 1 .. size : mHashKey[k] \in 0 .. mBuckets - 1

LEMMA CopiesKept == MSpec => []MInv
<1>1. MInit => MInv
  <2> SUFFICES ASSUME MInit PROVE MInv
    OBVIOUS
  <2>1. PICK b \in MBucketings : mBuckets = b[1] /\ mHashKey = b[2]
    BY DEF MInit
  <2>2. PICK size \in MSizes : mCopy = [c \in 1 .. 2 |-> [i \in 1 .. size |-> MAbsent]]
    BY DEF MInit
  <2>3. mCopy \in [1 .. 2 -> [1 .. size -> MValues]]
    BY <2>2, MerkleAssumption
  <2>4. mBuckets \in Nat \ {0} /\ \A k \in 1 .. size : mHashKey[k] \in 0 .. mBuckets - 1
    BY <2>1, MerkleAssumption
  <2> QED BY <2>3, <2>4 DEF MInv
<1>2. MInv /\ [MNext]_mVars => MInv'
  <2> SUFFICES ASSUME MInv, [MNext]_mVars PROVE MInv'
    OBVIOUS
  <2>1. PICK size \in MSizes :
           /\ mCopy \in [1 .. 2 -> [1 .. size -> MValues]]
           /\ mBuckets \in Nat \ {0} /\ \A k \in 1 .. size : mHashKey[k] \in 0 .. mBuckets - 1
    BY DEF MInv
  <2>2. CASE UNCHANGED mVars
    BY <2>1, <2>2 DEF MInv, mVars
  <2>3. ASSUME NEW c \in 1 .. 2, NEW i \in Blocks, NEW v \in MValues, ChangeBlock(c, i, v) PROVE MInv'
    <3>1. mCopy' \in [1 .. 2 -> [1 .. size -> MValues]]
      BY <2>1, <2>3 DEF ChangeBlock
    <3>2. mBuckets' \in Nat \ {0} /\ \A k \in 1 .. size : mHashKey'[k] \in 0 .. mBuckets' - 1
      BY <2>1, <2>3 DEF ChangeBlock
    <3> QED BY <3>1, <3>2 DEF MInv
  <2> QED BY <2>2, <2>3 DEF MNext
<1> QED BY <1>1, <1>2, PTL DEF MSpec

\* However many blocks and buckets there are: diff names the places where the two
\* lists differ and no other (merkle_tree.py:228), compare_trees the keys of the
\* buckets where the two dictionaries differ (anti_entropy.py:61).
THEOREM DifferencesAreAllFound == MSpec => []DifferencesAreFound
<1>1. MInv => DifferencesAreFound
  <2> SUFFICES ASSUME MInv PROVE DifferencesAreFound
    OBVIOUS
  <2>1. PICK size \in MSizes :
           /\ mCopy \in [1 .. 2 -> [1 .. size -> MValues]]
           /\ mBuckets \in Nat \ {0} /\ \A k \in 1 .. size : mHashKey[k] \in 0 .. mBuckets - 1
    BY DEF MInv
  <2>2. PICK n \in Nat \ {0} : n = size
    BY MerkleAssumption
  <2>3. PICK c \in [1 .. n -> MValues], d \in [1 .. n -> MValues] : c = mCopy[1] /\ d = mCopy[2]
    <3>1. 1 \in 1 .. 2 /\ 2 \in 1 .. 2
      OBVIOUS
    <3>2. mCopy[1] \in [1 .. n -> MValues] /\ mCopy[2] \in [1 .. n -> MValues]
      BY <2>1, <2>2, <3>1
    <3> QED BY <3>2
  <2>4. Blocks = 1 .. n /\ Differing = {x \in 1 .. n : c[x] # d[x]}
    BY <2>3 DEF Blocks, Differing
  <2>5. Diff(c, d) = Differing
    BY <2>4, DiffIsExact
  <2> DEFINE spoilt == {mHashKey[k] : k \in Differing}
             found == {k \in Blocks : mHashKey[k] \in spoilt /\ \E e \in 1 .. 2 : mCopy[e][k] # MAbsent}
  <2>6. CompareTrees(c, d) = UNION {Listed(c, d, z) : z \in Apiece(c, d)}
    BY <2>1, CompareIsExact
  <2>7. Apiece(c, d) = spoilt
    <3>1. ASSUME NEW z PROVE Bucket(c, z) # Bucket(d, z) <=> Unlike(c, d, z)
      BY MerkleAssumption, BucketsTell
    <3>2. ASSUME NEW z \in Apiece(c, d) PROVE z \in spoilt
      BY <2>4, <3>1 DEF Apiece, Unlike
    <3>3. ASSUME NEW k \in Differing PROVE mHashKey[k] \in Apiece(c, d)
      BY <2>1, <2>2, <2>4, <3>1 DEF Apiece, Unlike
    <3> QED BY <3>2, <3>3
  <2>8. ASSUME NEW z
        PROVE  Listed(c, d, z) = {k \in Blocks : mHashKey[k] = z /\ (c[k] # MAbsent \/ d[k] # MAbsent)}
    BY MerkleAssumption, BucketsTell
  <2>9. ASSUME NEW k PROVE k \in CompareTrees(c, d) <=> k \in found
    <3>1. (\E e \in 1 .. 2 : mCopy[e][k] # MAbsent) <=> (c[k] # MAbsent \/ d[k] # MAbsent)
      <4>1. \A e \in 1 .. 2 : e = 1 \/ e = 2
        OBVIOUS
      <4>2. 1 \in 1 .. 2 /\ 2 \in 1 .. 2
        OBVIOUS
      <4> QED BY <2>3, <4>1, <4>2
    <3>2. k \in CompareTrees(c, d) <=> \E z \in spoilt : k \in Listed(c, d, z)
      BY <2>6, <2>7
    <3>3. k \in CompareTrees(c, d) <=> k \in Blocks /\ mHashKey[k] \in spoilt /\ (c[k] # MAbsent \/ d[k] # MAbsent)
      <4> HIDE DEF spoilt
      <4> QED BY <2>8, <3>2
    <3> QED BY <3>1, <3>3
  <2>10. CompareTrees(c, d) = found
    <3> HIDE DEF found
    <3>1. CompareTrees(c, d) \subseteq found /\ found \subseteq CompareTrees(c, d)
      BY <2>9
    <3> QED BY <3>1
  <2> QED BY <2>3, <2>5, <2>10 DEF DifferencesAreFound
<1> QED BY <1>1, CopiesKept, PTL

\* However many blocks there are, a proof of inclusion taken from one copy is
\* accepted under another's root hash for what that copy holds at the place and
\* for nothing else; under its own, for the element it was made for
\* (merkle_tree.py:140, 202).
THEOREM ProofsProveInclusion == MSpec => []ProofsProve
<1>1. MInv => ProofsProve
  <2> SUFFICES ASSUME MInv PROVE ProofsProve
    OBVIOUS
  <2>1. PICK size \in MSizes : mCopy \in [1 .. 2 -> [1 .. size -> MValues]]
    BY DEF MInv
  <2>2. PICK n \in Nat \ {0} : n = size
    BY MerkleAssumption
  <2>3. Blocks = 1 .. n /\ \A c \in 1 .. 2 : mCopy[c] \in [1 .. n -> MValues]
    BY <2>1, <2>2 DEF Blocks
  <2>4. ASSUME NEW c \in 1 .. 2, NEW d \in 1 .. 2, NEW i \in 1 .. n, NEW claim \in MValues, NEW y, y = mCopy[c][i]
        PROVE  LET accepted == VerifyProof(Root(mCopy[d]), claim, GenerateProof(mCopy[c], y))
               IN /\ accepted => mCopy[d][PlaceOf(mCopy[c], y)] = claim
                  /\ c = d => (accepted <=> claim = y)
    <3>1. PICK a \in [1 .. n -> MValues], b \in [1 .. n -> MValues] : a = mCopy[c] /\ b = mCopy[d]
      BY <2>3
    <3>2. PICK x \in 1 .. n : x = PlaceOf(a, y) /\ a[x] = y
      BY <2>4, <3>1, PlaceFound
    <3>3. VerifyProof(Root(b), claim, GenerateProof(a, y)) <=> b = [a EXCEPT ![x] = claim]
      BY <3>2, ProofsTell
    <3>4. b = [a EXCEPT ![x] = claim] => b[x] = claim
      OBVIOUS
    <3>5. c = d => (b = [a EXCEPT ![x] = claim] <=> claim = y)
      BY <3>1, <3>2, <3>4
    <3> QED BY <3>1, <3>2, <3>3, <3>4, <3>5
  <2> QED BY <2>3, <2>4 DEF ProofsProve
<1> QED BY <1>1, CopiesKept, PTL
=============================================================================
