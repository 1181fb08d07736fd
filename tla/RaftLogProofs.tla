---------------------------- MODULE RaftLogProofs ----------------------------
(***************************************************************************)
(* Safety of the replicated log of raft-from-scratch, for every cluster,   *)
(* every set of commands and every bound: logs match, state machines agree *)
(* and what a client was told is never forgotten, whatever calls are lost, *)
(* repeated by a retry, handled late or by a restarted node.               *)
(*                                                                         *)
(* Two hypotheses stand for what the code does not enforce by itself: a    *)
(* call is over before its caller's next election (Timely), and no handled *)
(* AppendEntries brings, for an index inside the receiver's snapshot, an   *)
(* entry of another term than the snapshot's (NoConflictBelowSnapshot):    *)
(* get_term answers for such an index with the snapshot's term, and        *)
(* truncate does nothing there.                                            *)
(***************************************************************************)
EXTENDS RaftProofs, SequenceTheorems, WellFoundedInduction

\* The loop of handle_append_entries meets no conflict inside the snapshot.
MergesAboveSnapshot(c) ==
    \A k \in 1 .. Len(c.entries) :
        c.prevLogIndex + k <= log[c.to].lastIncludedIndex =>
            c.entries[k].term = log[c.to].lastIncludedTerm

NoConflictBelowSnapshot ==
    [][\A c \in appendCalls : HandleAppendEntries(c) => MergesAboveSnapshot(c)]_vars

-------------------------------------------------------------------------------
(* What has happened so far, in five values that no variable records and    *)
(* that the invariant says exist:                                           *)
(*   whole[n]  the log of node n as if it had never been compacted;         *)
(*   won       the terms that had a leader, and                             *)
(*   lead[t]   the log of the leader of term t, up to its last entry;       *)
(*   cast      the votes cast: <<candidate, term, voter>>;                  *)
(*   kept      <<node, t, i>>: the node stored entry i of term t's leader,  *)
(*             an entry of term t itself, in that term or later.            *)

\* The sequence l holds at index i an entry of term t.
Has(l, t, i) == i \in 1 .. Len(l) /\ l[i].term = t

\* Two logs are the same up to index i.
Agree(a, b, i) == /\ i <= Len(a) /\ i <= Len(b)
                  /\ \A j \in 1 .. i : a[j] = b[j]

\* l is the value log of a node whose whole log is w.
IsView(l, w) ==
    /\ DOMAIN l = {"entries", "lastIncludedIndex", "lastIncludedTerm"}
    /\ l.lastIncludedIndex \in 0 .. Len(w)
    /\ l.lastIncludedTerm \in Nat
    /\ l.lastIncludedIndex > 0 => l.lastIncludedTerm = w[l.lastIncludedIndex].term
    /\ l.entries \in Seq(LogEntry)
    /\ Len(l.entries) = Len(w) - l.lastIncludedIndex
    /\ \A j \in 1 .. Len(l.entries) : l.entries[j] = w[l.lastIncludedIndex + j]

\* Every entry of l was made by the leader of its term, at the latest in
\* term t, and up to that entry l is that leader's log.
FromLeaders(lead, won, l, t) ==
    \A i \in 1 .. Len(l) :
        l[i].term \in won /\ l[i].term <= t /\ Agree(l, lead[l[i].term], i)

\* A leader of a term after t and before s lacks entry i of term t.
Displaced(lead, won, t, i, s) == \E u \in won : t < u /\ u < s /\ ~Has(lead[u], t, i)

Voters(cast, n, t) == {v \in Node : <<n, t, v>> \in cast}
Keepers(kept, t, i) == {v \in Node : <<v, t, i>> \in kept}
Chosen(kept, t, i) == IsMajority(Keepers(kept, t, i))

\* Index i is covered by an entry that was chosen in term t or earlier.
Committed(kept, t, i) ==
    i = 0 \/ \E u, N \in Nat : u <= t /\ i <= N /\ Chosen(kept, u, N)

-------------------------------------------------------------------------------
(* The invariant, part by part.                                             *)

\* The leaders' logs continue each other, and no command is in two places.
Leaderships(lead, won) ==
    /\ lead \in [Nat -> Seq(LogEntry)]
    /\ won \subseteq Nat
    /\ \A t \in Nat : t \notin won => lead[t] = <<>>
    /\ \A t \in won : FromLeaders(lead, won, lead[t], t)
    /\ \A t \in won : \A i \in 1 .. Len(lead[t]) :
          /\ lead[t][i].command \in submitted
          /\ \A u \in won : \A j \in 1 .. Len(lead[u]) :
                lead[t][i].command = lead[u][j].command => i = j

\* A node's log is what is left of entries made by leaders, and what it has
\* applied is a beginning of them that reaches past its snapshot.
Logs(whole, lead, won) ==
    /\ whole \in [Node -> Seq(LogEntry)]
    /\ DOMAIN log = Node
    /\ applied \in [Node -> Seq(Command)]
    /\ \A n \in Node :
          /\ IsView(log[n], whole[n])
          /\ FromLeaders(lead, won, whole[n], currentTerm[n])
          /\ log[n].lastIncludedIndex <= CommitIndex(n)
          /\ CommitIndex(n) <= Len(whole[n])
          /\ \A j \in 1 .. CommitIndex(n) : applied[n][j] = whole[n][j].command

\* Votes are final, and those a candidate counts were cast.
Votes(cast) ==
    /\ cast \subseteq Node \X Nat \X Node
    /\ Ballots \subseteq cast
    /\ \A a, b \in cast : a[2] = b[2] /\ a[3] = b[3] => a[1] = b[1]
    /\ \A b \in cast :
          /\ b[2] <= currentTerm[b[1]]
          /\ b[2] <= currentTerm[b[3]]
          /\ b[2] = currentTerm[b[3]] => votedFor[b[3]] = b[1]

\* A leader was elected, and its log is the log of its term.
Reigns(whole, lead, won, cast) ==
    \A n \in Node : state[n] = "leader" =>
        /\ currentTerm[n] \in won
        /\ whole[n] = lead[currentTerm[n]]
        /\ IsMajority(Voters(cast, n, currentTerm[n]))

\* A RequestVote call under way describes the log its candidate still has,
\* for as long as its term has no leader.
VoteCallOK(c, whole, won) ==
    /\ c.lastLogIndex \in Nat /\ c.lastLogTerm \in Nat
    /\ c.term <= currentTerm[c.from]
    /\ c.stage # "answered" /\ state[c.from] = "candidate"
          /\ c.term = currentTerm[c.from] /\ c.term \notin won =>
             /\ c.lastLogIndex = Len(whole[c.from])
             /\ c.lastLogTerm = IF whole[c.from] = <<>> THEN 0
                                ELSE whole[c.from][Len(whole[c.from])].term

\* An AppendEntries call carries a piece of the log of its term's leader, and
\* one that succeeded left its entries on the receiver's disk.
AppendCallOK(c, lead, won, cast, kept) ==
    /\ c.prevLogIndex \in Nat /\ c.prevLogTerm \in Nat /\ c.leaderCommit \in Nat
    /\ c.entries \in Seq(LogEntry)
    /\ c.success \in BOOLEAN /\ c.stage \in Stage
    /\ c.from # c.to
    /\ c.term \in won /\ c.term <= currentTerm[c.from]
    /\ c.stage # "orphaned" /\ state[c.from] # "follower" => c.term = currentTerm[c.from]
    /\ IsMajority(Voters(cast, c.from, c.term))
    /\ c.prevLogIndex + Len(c.entries) <= Len(lead[c.term])
    /\ c.prevLogIndex > 0 => c.prevLogTerm = lead[c.term][c.prevLogIndex].term
    /\ \A k \in 1 .. Len(c.entries) : c.entries[k] = lead[c.term][c.prevLogIndex + k]
    /\ c.leaderCommit <= c.prevLogIndex + Len(c.entries)
    /\ Committed(kept, c.term, c.leaderCommit)
    /\ c.stage = "answered" /\ c.success =>
          \A i \in 1 .. c.prevLogIndex + Len(c.entries) :
              Has(lead[c.term], c.term, i) => <<c.to, c.term, i>> \in kept

\* A leader's view of its peers: what it counts as stored is stored.
Progress(whole, lead, kept) ==
    /\ nextIndex \in [Node -> [Node -> Nat]]
    /\ matchIndex \in [Node -> [Node -> Nat]]
    /\ \A n \in Node : state[n] = "leader" =>
          \A p \in Node :
              /\ nextIndex[n][p] \in 1 .. Len(whole[n]) + 1
              /\ matchIndex[n][p] <= Len(whole[n])
              /\ \A i \in 1 .. (IF p = n THEN Len(whole[n]) ELSE matchIndex[n][p]) :
                    Has(lead[currentTerm[n]], currentTerm[n], i) =>
                        <<p, currentTerm[n], i>> \in kept

\* What a node stored for a leader it still has, unless a later leader came
\* that did not have it.
Stores(whole, lead, won, kept) ==
    /\ kept \subseteq Node \X Nat \X Nat
    /\ \A k \in kept :
          /\ Has(lead[k[2]], k[2], k[3])
          /\ k[2] <= currentTerm[k[1]]
          /\ \/ Has(whole[k[1]], k[2], k[3])
             \/ Displaced(lead, won, k[2], k[3], currentTerm[k[1]] + 1)

\* A candidate of a term without a leader has what its voters had stored when
\* they voted ...
Candidates(whole, lead, won, cast, kept) ==
    \A b \in cast : state[b[1]] = "candidate" /\ currentTerm[b[1]] = b[2] /\ b[2] \notin won =>
        \A k \in kept : k[1] = b[3] /\ k[2] < b[2] =>
            Has(whole[b[1]], k[2], k[3]) \/ Displaced(lead, won, k[2], k[3], b[2])

\* ... and so has the leader of a term what the majority that elected it had.
WinnerOK(s, lead, won, cast, kept) ==
    \E n \in Node : \E Q \in SUBSET Voters(cast, n, s) :
        /\ IsMajority(Q)
        /\ s <= currentTerm[n]
        /\ ~(state[n] = "candidate" /\ currentTerm[n] = s)
        /\ \A k \in kept : k[1] \in Q /\ k[2] < s =>
              Has(lead[s], k[2], k[3]) \/ Displaced(lead, won, k[2], k[3], s)

Winners(lead, won, cast, kept) == \A s \in won : WinnerOK(s, lead, won, cast, kept)

\* What a node has applied is covered by a chosen entry of a leader it agrees
\* with, and so is what clients were told.
CommitOK(n, whole, lead, kept) ==
    CommitIndex(n) = 0 \/
    \E u, N \in Nat : /\ u <= currentTerm[n] /\ CommitIndex(n) <= N
                      /\ Chosen(kept, u, N)
                      /\ Agree(whole[n], lead[u], CommitIndex(n))

ResolvedOK(r, lead, kept) ==
    \E u, N \in Nat : Chosen(kept, u, N) /\ \E j \in 1 .. N : lead[u][j].command = r[2]

LogInv(whole, lead, won, cast, kept) ==
    /\ Leaderships(lead, won)
    /\ Logs(whole, lead, won)
    /\ Votes(cast)
    /\ Reigns(whole, lead, won, cast)
    /\ \A c \in voteCalls : VoteCallOK(c, whole, won)
    /\ \A c \in appendCalls : AppendCallOK(c, lead, won, cast, kept)
    /\ Progress(whole, lead, kept)
    /\ Stores(whole, lead, won, kept)
    /\ Candidates(whole, lead, won, cast, kept)
    /\ Winners(lead, won, cast, kept)
    /\ \A n \in Node : CommitOK(n, whole, lead, kept)
    /\ pending \subseteq Node \X (Nat \ {0}) \X Command
    /\ \A r \in resolved : ResolvedOK(r, lead, kept)

-------------------------------------------------------------------------------
(* Numbers.                                                                  *)

\* Every nonempty set of natural numbers has a least element.
LEMMA LeastNumber ==
    ASSUME NEW T \in SUBSET Nat, T # {}
    PROVE  \E x \in T : \A y \in T : x <= y
<1> DEFINE R == {ss \in Nat \X Nat : ss[1] < ss[2]}
<1>1. IsWellFoundedOn(R, Nat)
  BY NatLessThanWellFounded DEF OpToRel
<1>2. PICK x \in T : \A y \in T : <<y, x>> \notin R
  <2> HIDE DEF R
  <2> QED BY <1>1, WFMin
<1>3. ASSUME NEW y \in T PROVE x <= y
  <2>1. x \in Nat /\ y \in Nat /\ ~(<<y, x>> \in {ss \in Nat \X Nat : ss[1] < ss[2]})
    BY <1>2
  <2>2. ~(y < x)
    BY <2>1
  <2> QED BY <2>1, <2>2
<1> QED BY <1>3

\* Induction over the natural numbers, for a set.
LEMMA EveryNumber ==
    ASSUME NEW S, 0 \in S, \A n \in Nat : n \in S => n + 1 \in S
    PROVE  \A n \in Nat : n \in S
<1> SUFFICES ASSUME Nat \ S # {} PROVE FALSE
  OBVIOUS
<1>1. PICK x \in Nat \ S : \A y \in Nat \ S : x <= y
  BY LeastNumber
<1>2. x # 0 /\ x - 1 \in Nat /\ x - 1 \in S
  BY <1>1
<1>3. QED
  BY <1>1, <1>2

\* A set of numbers with an upper bound has a greatest element.
LEMMA GreatestNumber ==
    ASSUME NEW S \in SUBSET Nat, S # {}, NEW b \in Nat, \A x \in S : x <= b
    PROVE  Max(S) \in S /\ \A y \in S : Max(S) >= y
<1> DEFINE T == {b - x : x \in S}
<1>1. T \in SUBSET Nat /\ T # {}
  <2>1. \A x \in S : b - x \in Nat
    OBVIOUS
  <2>2. QED
    BY <2>1
<1>2. PICK d \in T : \A e \in T : d <= e
  <2> HIDE DEF T
  <2> QED BY <1>1, LeastNumber
<1>3. PICK x \in S : d = b - x
  BY <1>2
<1>4. \A y \in S : x >= y
  <2> SUFFICES ASSUME NEW y \in S PROVE x >= y
    OBVIOUS
  <2>1. b - x <= b - y
    BY <1>2, <1>3
  <2>2. QED
    BY <2>1
<1>5. QED
  BY <1>4 DEF Max

\* The smaller and the larger of two numbers.
LEMMA TwoNumbers ==
    ASSUME NEW a \in Nat, NEW b \in Nat
    PROVE  /\ Min({a, b}) = IF a <= b THEN a ELSE b
           /\ Max({a, b}) = IF a >= b THEN a ELSE b
<1>1. \A S, x : x \in S /\ (\A y \in S : x <= y) /\ S \subseteq Nat =>
          Min(S) \in S /\ \A y \in S : Min(S) <= y
  BY DEF Min
<1>2. Min({a, b}) \in {a, b} /\ \A y \in {a, b} : Min({a, b}) <= y
  <2>1. CASE a <= b
    BY <2>1, <1>1
  <2>2. CASE b <= a
    BY <2>2, <1>1
  <2>3. QED
    BY <2>1, <2>2
<1>3. \A x \in {a, b} : x <= a + b
  OBVIOUS
<1>4. Max({a, b}) \in {a, b} /\ \A y \in {a, b} : Max({a, b}) >= y
  BY <1>3, GreatestNumber
<1>5. QED
  BY <1>2, <1>4

-------------------------------------------------------------------------------
(* The operators of RaftLog, seen on the whole log.                          *)

\* The beginning and the end of a sequence (list slices in log.py).
LEMMA Slices ==
    ASSUME NEW S, NEW s \in Seq(S)
    PROVE  /\ \A n \in 0 .. Len(s) :
                 /\ SubSeq(s, 1, n) \in Seq(S)
                 /\ Len(SubSeq(s, 1, n)) = n
                 /\ \A j \in 1 .. n : SubSeq(s, 1, n)[j] = s[j]
           /\ \A m \in 1 .. Len(s) + 1 :
                 /\ SubSeq(s, m, Len(s)) \in Seq(S)
                 /\ Len(SubSeq(s, m, Len(s))) = Len(s) + 1 - m
                 /\ \A j \in 1 .. Len(s) + 1 - m : SubSeq(s, m, Len(s))[j] = s[m - 1 + j]
<1>1. Len(s) \in Nat /\ \A i \in 1 .. Len(s) : s[i] \in S
  BY LenProperties, ElementOfSeq
<1>2. ASSUME NEW n \in 0 .. Len(s)
      PROVE  /\ SubSeq(s, 1, n) \in Seq(S)
             /\ Len(SubSeq(s, 1, n)) = n
             /\ \A j \in 1 .. n : SubSeq(s, 1, n)[j] = s[j]
  <2>1. n \in Int /\ 1 \in Int /\ \A i \in 1 .. n : s[i] \in S
    BY <1>1
  <2>2. /\ SubSeq(s, 1, n) \in Seq(S)
        /\ Len(SubSeq(s, 1, n)) = IF 1 <= n THEN n - 1 + 1 ELSE 0
        /\ \A j \in 1 .. n - 1 + 1 : SubSeq(s, 1, n)[j] = s[1 + j - 1]
    BY <2>1, SubSeqProperties
  <2>3. QED
    BY <1>1, <2>2
<1>3. ASSUME NEW m \in 1 .. Len(s) + 1
      PROVE  /\ SubSeq(s, m, Len(s)) \in Seq(S)
             /\ Len(SubSeq(s, m, Len(s))) = Len(s) + 1 - m
             /\ \A j \in 1 .. Len(s) + 1 - m : SubSeq(s, m, Len(s))[j] = s[m - 1 + j]
  <2>1. m \in Int /\ Len(s) \in Int /\ \A i \in m .. Len(s) : s[i] \in S
    BY <1>1
  <2>2. /\ SubSeq(s, m, Len(s)) \in Seq(S)
        /\ Len(SubSeq(s, m, Len(s))) = IF m <= Len(s) THEN Len(s) - m + 1 ELSE 0
        /\ \A j \in 1 .. Len(s) - m + 1 : SubSeq(s, m, Len(s))[j] = s[m + j - 1]
    BY <2>1, SubSeqProperties
  <2>3. \A j \in 1 .. Len(s) + 1 - m : m + j - 1 = m - 1 + j /\ j \in 1 .. Len(s) - m + 1
    BY <1>1
  <2>4. QED
    BY <1>1, <2>2, <2>3
<1>4. QED
  BY <1>2, <1>3

\* Appending one entry.
LEMMA Appended ==
    ASSUME NEW S, NEW s \in Seq(S), NEW e \in S
    PROVE  /\ Append(s, e) \in Seq(S)
           /\ Len(s) \in Nat /\ Len(Append(s, e)) = Len(s) + 1
           /\ \A j \in 1 .. Len(s) : Append(s, e)[j] = s[j]
           /\ Append(s, e)[Len(s) + 1] = e
BY AppendProperties, LenProperties

\* Lengths, entries and terms of a log are those of the whole log, down to
\* the snapshot's last entry.
LEMMA ViewReads ==
    ASSUME NEW l, NEW w \in Seq(LogEntry), IsView(l, w)
    PROVE  /\ LogLen(l) = Len(w)
           /\ \A i \in l.lastIncludedIndex + 1 .. Len(w) :
                 EntryAt(l, i) = w[i] /\ GetTerm(l, i) = w[i].term
           /\ l.lastIncludedIndex > 0 =>
                 GetTerm(l, l.lastIncludedIndex) = w[l.lastIncludedIndex].term
           /\ GetTerm(l, 0) = 0
           /\ \A i \in 1 .. l.lastIncludedIndex : GetTerm(l, i) = l.lastIncludedTerm
           /\ LastTerm(l) = IF w = <<>> THEN 0 ELSE w[Len(w)].term
<1> DEFINE k == l.lastIncludedIndex
<1>1. /\ k \in Nat /\ Len(w) \in Nat /\ k <= Len(w)
      /\ Len(l.entries) = Len(w) - k
      /\ \A j \in 1 .. Len(l.entries) : l.entries[j] = w[k + j]
      /\ k > 0 => l.lastIncludedTerm = w[k].term
  BY DEF IsView
<1>2. LogLen(l) = Len(w)
  BY <1>1 DEF LogLen
<1>3. ASSUME NEW i \in k + 1 .. Len(w)
      PROVE  EntryAt(l, i) = w[i] /\ GetTerm(l, i) = w[i].term
  <2>1. i - k \in 1 .. Len(l.entries) /\ k + (i - k) = i /\ i > k /\ i # 0
    BY <1>1
  <2>2. EntryAt(l, i) = w[i]
    BY <2>1, <1>1 DEF EntryAt
  <2>3. QED
    BY <2>1, <2>2, <1>1 DEF GetTerm
<1>4. /\ k > 0 => GetTerm(l, k) = w[k].term
      /\ GetTerm(l, 0) = 0
      /\ \A i \in 1 .. k : GetTerm(l, i) = l.lastIncludedTerm
  BY <1>1 DEF GetTerm
<1>5. LastTerm(l) = IF w = <<>> THEN 0 ELSE w[Len(w)].term
  <2>1. CASE w = <<>>
    BY <2>1, <1>1, <1>2, <1>4 DEF LastTerm
  <2>2. CASE w # <<>> /\ k = Len(w)
    BY <2>2, <1>1, <1>2, <1>4 DEF LastTerm
  <2>3. CASE w # <<>> /\ k < Len(w)
    <3>1. Len(w) \in k + 1 .. Len(w)
      BY <2>3, <1>1
    <3>2. QED
      BY <2>3, <3>1, <1>2, <1>3 DEF LastTerm
  <2>4. QED
    BY <2>1, <2>2, <2>3, <1>1
<1>6. QED
  BY <1>2, <1>3, <1>4, <1>5

\* get_entries above the snapshot: the rest of the whole log.
LEMMA ViewEntries ==
    ASSUME NEW l, NEW w \in Seq(LogEntry), IsView(l, w),
           NEW i \in l.lastIncludedIndex + 1 .. Len(w) + 1
    PROVE  /\ GetEntries(l, i) \in Seq(LogEntry)
           /\ Len(GetEntries(l, i)) = Len(w) + 1 - i
           /\ \A j \in 1 .. Len(GetEntries(l, i)) : GetEntries(l, i)[j] = w[i - 1 + j]
<1> DEFINE k == l.lastIncludedIndex
<1>1. /\ k \in Nat /\ Len(w) \in Nat /\ k <= Len(w)
      /\ l.entries \in Seq(LogEntry)
      /\ Len(l.entries) = Len(w) - k
      /\ \A j \in 1 .. Len(l.entries) : l.entries[j] = w[k + j]
  BY DEF IsView
<1>2. Max({i, k + 1}) = i
  <2>1. i \in Nat /\ k + 1 \in Nat /\ i >= k + 1
    BY <1>1
  <2>2. QED
    BY <2>1, TwoNumbers
<1>3. GetEntries(l, i) = SubSeq(l.entries, i - k, Len(l.entries))
  BY <1>2 DEF GetEntries
<1>4. i - k \in 1 .. Len(l.entries) + 1
  BY <1>1
<1>5. /\ GetEntries(l, i) \in Seq(LogEntry)
      /\ Len(GetEntries(l, i)) = Len(l.entries) + 1 - (i - k)
      /\ \A j \in 1 .. Len(l.entries) + 1 - (i - k) :
            GetEntries(l, i)[j] = l.entries[(i - k) - 1 + j]
  <2>1. ASSUME NEW m \in 1 .. Len(l.entries) + 1
        PROVE  /\ SubSeq(l.entries, m, Len(l.entries)) \in Seq(LogEntry)
               /\ Len(SubSeq(l.entries, m, Len(l.entries))) = Len(l.entries) + 1 - m
               /\ \A j \in 1 .. Len(l.entries) + 1 - m :
                     SubSeq(l.entries, m, Len(l.entries))[j] = l.entries[m - 1 + j]
    BY <1>1, Slices
  <2>2. QED
    BY <2>1, <1>3, <1>4
<1>6. Len(GetEntries(l, i)) = Len(w) + 1 - i
  BY <1>1, <1>5
<1>7. ASSUME NEW j \in 1 .. Len(w) + 1 - i
      PROVE  GetEntries(l, i)[j] = w[i - 1 + j]
  <2>1. /\ j \in 1 .. Len(l.entries) + 1 - (i - k)
        /\ (i - k) - 1 + j \in 1 .. Len(l.entries)
        /\ k + ((i - k) - 1 + j) = i - 1 + j
    <3>1. k \in Nat /\ Len(w) \in Nat /\ i \in Nat /\ j \in Nat /\ i > k /\ j + i <= Len(w) + 1
      BY <1>1
    <3> HIDE DEF k
    <3>2. QED
      BY <3>1, <1>1
  <2>2. QED
    BY <2>1, <1>1, <1>5
<1>8. QED
  BY <1>5, <1>6, <1>7

\* submit_command and the loop of handle_append_entries append.
LEMMA ViewAppend ==
    ASSUME NEW l, NEW w \in Seq(LogEntry), IsView(l, w), NEW e \in LogEntry
    PROVE  IsView(AppendEntry(l, e), Append(w, e))
<1> DEFINE k == l.lastIncludedIndex
           m == AppendEntry(l, e)
<1>1. /\ DOMAIN l = {"entries", "lastIncludedIndex", "lastIncludedTerm"}
      /\ k \in Nat /\ Len(w) \in Nat /\ k <= Len(w)
      /\ l.entries \in Seq(LogEntry) /\ l.lastIncludedTerm \in Nat
      /\ Len(l.entries) = Len(w) - k
      /\ \A j \in 1 .. Len(l.entries) : l.entries[j] = w[k + j]
      /\ k > 0 => l.lastIncludedTerm = w[k].term
  BY DEF IsView
<1>2. /\ DOMAIN m = {"entries", "lastIncludedIndex", "lastIncludedTerm"}
      /\ m.entries = Append(l.entries, e)
      /\ m.lastIncludedIndex = k /\ m.lastIncludedTerm = l.lastIncludedTerm
  BY <1>1 DEF AppendEntry
<1>3. /\ Append(w, e) \in Seq(LogEntry) /\ Len(Append(w, e)) = Len(w) + 1
      /\ \A j \in 1 .. Len(w) : Append(w, e)[j] = w[j]
      /\ Append(w, e)[Len(w) + 1] = e
  BY Appended
<1>4. /\ m.entries \in Seq(LogEntry) /\ Len(m.entries) = Len(l.entries) + 1
      /\ \A j \in 1 .. Len(l.entries) : m.entries[j] = l.entries[j]
      /\ m.entries[Len(l.entries) + 1] = e
      /\ Len(l.entries) \in Nat
  BY <1>1, <1>2, Appended
<1>5. \A j \in 1 .. Len(m.entries) : m.entries[j] = Append(w, e)[k + j]
  <2> SUFFICES ASSUME NEW j \in 1 .. Len(m.entries)
               PROVE  m.entries[j] = Append(w, e)[k + j]
    OBVIOUS
  <2>1. CASE j = Len(l.entries) + 1
    BY <2>1, <1>1, <1>3, <1>4
  <2>2. CASE j \in 1 .. Len(l.entries)
    <3>1. k + j \in 1 .. Len(w)
      BY <2>2, <1>1
    <3>2. QED
      BY <2>2, <3>1, <1>1, <1>3, <1>4
  <2>3. j = Len(l.entries) + 1 \/ j \in 1 .. Len(l.entries)
    BY <1>4
  <2>4. QED
    BY <2>1, <2>2, <2>3
<1>6. /\ m.lastIncludedIndex \in 0 .. Len(Append(w, e))
      /\ m.lastIncludedTerm \in Nat
      /\ m.lastIncludedIndex > 0 =>
            m.lastIncludedTerm = Append(w, e)[m.lastIncludedIndex].term
      /\ Len(m.entries) = Len(Append(w, e)) - m.lastIncludedIndex
  <2>1. k > 0 => k \in 1 .. Len(w)
    BY <1>1
  <2>2. QED
    BY <1>1, <1>2, <1>3, <1>4, <2>1
<1>7. QED
  BY <1>2, <1>4, <1>5, <1>6 DEF IsView

\* truncate above the snapshot cuts the whole log.
LEMMA ViewTruncate ==
    ASSUME NEW l, NEW w \in Seq(LogEntry), IsView(l, w),
           NEW i \in l.lastIncludedIndex + 1 .. Len(w) + 1
    PROVE  /\ IsView(TruncateLog(l, i), SubSeq(w, 1, i - 1))
           /\ TruncateLog(l, i).lastIncludedIndex = l.lastIncludedIndex
<1> DEFINE k == l.lastIncludedIndex
           m == TruncateLog(l, i)
           v == SubSeq(w, 1, i - 1)
<1>1. /\ DOMAIN l = {"entries", "lastIncludedIndex", "lastIncludedTerm"}
      /\ k \in Nat /\ Len(w) \in Nat /\ k <= Len(w)
      /\ l.entries \in Seq(LogEntry) /\ l.lastIncludedTerm \in Nat
      /\ Len(l.entries) = Len(w) - k /\ Len(l.entries) \in Nat
      /\ \A j \in 1 .. Len(l.entries) : l.entries[j] = w[k + j]
      /\ k > 0 => l.lastIncludedTerm = w[k].term
  BY DEF IsView
<1>2. i - 1 \in 0 .. Len(w) /\ i - k - 1 \in 0 .. Len(l.entries) /\ i > k /\ i \in Nat
  BY <1>1
<1>3. Min({Len(l.entries), i - k - 1}) = i - k - 1
  BY <1>1, <1>2, TwoNumbers
<1>4. /\ DOMAIN m = {"entries", "lastIncludedIndex", "lastIncludedTerm"}
      /\ m.entries = SubSeq(l.entries, 1, i - k - 1)
      /\ m.lastIncludedIndex = k /\ m.lastIncludedTerm = l.lastIncludedTerm
  <2>1. i > l.lastIncludedIndex
    BY <1>2
  <2>2. ~(i <= l.lastIncludedIndex)
    BY <1>1, <1>2
  <2>3. m = [l EXCEPT !.entries = SubSeq(@, 1, i - k - 1)]
    BY <2>2, <1>3 DEF TruncateLog
  <2>4. QED
    BY <2>3, <1>1
<1>5. /\ m.entries \in Seq(LogEntry)
      /\ Len(m.entries) = i - k - 1
      /\ \A j \in 1 .. i - k - 1 : m.entries[j] = l.entries[j]
  BY <1>1, <1>2, <1>4, Slices
<1>6. v \in Seq(LogEntry) /\ Len(v) = i - 1 /\ \A j \in 1 .. i - 1 : v[j] = w[j]
  BY <1>2, Slices
<1> HIDE DEF k, m, v
<1>7. \A j \in 1 .. Len(m.entries) : m.entries[j] = v[k + j]
  <2> SUFFICES ASSUME NEW j \in 1 .. i - k - 1 PROVE m.entries[j] = v[k + j]
    BY <1>5
  <2>1. k + j \in 1 .. i - 1 /\ j \in 1 .. Len(l.entries)
    BY <1>1, <1>2
  <2>2. QED
    BY <2>1, <1>1, <1>5, <1>6
<1>8. k \in 0 .. i - 1 /\ i - 1 - k = i - k - 1 /\ (k > 0 => k \in 1 .. i - 1)
  BY <1>1, <1>2
<1>9. IsView(m, v)
  BY <1>1, <1>4, <1>5, <1>6, <1>7, <1>8 DEF IsView
<1>10. QED
  BY <1>4, <1>9 DEF k, m, v

\* compact changes what is kept of the whole log, not the whole log.
LEMMA ViewCompact ==
    ASSUME NEW l, NEW w \in Seq(LogEntry), IsView(l, w), NEW s \in 0 .. Len(w)
    PROVE  /\ IsView(Compact(l, s, GetTerm(l, s)), w)
           /\ Compact(l, s, GetTerm(l, s)).lastIncludedIndex =
                 IF s <= l.lastIncludedIndex THEN l.lastIncludedIndex ELSE s
<1>1. CASE s <= l.lastIncludedIndex
  BY <1>1 DEF Compact
<1>2. CASE s > l.lastIncludedIndex
  <2> DEFINE k == l.lastIncludedIndex
             m == Compact(l, s, GetTerm(l, s))
  <2>1. /\ k \in Nat /\ Len(w) \in Nat /\ k <= Len(w) /\ s \in Nat /\ s > k /\ s <= Len(w)
        /\ l.entries \in Seq(LogEntry)
        /\ Len(l.entries) = Len(w) - k /\ Len(l.entries) \in Nat
        /\ \A j \in 1 .. Len(l.entries) : l.entries[j] = w[k + j]
    BY <1>2 DEF IsView
  <2>2. GetTerm(l, s) = w[s].term
    BY <2>1, ViewReads
  <2>3. m = [entries |-> SubSeq(l.entries, s - k + 1, Len(l.entries)),
             lastIncludedIndex |-> s, lastIncludedTerm |-> w[s].term]
    BY <1>2, <2>1, <2>2 DEF Compact
  <2>4. s - k + 1 \in 1 .. Len(l.entries) + 1
    BY <2>1
  <2>5. /\ m.entries \in Seq(LogEntry)
        /\ Len(m.entries) = Len(l.entries) + 1 - (s - k + 1)
        /\ \A j \in 1 .. Len(l.entries) + 1 - (s - k + 1) :
              m.entries[j] = l.entries[(s - k + 1) - 1 + j]
    <3>1. ASSUME NEW i \in 1 .. Len(l.entries) + 1
          PROVE  /\ SubSeq(l.entries, i, Len(l.entries)) \in Seq(LogEntry)
                 /\ Len(SubSeq(l.entries, i, Len(l.entries))) = Len(l.entries) + 1 - i
                 /\ \A j \in 1 .. Len(l.entries) + 1 - i :
                       SubSeq(l.entries, i, Len(l.entries))[j] = l.entries[i - 1 + j]
      BY <2>1, Slices
    <3>2. QED
      BY <3>1, <2>3, <2>4, SMTT(30)
  <2>6. m.lastIncludedIndex = s /\ m.lastIncludedTerm = w[s].term
        /\ DOMAIN m = {"entries", "lastIncludedIndex", "lastIncludedTerm"}
    BY <2>3
  <2>7. w[s].term \in Nat
    <3>1. s \in 1 .. Len(w)
      BY <2>1
    <3>2. w[s] \in LogEntry
      BY <3>1, ElementOfSeq
    <3>3. QED
      BY <3>2 DEF LogEntry
  <2> HIDE DEF k, m
  <2>8. Len(m.entries) = Len(w) - s
    BY <2>1, <2>5
  <2>9. \A j \in 1 .. Len(m.entries) : m.entries[j] = w[s + j]
    <3> SUFFICES ASSUME NEW j \in 1 .. Len(w) - s PROVE m.entries[j] = w[s + j]
      BY <2>8
    <3>1. /\ j \in 1 .. Len(l.entries) + 1 - (s - k + 1)
          /\ (s - k + 1) - 1 + j \in 1 .. Len(l.entries)
          /\ k + ((s - k + 1) - 1 + j) = s + j
      BY <2>1
    <3>2. QED
      BY <3>1, <2>1, <2>5
  <2>10. IsView(m, w)
    BY <2>1, <2>5, <2>6, <2>7, <2>8, <2>9 DEF IsView
  <2>11. QED
    BY <1>2, <2>1, <2>6, <2>10 DEF m, k
<1>3. QED
  BY <1>1, <1>2 DEF IsView

-------------------------------------------------------------------------------
(* The loop of handle_append_entries.                                        *)

\* The loop is well defined: it starts with the log and handles one entry
\* after the other.
LEMMA MergeLoop ==
    ASSUME NEW l, NEW p, NEW es \in Seq(LogEntry)
    PROVE  /\ MergeSteps(l, p, es)[0] = l
           /\ \A k \in 1 .. Len(es) :
                 MergeSteps(l, p, es)[k] = MergeEntry(MergeSteps(l, p, es)[k - 1], p + k, es[k])
<1> DEFINE Loop(m, n) ==
             m = [k \in 0 .. n |-> IF k = 0 THEN l ELSE MergeEntry(m[k - 1], p + k, es[k])]
           S == {n \in Nat : \E m : Loop(m, n)}
<1>1. 0 \in S
  <2>1. Loop([k \in 0 .. 0 |-> l], 0)
    OBVIOUS
  <2>2. QED
    BY <2>1
<1>2. ASSUME NEW n \in Nat, n \in S PROVE n + 1 \in S
  <2>1. PICK m : Loop(m, n)
    BY <1>2
  <2> DEFINE f == [k \in 0 .. n + 1 |-> IF k = n + 1 THEN MergeEntry(m[n], p + k, es[k]) ELSE m[k]]
  <2>2. \A k \in 0 .. n : k \in 0 .. n + 1 /\ k # n + 1 /\ f[k] = m[k]
    OBVIOUS
  <2>3. \A k \in 0 .. n + 1 :
           f[k] = IF k = 0 THEN l ELSE MergeEntry(f[k - 1], p + k, es[k])
    <3> SUFFICES ASSUME NEW k \in 0 .. n + 1
                 PROVE  f[k] = IF k = 0 THEN l ELSE MergeEntry(f[k - 1], p + k, es[k])
      OBVIOUS
    <3>1. CASE k = n + 1
      <4>1. k - 1 = n /\ n \in 0 .. n /\ k # 0
        BY <3>1
      <4>2. f[k - 1] = m[n]
        BY <4>1, <2>2
      <4>3. QED
        BY <3>1, <4>1, <4>2
    <3>2. CASE k \in 1 .. n
      <4>1. k \in 0 .. n /\ k - 1 \in 0 .. n /\ k # 0
        BY <3>2
      <4>2. m[k] = MergeEntry(m[k - 1], p + k, es[k])
        BY <4>1, <2>1
      <4>3. QED
        BY <4>1, <4>2, <2>2
    <3>3. CASE k = 0
      <4>1. 0 \in 0 .. n
        OBVIOUS
      <4>2. m[0] = l
        BY <4>1, <2>1
      <4>3. QED
        BY <3>3, <4>1, <4>2, <2>2
    <3>4. QED
      BY <3>1, <3>2, <3>3
  <2>4. Loop(f, n + 1)
    <3> HIDE DEF f
    <3>1. f = [k \in 0 .. n + 1 |-> f[k]]
      BY DEF f
    <3>2. QED
      BY <2>3, <3>1
  <2>5. \E g : Loop(g, n + 1)
    <3> HIDE DEF f, Loop
    <3> QED BY <2>4
  <2>6. QED
    BY <2>5, SMTT(30)
<1>3. \A n \in Nat : n \in S
  <2> HIDE DEF S
  <2> QED BY <1>1, <1>2, EveryNumber
<1>4. Len(es) \in Nat
  OBVIOUS
<1>5. PICK m : Loop(m, Len(es))
  BY <1>3, <1>4
<1>6. MergeSteps(l, p, es) = CHOOSE f : Loop(f, Len(es))
  BY DEF MergeSteps
<1>7. Loop(MergeSteps(l, p, es), Len(es))
  <2> HIDE DEF Loop
  <2> QED BY <1>5, <1>6
<1>8. PICK f : f = MergeSteps(l, p, es)
  OBVIOUS
<1>9. f = [k \in 0 .. Len(es) |-> IF k = 0 THEN l ELSE MergeEntry(f[k - 1], p + k, es[k])]
  BY <1>7, <1>8
<1>10. f[0] = l
  <2>1. 0 \in 0 .. Len(es)
    BY <1>4
  <2>2. QED
    BY <1>9, <2>1
<1>11. ASSUME NEW k \in 1 .. Len(es) PROVE f[k] = MergeEntry(f[k - 1], p + k, es[k])
  <2>1. k \in 0 .. Len(es) /\ k # 0
    BY <1>4
  <2>2. QED
    BY <1>9, <2>1
<1>12. QED
  BY <1>8, <1>10, <1>11

\* What makes an AppendEntries call with the entries of T after index prev
\* fit a log l whose whole log is F: they meet at prev and at the snapshot, no
\* conflict lies inside the snapshot, and F and T obey log matching.
Fits(l, F, T, prev, es) ==
    /\ F \in Seq(LogEntry) /\ T \in Seq(LogEntry) /\ es \in Seq(LogEntry) /\ prev \in Nat
    /\ IsView(l, F)
    /\ prev + Len(es) <= Len(T)
    /\ \A k \in 1 .. Len(es) : es[k] = T[prev + k]
    /\ Agree(F, T, prev)
    /\ Agree(F, T, l.lastIncludedIndex)
    /\ \A i \in 1 .. Len(F) : i <= Len(T) /\ F[i].term = T[i].term => Agree(F, T, i)
    /\ \A k \in 1 .. Len(es) :
          prev + k <= l.lastIncludedIndex => es[k].term = l.lastIncludedTerm

\* The log m got by merging the entries of T up to index i into l: l itself if
\* it has them all, and otherwise T up to i.
Merged(m, l, F, T, i) ==
    \/ m = l /\ Agree(F, T, i)
    \/ /\ IsView(m, SubSeq(T, 1, i))
       /\ m.lastIncludedIndex = l.lastIncludedIndex
       /\ l.lastIncludedIndex < i
       /\ ~Agree(F, T, i)

\* One turn of the loop.
LEMMA MergeOne ==
    ASSUME NEW l, NEW F, NEW T, NEW prev, NEW es, Fits(l, F, T, prev, es),
           NEW m, NEW k \in 1 .. Len(es), Merged(m, l, F, T, prev + k - 1)
    PROVE  Merged(MergeEntry(m, prev + k, es[k]), l, F, T, prev + k)
<1> DEFINE i == prev + k
           S == l.lastIncludedIndex
           r == MergeEntry(m, i, es[k])
<1>1. /\ F \in Seq(LogEntry) /\ T \in Seq(LogEntry) /\ IsView(l, F)
      /\ Len(F) \in Nat /\ Len(T) \in Nat /\ Len(es) \in Nat
      /\ es[k] = T[i]
      /\ S \in Nat /\ S <= Len(F)
      /\ prev \in Nat /\ prev + Len(es) <= Len(T)
  BY DEF Fits, IsView
<1>2. i \in 1 .. Len(T) /\ i - 1 \in 0 .. Len(T) /\ prev + k - 1 = i - 1
  BY <1>1
<1>3. es[k] \in LogEntry /\ T[i] \in LogEntry
  BY <1>1, <1>2, ElementOfSeq
<1>4. /\ SubSeq(T, 1, i) \in Seq(LogEntry) /\ Len(SubSeq(T, 1, i)) = i
      /\ \A j \in 1 .. i : SubSeq(T, 1, i)[j] = T[j]
      /\ SubSeq(T, 1, i - 1) \in Seq(LogEntry) /\ Len(SubSeq(T, 1, i - 1)) = i - 1
      /\ \A j \in 1 .. i - 1 : SubSeq(T, 1, i - 1)[j] = T[j]
  <2>1. \A n \in 0 .. Len(T) :
           /\ SubSeq(T, 1, n) \in Seq(LogEntry) /\ Len(SubSeq(T, 1, n)) = n
           /\ \A j \in 1 .. n : SubSeq(T, 1, n)[j] = T[j]
    BY <1>1, Slices
  <2>2. i \in 0 .. Len(T)
    BY <1>2
  <2>3. QED
    BY <1>2, <2>1, <2>2
<1>5. Append(SubSeq(T, 1, i - 1), es[k]) = SubSeq(T, 1, i)
  <2> DEFINE a == SubSeq(T, 1, i - 1)
             b == SubSeq(T, 1, i)
  <2>1. /\ Append(a, es[k]) \in Seq(LogEntry) /\ Len(Append(a, es[k])) = i
        /\ \A j \in 1 .. i - 1 : Append(a, es[k])[j] = a[j]
        /\ Append(a, es[k])[i] = es[k]
    BY <1>2, <1>3, <1>4, Appended
  <2>2. \A j \in 1 .. i : Append(a, es[k])[j] = b[j]
    <3> SUFFICES ASSUME NEW j \in 1 .. i PROVE Append(a, es[k])[j] = b[j]
      OBVIOUS
    <3>1. CASE j = i
      BY <3>1, <2>1, <1>1, <1>4
    <3>2. CASE j \in 1 .. i - 1
      BY <3>2, <2>1, <1>4
    <3>3. QED
      BY <3>1, <3>2, <1>2
  <2>3. QED
    BY <2>1, <2>2, <1>4, SeqEqual
<1>6. CASE m = l /\ Agree(F, T, i - 1)
  <2>1. LogLen(l) = Len(F)
    BY <1>1, ViewReads
  <2>2. CASE i > Len(F)
    <3>1. Len(F) = i - 1
      BY <2>2, <1>1, <1>2, <1>6 DEF Agree
    <3>2. F = SubSeq(T, 1, i - 1)
      BY <3>1, <1>1, <1>4, <1>6, SeqEqual DEF Agree
    <3>3. r = AppendEntry(l, es[k])
      BY <1>6, <2>1, <2>2 DEF MergeEntry
    <3>4. IsView(r, SubSeq(T, 1, i))
      BY <3>2, <3>3, <1>1, <1>3, <1>5, ViewAppend
    <3>5. r.lastIncludedIndex = S
      BY <3>3, <1>1 DEF AppendEntry, IsView
    <3>6. S < i /\ ~Agree(F, T, i)
      BY <2>2, <1>1, <1>2 DEF Agree
    <3>7. QED
      BY <3>4, <3>5, <3>6 DEF Merged
  <2>3. CASE i <= S
    <3>1. GetTerm(l, i) = l.lastIncludedTerm
      BY <2>3, <1>1, <1>2, ViewReads
    <3>2. es[k].term = l.lastIncludedTerm
      BY <2>3 DEF Fits
    <3>3. r = l
      BY <3>1, <3>2, <2>1, <2>3, <1>1, <1>2, <1>6 DEF MergeEntry
    <3>4. Agree(F, T, i)
      BY <2>3, <1>1, <1>2 DEF Fits, Agree
    <3>5. QED
      BY <3>3, <3>4 DEF Merged
  <2>4. CASE i > S /\ i <= Len(F)
    <3>1. i \in S + 1 .. Len(F) /\ i \in S + 1 .. Len(F) + 1 /\ i \in 1 .. Len(F)
      BY <2>4, <1>1, <1>2
    <3>2. GetTerm(l, i) = F[i].term
      BY <3>1, <1>1, ViewReads
    <3>3. CASE F[i].term = T[i].term
      <4>1. r = l
        BY <3>2, <3>3, <2>1, <2>4, <1>1, <1>2, <1>6 DEF MergeEntry
      <4>2. Agree(F, T, i)
        BY <3>1, <3>3, <1>2 DEF Fits
      <4>3. QED
        BY <4>1, <4>2 DEF Merged
    <3>4. CASE F[i].term # T[i].term
      <4>1. r = AppendEntry(TruncateLog(l, i), es[k])
        BY <3>2, <3>4, <2>1, <2>4, <1>1, <1>2, <1>6 DEF MergeEntry
      <4>2. /\ SubSeq(F, 1, i - 1) \in Seq(LogEntry) /\ Len(SubSeq(F, 1, i - 1)) = i - 1
            /\ \A j \in 1 .. i - 1 : SubSeq(F, 1, i - 1)[j] = F[j]
        <5>1. i - 1 \in 0 .. Len(F)
          BY <3>1
        <5>2. QED
          BY <5>1, <1>1, Slices
      <4>3. SubSeq(F, 1, i - 1) = SubSeq(T, 1, i - 1)
        BY <4>2, <1>4, <1>6, SeqEqual DEF Agree
      <4>4. /\ IsView(TruncateLog(l, i), SubSeq(T, 1, i - 1))
            /\ TruncateLog(l, i).lastIncludedIndex = S
        BY <4>3, <3>1, <1>1, ViewTruncate
      <4>5. IsView(r, SubSeq(T, 1, i))
        BY <4>1, <4>4, <1>3, <1>4, <1>5, ViewAppend
      <4>6. r.lastIncludedIndex = S
        BY <4>1, <4>4 DEF AppendEntry, IsView
      <4>7. ~Agree(F, T, i)
        BY <3>4, <1>2 DEF Agree
      <4>8. QED
        BY <4>5, <4>6, <4>7, <2>4 DEF Merged
    <3>5. QED
      BY <3>3, <3>4
  <2>5. QED
    BY <2>2, <2>3, <2>4, <1>1, <1>2
<1>7. CASE /\ IsView(m, SubSeq(T, 1, i - 1))
           /\ m.lastIncludedIndex = S
           /\ S < i - 1
           /\ ~Agree(F, T, i - 1)
  <2>1. LogLen(m) = i - 1
    BY <1>7, <1>4, ViewReads
  <2>2. r = AppendEntry(m, es[k])
    BY <2>1, <1>2 DEF MergeEntry
  <2>3. IsView(r, SubSeq(T, 1, i))
    BY <2>2, <1>3, <1>4, <1>5, <1>7, ViewAppend
  <2>4. r.lastIncludedIndex = S
    BY <2>2, <1>7 DEF AppendEntry, IsView
  <2>5. S < i /\ ~Agree(F, T, i)
    BY <1>1, <1>2, <1>7 DEF Agree
  <2>6. QED
    BY <2>3, <2>4, <2>5 DEF Merged
<1>8. QED
  BY <1>2, <1>6, <1>7 DEF Merged

\* The whole loop.
LEMMA MergeAll ==
    ASSUME NEW l, NEW F, NEW T, NEW prev, NEW es, Fits(l, F, T, prev, es)
    PROVE  Merged(MergeEntries(l, prev, es), l, F, T, prev + Len(es))
<1>1. es \in Seq(LogEntry) /\ prev \in Nat /\ Len(es) \in Nat /\ Agree(F, T, prev)
  BY DEF Fits
<1> DEFINE Done(k) == Merged(MergeSteps(l, prev, es)[k], l, F, T, prev + k)
           S == {k \in Nat : k <= Len(es) => Done(k)}
<1>2. 0 \in S
  <2>1. MergeSteps(l, prev, es)[0] = l /\ prev + 0 = prev
    BY <1>1, MergeLoop
  <2>2. Done(0)
    BY <2>1, <1>1 DEF Merged
  <2>3. QED
    BY <2>2
<1>3. ASSUME NEW n \in Nat, n \in S PROVE n + 1 \in S
  <2> SUFFICES ASSUME n + 1 <= Len(es) PROVE Done(n + 1)
    OBVIOUS
  <2>1. n + 1 \in 1 .. Len(es) /\ (n + 1) - 1 = n /\ prev + (n + 1) - 1 = prev + n
    BY <1>1
  <2>2. Done(n)
    BY <1>1, <1>3
  <2>3. MergeSteps(l, prev, es)[n + 1]
          = MergeEntry(MergeSteps(l, prev, es)[n], prev + (n + 1), es[n + 1])
    BY <2>1, <1>1, MergeLoop
  <2>4. Merged(MergeSteps(l, prev, es)[n], l, F, T, prev + (n + 1) - 1)
    BY <2>1, <2>2
  <2>5. QED
    BY <2>1, <2>3, <2>4, MergeOne
<1>4. \A n \in Nat : n \in S
  <2> HIDE DEF S
  <2> QED BY <1>2, <1>3, EveryNumber
<1>5. QED
  BY <1>1, <1>4 DEF MergeEntries

-------------------------------------------------------------------------------
(* What the parts of the invariant say together.                             *)

\* A majority that grows stays one, and has a member.
LEMMA MajorityGrows ==
    ASSUME NEW S \in SUBSET Node, IsMajority(S)
    PROVE  /\ S # {}
           /\ \A T \in SUBSET Node : S \subseteq T => IsMajority(T)
<1>1. IsFiniteSet(Node) /\ \A T \in SUBSET Node : IsFiniteSet(T)
  BY RaftAssumption, FS_Subset
<1>2. Cardinality(Node) \in Nat /\ \A T \in SUBSET Node : Cardinality(T) \in Nat
  BY <1>1, FS_CardinalityType
<1>3. S # {}
  BY <1>2, FS_EmptySet DEF IsMajority
<1>4. ASSUME NEW T \in SUBSET Node, S \subseteq T PROVE IsMajority(T)
  <2>1. Cardinality(S) <= Cardinality(T)
    BY <1>1, <1>4, FS_Subset
  <2>2. QED
    BY <1>2, <2>1 DEF IsMajority
<1>5. QED
  BY <1>3, <1>4

\* What is chosen or committed stays so as nodes store more.
LEMMA ChosenGrows ==
    ASSUME NEW kept, NEW kept2, kept \subseteq kept2
    PROVE  /\ \A t, i : Chosen(kept, t, i) => Chosen(kept2, t, i)
           /\ \A t, i : Committed(kept, t, i) => Committed(kept2, t, i)
<1>1. \A t, i : Chosen(kept, t, i) => Chosen(kept2, t, i)
  <2> SUFFICES ASSUME NEW t, NEW i, Chosen(kept, t, i) PROVE Chosen(kept2, t, i)
    OBVIOUS
  <2>1. Keepers(kept, t, i) \in SUBSET Node /\ Keepers(kept2, t, i) \in SUBSET Node
        /\ Keepers(kept, t, i) \subseteq Keepers(kept2, t, i)
    BY DEF Keepers
  <2>2. QED
    BY <2>1, MajorityGrows DEF Chosen
<1>2. QED
  BY <1>1 DEF Committed

\* Logs that agree with one log, as far as both do, agree with each other.
LEMMA AgreeChains ==
    ASSUME NEW a, NEW b, NEW c, NEW i \in Nat, NEW k \in Nat, i <= k,
           Agree(a, b, i), Agree(b, c, k)
    PROVE  Agree(b, a, i) /\ Agree(a, c, i) /\ Agree(c, a, i)
BY DEF Agree

\* Two logs that come from leaders and share an entry's term at an index are
\* the same up to it.
LEMMA SameTermSameLog ==
    ASSUME NEW lead, NEW won, NEW a, NEW b, NEW s, NEW t,
           FromLeaders(lead, won, a, s), FromLeaders(lead, won, b, t),
           NEW i \in Nat, i \in 1 .. Len(a), i \in 1 .. Len(b), a[i].term = b[i].term
    PROVE  Agree(a, b, i)
BY DEF FromLeaders, Agree

\* A leader's log that has an entry of term t is, up to it, that of term t's leader.
LEMMA HasAgrees ==
    ASSUME NEW lead, NEW won, Leaderships(lead, won),
           NEW s \in Nat, NEW t \in Nat, NEW i \in Nat, Has(lead[s], t, i)
    PROVE  s \in won /\ t \in won /\ t <= s /\ i >= 1 /\ Agree(lead[s], lead[t], i)
<1>1. s \in won
  BY DEF Leaderships, Has
<1>2. FromLeaders(lead, won, lead[s], s)
  BY <1>1 DEF Leaderships
<1>3. i \in 1 .. Len(lead[s]) /\ lead[s][i].term = t
  BY DEF Has
<1>4. QED
  BY <1>1, <1>2, <1>3 DEF FromLeaders

\* An entry that was chosen is in the log of every later leader: the majority
\* that stored it and the majority that elected the leader have a node in
\* common, and so have those of every leader in between.
LEMMA ChosenStays ==
    ASSUME NEW whole, NEW lead, NEW won, NEW cast, NEW kept,
           Leaderships(lead, won), Stores(whole, lead, won, kept),
           Winners(lead, won, cast, kept),
           NEW t \in Nat, NEW i \in Nat, Chosen(kept, t, i)
    PROVE  /\ i >= 1 /\ t \in won /\ Has(lead[t], t, i)
           /\ \A s \in won : t <= s => Has(lead[s], t, i)
<1>1. Keepers(kept, t, i) \in SUBSET Node /\ IsMajority(Keepers(kept, t, i))
  BY DEF Keepers, Chosen
<1>2. Has(lead[t], t, i)
  <2>1. PICK v \in Keepers(kept, t, i) : TRUE
    BY <1>1, MajorityGrows
  <2>2. <<v, t, i>> \in kept
    BY <2>1 DEF Keepers
  <2>3. QED
    BY <2>2 DEF Stores
<1>3. won \subseteq Nat /\ t \in won /\ i >= 1
  <2>1. t \in won /\ i >= 1
    BY <1>2, HasAgrees
  <2>2. QED
    BY <2>1 DEF Leaderships
<1>4. ASSUME \E s \in won : t <= s /\ ~Has(lead[s], t, i)
      PROVE  FALSE
  <2> DEFINE Bad == {s \in won : t <= s /\ ~Has(lead[s], t, i)}
  <2>1. Bad \in SUBSET Nat /\ Bad # {}
    BY <1>3, <1>4
  <2>2. PICK s \in Bad : \A u \in Bad : s <= u
    <3> HIDE DEF Bad
    <3> QED BY <2>1, LeastNumber
  <2>3. s \in won /\ t < s /\ ~Has(lead[s], t, i) /\ s \in Nat
    BY <2>2, <1>2, <1>3
  <2>4. PICK n \in Node : \E Q \in SUBSET Voters(cast, n, s) :
           /\ IsMajority(Q)
           /\ \A k \in kept : k[1] \in Q /\ k[2] < s =>
                 Has(lead[s], k[2], k[3]) \/ Displaced(lead, won, k[2], k[3], s)
    BY <2>3 DEF Winners, WinnerOK
  <2>5. PICK Q \in SUBSET Voters(cast, n, s) :
           /\ IsMajority(Q)
           /\ \A k \in kept : k[1] \in Q /\ k[2] < s =>
                 Has(lead[s], k[2], k[3]) \/ Displaced(lead, won, k[2], k[3], s)
    BY <2>4
  <2>6. Q \in SUBSET Node
    BY DEF Voters
  <2>7. PICK v : v \in Q /\ v \in Keepers(kept, t, i)
    BY <1>1, <2>5, <2>6, MajoritiesIntersect
  <2>8. <<v, t, i>> \in kept
    BY <2>7 DEF Keepers
  <2>9. Has(lead[s], t, i) \/ Displaced(lead, won, t, i, s)
    BY <2>3, <2>5, <2>7, <2>8
  <2>10. PICK u \in won : t < u /\ u < s /\ ~Has(lead[u], t, i)
    BY <2>3, <2>9 DEF Displaced
  <2>11. u \in Bad /\ u \in Nat
    BY <1>3, <2>10
  <2>12. QED
    BY <2>2, <2>3, <2>10, <2>11
<1>5. QED
  BY <1>2, <1>3, <1>4

\* Whoever takes part in a term with a leader has applied a beginning of that
\* leader's log.
LEMMA CommittedIsLead ==
    ASSUME NEW whole, NEW lead, NEW won, NEW cast, NEW kept,
           ElectionTypeOK, LogInv(whole, lead, won, cast, kept),
           NEW n \in Node, NEW s \in won, currentTerm[n] <= s
    PROVE  Agree(whole[n], lead[s], CommitIndex(n))
<1>0. /\ Leaderships(lead, won) /\ Stores(whole, lead, won, kept) /\ Logs(whole, lead, won)
      /\ Winners(lead, won, cast, kept)
      /\ \A m \in Node : CommitOK(m, whole, lead, kept)
  BY DEF LogInv
<1>1. won \subseteq Nat /\ s \in Nat /\ currentTerm[n] \in Nat
      /\ \A t \in Nat : Len(lead[t]) \in Nat
  BY <1>0 DEF Leaderships, ElectionTypeOK
<1>2. whole[n] \in Seq(LogEntry) /\ applied[n] \in Seq(Command) /\ CommitIndex(n) \in Nat
  BY <1>0 DEF Logs, CommitIndex
<1>3. CASE CommitIndex(n) = 0
  BY <1>1, <1>2, <1>3 DEF Agree
<1>4. CASE CommitIndex(n) # 0
  <2>1. PICK u \in Nat, N \in Nat :
           /\ u <= currentTerm[n] /\ CommitIndex(n) <= N
           /\ Chosen(kept, u, N)
           /\ Agree(whole[n], lead[u], CommitIndex(n))
    BY <1>0, <1>4 DEF CommitOK
  <2>2. Has(lead[s], u, N)
    BY <1>0, <1>1, <2>1, ChosenStays
  <2>3. Agree(lead[s], lead[u], N)
    BY <1>0, <1>1, <2>2, HasAgrees
  <2>4. QED
    BY <1>1, <1>2, <2>1, <2>3 DEF Agree
<1>5. QED
  BY <1>3, <1>4

-------------------------------------------------------------------------------
(* The invariant implies the properties.                                     *)

\* What is left of a log are entries of the whole log.
LEMMA HeldEntries ==
    ASSUME NEW whole, NEW lead, NEW won, Logs(whole, lead, won), NEW n \in Node
    PROVE  /\ whole[n] \in Seq(LogEntry) /\ Len(whole[n]) \in Nat
           /\ applied[n] \in Seq(Command) /\ CommitIndex(n) \in Nat
           /\ log[n].lastIncludedIndex \in Nat
           /\ log[n].lastIncludedIndex <= CommitIndex(n)
           /\ CommitIndex(n) <= Len(whole[n])
           /\ LogLen(log[n]) = Len(whole[n])
           /\ \A i \in log[n].lastIncludedIndex + 1 .. Len(whole[n]) :
                 EntryAt(log[n], i) = whole[n][i]
           /\ \A j \in 1 .. CommitIndex(n) : applied[n][j] = whole[n][j].command
<1>1. IsView(log[n], whole[n]) /\ whole[n] \in Seq(LogEntry) /\ applied[n] \in Seq(Command)
  BY DEF Logs
<1>2. log[n].lastIncludedIndex \in Nat /\ Len(whole[n]) \in Nat /\ CommitIndex(n) \in Nat
  BY <1>1 DEF IsView, CommitIndex
<1>3. QED
  BY <1>1, <1>2, ViewReads DEF Logs

LEMMA LogsMatch ==
    ASSUME NEW whole, NEW lead, NEW won, NEW cast, NEW kept,
           LogInv(whole, lead, won, cast, kept)
    PROVE  LogMatching
<1> SUFFICES ASSUME NEW m \in Node, NEW n \in Node,
                    NEW i \in 1 .. Min({LogLen(log[m]), LogLen(log[n])}),
                    i > log[m].lastIncludedIndex, i > log[n].lastIncludedIndex,
                    EntryAt(log[m], i).term = EntryAt(log[n], i).term,
                    NEW j \in 1 .. Min({LogLen(log[m]), LogLen(log[n])}),
                    j > log[m].lastIncludedIndex, j > log[n].lastIncludedIndex,
                    j <= i
             PROVE  EntryAt(log[m], j) = EntryAt(log[n], j)
  BY DEF LogMatching
<1>1. Logs(whole, lead, won)
  BY DEF LogInv
<1>2. FromLeaders(lead, won, whole[m], currentTerm[m])
      /\ FromLeaders(lead, won, whole[n], currentTerm[n])
  BY <1>1 DEF Logs
<1>3. /\ Len(whole[m]) \in Nat /\ Len(whole[n]) \in Nat
      /\ LogLen(log[m]) = Len(whole[m]) /\ LogLen(log[n]) = Len(whole[n])
      /\ log[m].lastIncludedIndex \in Nat /\ log[n].lastIncludedIndex \in Nat
      /\ \A k \in log[m].lastIncludedIndex + 1 .. Len(whole[m]) : EntryAt(log[m], k) = whole[m][k]
      /\ \A k \in log[n].lastIncludedIndex + 1 .. Len(whole[n]) : EntryAt(log[n], k) = whole[n][k]
  BY <1>1, HeldEntries
<1>4. Min({Len(whole[m]), Len(whole[n])})
        = IF Len(whole[m]) <= Len(whole[n]) THEN Len(whole[m]) ELSE Len(whole[n])
  BY <1>3, TwoNumbers
<1>5. /\ i \in 1 .. Len(whole[m]) /\ i \in 1 .. Len(whole[n])
      /\ j \in 1 .. Len(whole[m]) /\ j \in 1 .. Len(whole[n])
  BY <1>3, <1>4
<1>6. whole[m][i].term = whole[n][i].term
  BY <1>3, <1>5
<1>7. Agree(whole[m], whole[n], i)
  BY <1>2, <1>5, <1>6, SameTermSameLog
<1>8. whole[m][j] = whole[n][j]
  BY <1>5, <1>7 DEF Agree
<1>9. QED
  BY <1>3, <1>5, <1>8

LEMMA AppliedMatch ==
    ASSUME NEW whole, NEW lead, NEW won, NEW cast, NEW kept,
           LogInv(whole, lead, won, cast, kept), ElectionTypeOK
    PROVE  StateMachineSafety
<1>0. /\ Leaderships(lead, won) /\ Stores(whole, lead, won, kept) /\ Logs(whole, lead, won)
      /\ Winners(lead, won, cast, kept)
      /\ \A n \in Node : CommitOK(n, whole, lead, kept)
  BY DEF LogInv
<1>1. ASSUME NEW m \in Node, NEW n \in Node, NEW j \in Nat, j >= 1,
             j <= CommitIndex(m), j <= CommitIndex(n)
      PROVE  applied[m][j] = applied[n][j]
  <2>1. CommitIndex(m) # 0 /\ CommitIndex(n) # 0
    BY <1>1
  <2>2. PICK t \in Nat : \E N \in Nat :
           CommitIndex(m) <= N /\ Chosen(kept, t, N) /\ Agree(whole[m], lead[t], CommitIndex(m))
    BY <1>0, <2>1 DEF CommitOK
  <2>3. PICK N \in Nat :
           CommitIndex(m) <= N /\ Chosen(kept, t, N) /\ Agree(whole[m], lead[t], CommitIndex(m))
    BY <2>2
  <2>4. PICK u \in Nat : \E M \in Nat :
           CommitIndex(n) <= M /\ Chosen(kept, u, M) /\ Agree(whole[n], lead[u], CommitIndex(n))
    BY <1>0, <2>1 DEF CommitOK
  <2>5. PICK M \in Nat :
           CommitIndex(n) <= M /\ Chosen(kept, u, M) /\ Agree(whole[n], lead[u], CommitIndex(n))
    BY <2>4
  <2>6. CommitIndex(m) \in Nat /\ CommitIndex(n) \in Nat
    BY <1>0, HeldEntries
  <2>7. lead[t][j] = lead[u][j]
    <3>1. CASE t <= u
      <4>1. Has(lead[u], t, N)
        BY <1>0, <2>3, <2>5, <3>1, ChosenStays
      <4>2. Agree(lead[u], lead[t], N)
        BY <1>0, <4>1, HasAgrees
      <4>3. QED
        BY <1>1, <2>3, <2>6, <4>2 DEF Agree
    <3>2. CASE u <= t
      <4>1. Has(lead[t], u, M)
        BY <1>0, <2>3, <2>5, <3>2, ChosenStays
      <4>2. Agree(lead[t], lead[u], M)
        BY <1>0, <4>1, HasAgrees
      <4>3. QED
        BY <1>1, <2>5, <2>6, <4>2 DEF Agree
    <3>3. QED
      BY <3>1, <3>2
  <2>8. whole[m][j] = lead[t][j] /\ whole[n][j] = lead[u][j]
    BY <1>1, <2>3, <2>5, <2>6 DEF Agree
  <2>9. applied[m][j] = whole[m][j].command /\ applied[n][j] = whole[n][j].command
    BY <1>0, <1>1, <2>6, HeldEntries
  <2>10. QED
    BY <2>7, <2>8, <2>9
<1>2. ASSUME NEW m \in Node, NEW n \in Node, CommitIndex(m) <= CommitIndex(n)
      PROVE  IsPrefix(applied[m], applied[n])
  <2>1. /\ applied[m] \in Seq(Command) /\ applied[n] \in Seq(Command)
        /\ Len(applied[m]) \in Nat /\ Len(applied[n]) \in Nat
        /\ Len(applied[m]) <= Len(applied[n])
    BY <1>0, <1>2 DEF Logs, CommitIndex
  <2> DEFINE a == SubSeq(applied[m], 1, Len(applied[m]))
             b == SubSeq(applied[n], 1, Len(applied[m]))
  <2>2. /\ a \in Seq(Command) /\ Len(a) = Len(applied[m])
        /\ \A j \in 1 .. Len(applied[m]) : a[j] = applied[m][j]
        /\ b \in Seq(Command) /\ Len(b) = Len(applied[m])
        /\ \A j \in 1 .. Len(applied[m]) : b[j] = applied[n][j]
    <3>1. /\ Len(applied[m]) \in 0 .. Len(applied[m])
          /\ Len(applied[m]) \in 0 .. Len(applied[n])
      BY <2>1
    <3>2. QED
      BY <2>1, <3>1, Slices
  <2>3. \A j \in 1 .. Len(applied[m]) : applied[m][j] = applied[n][j]
    BY <1>1, <2>1 DEF CommitIndex
  <2>4. a = b
    <3> HIDE DEF a, b
    <3> QED BY <2>2, <2>3, SeqEqual
  <2>5. QED
    BY <2>1, <2>4 DEF IsPrefix
<1>3. \A n \in Node : CommitIndex(n) \in Nat
  BY <1>0, HeldEntries
<1>4. \A m, n \in Node : CommitIndex(m) <= CommitIndex(n) \/ CommitIndex(n) <= CommitIndex(m)
  BY <1>3
<1>5. QED
  BY <1>2, <1>4 DEF StateMachineSafety

LEMMA LeaderIsComplete ==
    ASSUME NEW whole, NEW lead, NEW won, NEW cast, NEW kept,
           LogInv(whole, lead, won, cast, kept), ElectionTypeOK
    PROVE  LeaderCompleteness
<1> SUFFICES ASSUME NEW l \in Node, NEW n \in Node,
                    state[l] = "leader", currentTerm[n] <= currentTerm[l]
             PROVE  /\ CommitIndex(n) <= LogLen(log[l])
                    /\ \A i \in log[l].lastIncludedIndex + 1 .. CommitIndex(n) :
                          EntryAt(log[l], i).command = applied[n][i]
  BY DEF LeaderCompleteness
<1>1. Logs(whole, lead, won) /\ Reigns(whole, lead, won, cast)
  BY DEF LogInv
<1>2. currentTerm[l] \in won /\ whole[l] = lead[currentTerm[l]]
  BY <1>1 DEF Reigns
<1>3. Agree(whole[n], whole[l], CommitIndex(n))
  BY <1>2, CommittedIsLead
<1>4. CommitIndex(n) <= LogLen(log[l])
  BY <1>1, <1>3, HeldEntries DEF Agree
<1>5. ASSUME NEW i \in log[l].lastIncludedIndex + 1 .. CommitIndex(n)
      PROVE  EntryAt(log[l], i).command = applied[n][i]
  <2>1. /\ log[l].lastIncludedIndex \in Nat /\ CommitIndex(n) \in Nat
        /\ CommitIndex(n) <= Len(whole[l]) /\ Len(whole[l]) \in Nat
    BY <1>1, <1>3, HeldEntries DEF Agree
  <2>2. i \in 1 .. CommitIndex(n) /\ i \in log[l].lastIncludedIndex + 1 .. Len(whole[l])
    BY <2>1
  <2>3. EntryAt(log[l], i) = whole[l][i] /\ applied[n][i] = whole[n][i].command
    BY <1>1, <2>2, HeldEntries
  <2>4. QED
    BY <1>3, <2>2, <2>3 DEF Agree
<1>6. QED
  BY <1>4, <1>5

LEMMA AppliedStays ==
    ASSUME NEW whole, NEW lead, NEW won, NEW cast, NEW kept,
           LogInv(whole, lead, won, cast, kept)
    PROVE  AppliedStaysInLog
<1> SUFFICES ASSUME NEW n \in Node,
                    NEW i \in log[n].lastIncludedIndex + 1 .. CommitIndex(n)
             PROVE  EntryAt(log[n], i).command = applied[n][i]
  BY DEF AppliedStaysInLog
<1>1. Logs(whole, lead, won)
  BY DEF LogInv
<1>2. /\ log[n].lastIncludedIndex \in Nat /\ CommitIndex(n) \in Nat
      /\ CommitIndex(n) <= Len(whole[n]) /\ Len(whole[n]) \in Nat
  BY <1>1, HeldEntries
<1>3. i \in 1 .. CommitIndex(n) /\ i \in log[n].lastIncludedIndex + 1 .. Len(whole[n])
  BY <1>2
<1>4. QED
  BY <1>1, <1>3, HeldEntries

LEMMA EntriesKeepIndex ==
    ASSUME NEW whole, NEW lead, NEW won, NEW cast, NEW kept,
           LogInv(whole, lead, won, cast, kept)
    PROVE  EntryKeepsIndex
<1> SUFFICES ASSUME NEW m \in Node, NEW n \in Node,
                    NEW i \in DOMAIN log[m].entries, NEW j \in DOMAIN log[n].entries,
                    log[m].entries[i] = log[n].entries[j]
             PROVE  log[m].lastIncludedIndex + i = log[n].lastIncludedIndex + j
  BY DEF EntryKeepsIndex
<1>1. Logs(whole, lead, won) /\ Leaderships(lead, won)
  BY DEF LogInv
<1>2. ASSUME NEW v \in Node, NEW k \in DOMAIN log[v].entries
      PROVE  \E t \in won : /\ log[v].lastIncludedIndex + k \in 1 .. Len(lead[t])
                            /\ lead[t][log[v].lastIncludedIndex + k] = log[v].entries[k]
  <2>1. IsView(log[v], whole[v]) /\ FromLeaders(lead, won, whole[v], currentTerm[v])
    BY <1>1 DEF Logs
  <2>2. k \in 1 .. Len(log[v].entries)
    BY <1>2, <2>1, LenProperties DEF IsView
  <2>3. whole[v] \in Seq(LogEntry) /\ Len(whole[v]) \in Nat
    BY <1>1, HeldEntries
  <2> DEFINE x == log[v].lastIncludedIndex + k
  <2>4. x \in 1 .. Len(whole[v]) /\ whole[v][x] = log[v].entries[k]
    BY <2>1, <2>2, <2>3 DEF IsView
  <2>5. whole[v][x].term \in won /\ Agree(whole[v], lead[whole[v][x].term], x)
    BY <2>1, <2>4 DEF FromLeaders
  <2>6. x <= Len(lead[whole[v][x].term]) /\ lead[whole[v][x].term][x] = whole[v][x]
    BY <2>4, <2>5 DEF Agree
  <2>7. Len(lead[whole[v][x].term]) \in Nat
    <3>1. \A t \in won : lead[t] \in Seq(LogEntry)
      BY <1>1 DEF Leaderships
    <3>2. QED
      BY <2>5, <3>1, LenProperties
  <2>8. x \in 1 .. Len(lead[whole[v][x].term])
    BY <2>4, <2>6, <2>7
  <2>9. QED
    BY <2>4, <2>5, <2>6, <2>8
<1>3. PICK t \in won : /\ log[m].lastIncludedIndex + i \in 1 .. Len(lead[t])
                       /\ lead[t][log[m].lastIncludedIndex + i] = log[m].entries[i]
  BY <1>2
<1>4. PICK u \in won : /\ log[n].lastIncludedIndex + j \in 1 .. Len(lead[u])
                       /\ lead[u][log[n].lastIncludedIndex + j] = log[n].entries[j]
  BY <1>2
<1>5. QED
  BY <1>1, <1>3, <1>4 DEF Leaderships

\* A chosen entry is still in the whole log of everyone who stored it.
LEMMA ResolvedIsKept ==
    ASSUME NEW whole, NEW lead, NEW won, NEW cast, NEW kept,
           LogInv(whole, lead, won, cast, kept)
    PROVE  ResolvedIsDurable
<1> SUFFICES ASSUME NEW r \in resolved
             PROVE  IsMajority({n \in Node : Holds(n, r[2])})
  BY DEF ResolvedIsDurable
<1>0. /\ Leaderships(lead, won) /\ Stores(whole, lead, won, kept) /\ Logs(whole, lead, won)
      /\ Winners(lead, won, cast, kept)
      /\ \A n \in Node : CommitOK(n, whole, lead, kept)
  BY DEF LogInv
<1>1. PICK u \in Nat : \E N \in Nat :
         Chosen(kept, u, N) /\ \E j \in 1 .. N : lead[u][j].command = r[2]
  BY DEF LogInv, ResolvedOK
<1>2. PICK N \in Nat : Chosen(kept, u, N) /\ \E j \in 1 .. N : lead[u][j].command = r[2]
  BY <1>1
<1>3. PICK j \in 1 .. N : lead[u][j].command = r[2]
  BY <1>2
<1>4. ASSUME NEW v \in Keepers(kept, u, N) PROVE Holds(v, r[2])
  <2>1. v \in Node /\ <<v, u, N>> \in kept
    BY DEF Keepers
  <2>2. Has(whole[v], u, N)
    <3>1. Has(whole[v], u, N) \/ Displaced(lead, won, u, N, currentTerm[v] + 1)
      BY <1>0, <2>1 DEF Stores
    <3>2. ~Displaced(lead, won, u, N, currentTerm[v] + 1)
      <4>1. \A w \in won : u <= w => Has(lead[w], u, N)
        BY <1>0, <1>2, ChosenStays
      <4>2. won \subseteq Nat
        BY <1>0 DEF Leaderships
      <4>3. QED
        BY <4>1, <4>2 DEF Displaced
    <3>3. QED
      BY <3>1, <3>2
  <2>3. Agree(whole[v], lead[u], N)
    BY <1>0, <2>1, <2>2 DEF Logs, FromLeaders, Has
  <2>4. whole[v][j].command = r[2] /\ j \in 1 .. Len(whole[v])
    <3>1. Len(whole[v]) \in Nat
      BY <1>0, <2>1, HeldEntries
    <3>2. QED
      BY <1>3, <2>3, <3>1 DEF Agree
  <2>5. CASE j <= log[v].lastIncludedIndex
    <3>1. j \in 1 .. log[v].lastIncludedIndex /\ j \in 1 .. CommitIndex(v)
      BY <1>0, <2>1, <2>4, <2>5, HeldEntries
    <3>2. applied[v][j] = r[2]
      BY <1>0, <2>1, <2>4, <3>1, HeldEntries
    <3>3. QED
      BY <3>1, <3>2 DEF Holds
  <2>6. CASE j > log[v].lastIncludedIndex
    <3> DEFINE k == log[v].lastIncludedIndex
    <3>1. /\ k \in Nat /\ k < j /\ k <= Len(whole[v]) /\ Len(whole[v]) \in Nat
          /\ log[v].entries \in Seq(LogEntry)
          /\ Len(log[v].entries) = Len(whole[v]) - k
          /\ \A i \in 1 .. Len(log[v].entries) : log[v].entries[i] = whole[v][k + i]
      <4>1. IsView(log[v], whole[v])
        BY <1>0, <2>1 DEF Logs
      <4>2. QED
        BY <1>0, <2>1, <2>6, <4>1, HeldEntries DEF IsView
    <3> HIDE DEF k
    <3>2. j - k \in 1 .. Len(log[v].entries) /\ k + (j - k) = j
      BY <2>4, <3>1
    <3>3. log[v].entries[j - k].command = r[2] /\ j - k \in DOMAIN log[v].entries
      BY <2>4, <3>1, <3>2, LenProperties
    <3>4. QED
      BY <3>3 DEF Holds
  <2>7. QED
    BY <1>0, <2>1, <2>4, <2>5, <2>6, HeldEntries
<1>5. /\ Keepers(kept, u, N) \in SUBSET Node
      /\ {n \in Node : Holds(n, r[2])} \in SUBSET Node
      /\ Keepers(kept, u, N) \subseteq {n \in Node : Holds(n, r[2])}
  BY <1>4 DEF Keepers
<1>6. QED
  BY <1>2, <1>5, MajorityGrows DEF Chosen

-------------------------------------------------------------------------------
(* Frames: how each part of the invariant survives a step.                   *)

TermsRise == \A m \in Node : currentTerm[m] <= currentTerm'[m]

LeadersStay ==
    \A m \in Node : state'[m] = "leader" =>
        state[m] = "leader" /\ currentTerm'[m] = currentTerm[m]

\* Whoever is a candidate of a term it was in already was one before.
NoStaleCandidate ==
    \A m \in Node : state'[m] = "candidate" /\ currentTerm'[m] <= currentTerm[m] =>
        state[m] = "candidate" /\ currentTerm'[m] = currentTerm[m]

\* Whoever waits for an answer is in the role and term it called in.
CallersKept ==
    \A c \in appendCalls : c.stage # "orphaned" /\ state'[c.from] # "follower" =>
        state[c.from] # "follower" /\ currentTerm'[c.from] = currentTerm[c.from]

\* Terms rise, and nobody becomes candidate or leader.
Subsides ==
    \A m \in Node :
        /\ currentTerm[m] <= currentTerm'[m]
        /\ state'[m] = "follower" \/ (state'[m] = state[m] /\ currentTerm'[m] = currentTerm[m])

LEMMA SubsidesMeans ==
    ASSUME ElectionTypeOK, Subsides
    PROVE  TermsRise /\ LeadersStay /\ NoStaleCandidate /\ CallersKept
<1>1. \A c \in appendCalls : c.from \in Node
  BY DEF ElectionTypeOK, IsAppendCall
<1>2. QED
  BY <1>1 DEF Subsides, TermsRise, LeadersStay, NoStaleCandidate, CallersKept

\* More terms have a leader, and a leader's log only gets entries of its term.
Longer(lead, won, lead2, won2) ==
    /\ won \subseteq won2
    /\ \A t \in won : /\ Agree(lead[t], lead2[t], Len(lead[t]))
                      /\ \A i \in Len(lead[t]) + 1 .. Len(lead2[t]) : lead2[t][i].term = t

\* What is stored, and for whose sake, is stored in the present term.
StoredNow(kept, kept2) ==
    /\ kept \subseteq kept2
    /\ \A k \in kept2 \ kept : k[1] \in Node /\ k[2] \in Nat /\ currentTerm[k[1]] <= k[2]

LEMMA LongerSelf ==
    ASSUME NEW lead, NEW won, Leaderships(lead, won)
    PROVE  Longer(lead, won, lead, won)
<1>1. \A t \in won : Len(lead[t]) \in Nat
  BY DEF Leaderships
<1>2. QED
  BY <1>1 DEF Longer, Agree

LEMMA LongerKeeps ==
    ASSUME NEW lead, NEW won, NEW lead2, NEW won2,
           Leaderships(lead, won), Leaderships(lead2, won2)', Longer(lead, won, lead2, won2)
    PROVE  /\ \A l, s, t : FromLeaders(lead, won, l, s) /\ s \in Nat /\ t \in Nat /\ s <= t
                              => FromLeaders(lead2, won2, l, t)
           /\ \A s \in won : \A t, i : Has(lead[s], t, i) => Has(lead2[s], t, i)
           /\ \A s, t \in Nat : \A r, i \in Nat : s <= t /\ Displaced(lead, won, r, i, s)
                              => Displaced(lead2, won2, r, i, t)
<1>1. won \subseteq Nat /\ \A t \in won : Len(lead[t]) \in Nat /\ Len(lead2[t]) \in Nat
  <2>1. won \subseteq Nat /\ \A t \in won : lead[t] \in Seq(LogEntry) /\ lead2[t] \in Seq(LogEntry)
    BY DEF Leaderships
  <2>2. QED
    BY <2>1, LenProperties
<1>2. ASSUME NEW l, NEW s \in Nat, NEW t \in Nat, FromLeaders(lead, won, l, s), s <= t
      PROVE  FromLeaders(lead2, won2, l, t)
  <2> SUFFICES ASSUME NEW i \in 1 .. Len(l)
               PROVE  l[i].term \in won2 /\ l[i].term <= t /\ Agree(l, lead2[l[i].term], i)
    BY DEF FromLeaders
  <2>1. l[i].term \in won /\ l[i].term <= s /\ Agree(l, lead[l[i].term], i)
    BY <1>2 DEF FromLeaders
  <2>2. PICK u \in won : u = l[i].term
    BY <2>1
  <2>3. Agree(lead[u], lead2[u], Len(lead[u]))
    BY DEF Longer
  <2>4. Agree(l, lead2[u], i)
    <3>1. i \in Nat
      OBVIOUS
    <3>2. Agree(l, lead[u], i)
      BY <2>1, <2>2
    <3>3. QED
      BY <3>1, <3>2, <2>3, <1>1 DEF Agree
  <2>5. QED
    BY <2>1, <2>2, <2>4, <1>1, <1>2 DEF Longer
<1>3. ASSUME NEW s \in won, NEW t, NEW i, Has(lead[s], t, i) PROVE Has(lead2[s], t, i)
  <2>1. Agree(lead[s], lead2[s], Len(lead[s]))
    BY DEF Longer
  <2>2. QED
    BY <1>1, <1>3, <2>1 DEF Has, Agree
<1>4. ASSUME NEW s \in Nat, NEW t \in Nat, NEW r \in Nat, NEW i \in Nat,
             s <= t, Displaced(lead, won, r, i, s)
      PROVE  Displaced(lead2, won2, r, i, t)
  <2>1. PICK u \in won : r < u /\ u < s /\ ~Has(lead[u], r, i)
    BY <1>4 DEF Displaced
  <2>2. /\ u \in won2
        /\ Agree(lead[u], lead2[u], Len(lead[u]))
        /\ \A j \in Len(lead[u]) + 1 .. Len(lead2[u]) : lead2[u][j].term = u
    BY DEF Longer
  <2>3. ~Has(lead2[u], r, i)
    <3> SUFFICES ASSUME i \in 1 .. Len(lead2[u]), lead2[u][i].term = r PROVE FALSE
      BY DEF Has
    <3>1. CASE i <= Len(lead[u])
      BY <3>1, <2>1, <2>2, <1>1 DEF Has, Agree
    <3>2. CASE i > Len(lead[u])
      <4>1. i \in Len(lead[u]) + 1 .. Len(lead2[u])
        BY <3>2, <1>1
      <4>2. QED
        BY <4>1, <2>1, <2>2, <1>1
    <3>3. QED
      BY <3>1, <3>2, <1>1
  <2>4. QED
    BY <1>1, <1>4, <2>1, <2>2, <2>3 DEF Displaced
<1>5. QED
  BY <1>2, <1>3, <1>4

LEMMA LogsFrame ==
    ASSUME NEW whole, NEW lead, NEW won, NEW lead2, NEW won2,
           ElectionTypeOK, ElectionTypeOK', Logs(whole, lead, won),
           Leaderships(lead, won), Leaderships(lead2, won2)', Longer(lead, won, lead2, won2),
           UNCHANGED <<log, applied>>,
           TermsRise
    PROVE  Logs(whole, lead2, won2)'
<1>1. \A n \in Node : FromLeaders(lead2, won2, whole[n], currentTerm'[n])
  <2> SUFFICES ASSUME NEW n \in Node PROVE FromLeaders(lead2, won2, whole[n], currentTerm'[n])
    OBVIOUS
  <2>1. FromLeaders(lead, won, whole[n], currentTerm[n])
    BY DEF Logs
  <2>2. currentTerm[n] \in Nat /\ currentTerm'[n] \in Nat /\ currentTerm[n] <= currentTerm'[n]
    BY DEF ElectionTypeOK, TermsRise
  <2>3. QED
    BY <2>1, <2>2, LongerKeeps
<1>2. QED
  BY <1>1 DEF Logs, CommitIndex

LEMMA VotesFrame ==
    ASSUME NEW cast, NEW cast2, ElectionTypeOK, ElectionTypeOK', [Next]_vars, Votes(cast),
           cast \subseteq cast2, cast2 \subseteq Node \X Nat \X Node,
           Ballots' \subseteq cast2,
           \A b \in cast2 \ cast :
              /\ b[2] <= currentTerm'[b[1]]
              /\ b[2] = currentTerm'[b[3]] /\ votedFor'[b[3]] = b[1]
    PROVE  Votes(cast2)'
<1>1. \A n \in Node :
         /\ currentTerm[n] <= currentTerm'[n]
         /\ currentTerm[n] = currentTerm'[n] /\ votedFor[n] # None => votedFor'[n] = votedFor[n]
  BY VoteStep
<1>2. \A n \in Node : currentTerm[n] \in Nat /\ currentTerm'[n] \in Nat
  BY DEF ElectionTypeOK
<1>3. ASSUME NEW b \in cast2
      PROVE  /\ b[1] \in Node /\ b[2] \in Nat /\ b[3] \in Node
             /\ b[2] <= currentTerm'[b[1]]
             /\ b[2] <= currentTerm'[b[3]]
             /\ b[2] = currentTerm'[b[3]] => votedFor'[b[3]] = b[1]
  <2>1. b[1] \in Node /\ b[2] \in Nat /\ b[3] \in Node
    OBVIOUS
  <2>2. CASE b \in cast
    <3>1. /\ b[2] <= currentTerm[b[1]] /\ b[2] <= currentTerm[b[3]]
          /\ b[2] = currentTerm[b[3]] => votedFor[b[3]] = b[1]
      BY <2>2 DEF Votes
    <3>2. None \notin Node
      BY RaftAssumption
    <3>3. QED
      BY <3>1, <3>2, <2>1, <1>1, <1>2
  <2>3. CASE b \notin cast
    BY <2>1, <2>3, <1>2
  <2>4. QED
    BY <2>1, <2>2, <2>3
<1>4. ASSUME NEW a \in cast2, NEW b \in cast2, a[2] = b[2], a[3] = b[3] PROVE a[1] = b[1]
  <2>1. CASE a \in cast /\ b \in cast
    BY <2>1, <1>4 DEF Votes
  <2>2. CASE a \notin cast \/ b \notin cast
    <3>1. a[2] = currentTerm'[a[3]] /\ b[2] = currentTerm'[b[3]]
      BY <2>2, <1>4
    <3>2. votedFor'[a[3]] = a[1] /\ votedFor'[b[3]] = b[1]
      BY <3>1, <1>3
    <3>3. QED
      BY <3>2, <1>4
  <2>3. QED
    BY <2>1, <2>2
<1>5. QED
  BY <1>3, <1>4 DEF Votes

LEMMA VotersGrow ==
    ASSUME NEW cast, NEW cast2, cast \subseteq cast2, NEW n, NEW t,
           IsMajority(Voters(cast, n, t))
    PROVE  IsMajority(Voters(cast2, n, t))
<1>1. /\ Voters(cast, n, t) \in SUBSET Node /\ Voters(cast2, n, t) \in SUBSET Node
      /\ Voters(cast, n, t) \subseteq Voters(cast2, n, t)
  BY DEF Voters
<1>2. QED
  BY <1>1, MajorityGrows

LEMMA ReignsFrame ==
    ASSUME NEW whole, NEW lead, NEW won, NEW cast, NEW whole2, NEW won2, NEW cast2,
           Reigns(whole, lead, won, cast), LeadersStay,
           won \subseteq won2, cast \subseteq cast2,
           \A m \in Node : state'[m] = "leader" => whole2[m] = whole[m]
    PROVE  Reigns(whole2, lead, won2, cast2)'
<1> SUFFICES ASSUME NEW n \in Node, state'[n] = "leader"
             PROVE  /\ currentTerm'[n] \in won2
                    /\ whole2[n] = lead[currentTerm'[n]]
                    /\ IsMajority(Voters(cast2, n, currentTerm'[n]))
  BY DEF Reigns, IsMajority, Voters
<1>1. state[n] = "leader" /\ currentTerm'[n] = currentTerm[n]
  BY DEF LeadersStay
<1>2. QED
  BY <1>1, VotersGrow DEF Reigns

\* d is call c some time earlier.
SameVoteCall(c, d) ==
    /\ c.from = d.from /\ c.to = d.to /\ c.term = d.term
    /\ c.lastLogIndex = d.lastLogIndex /\ c.lastLogTerm = d.lastLogTerm
    /\ c.stage # "answered" => d.stage # "answered"

LEMMA VoteCallFrame ==
    ASSUME NEW whole, NEW won, NEW whole2, NEW won2, NEW c, NEW d,
           ElectionTypeOK, ElectionTypeOK', TermsRise, NoStaleCandidate, IsVoteCall(d),
           VoteCallOK(d, whole, won), SameVoteCall(c, d), won \subseteq won2,
           \A m \in Node : state'[m] = "candidate" /\ currentTerm'[m] \notin won2 =>
              whole2[m] = whole[m]
    PROVE  VoteCallOK(c, whole2, won2)'
<1>1. c.from \in Node /\ c.term \in Nat /\ c.from = d.from /\ c.term = d.term
  BY DEF IsVoteCall, SameVoteCall
<1>2. currentTerm[c.from] \in Nat /\ currentTerm'[c.from] \in Nat
      /\ currentTerm[c.from] <= currentTerm'[c.from]
  BY <1>1 DEF ElectionTypeOK, TermsRise
<1>3. c.term <= currentTerm'[c.from]
  BY <1>1, <1>2 DEF VoteCallOK
<1>4. ASSUME c.stage # "answered", state'[c.from] = "candidate",
             c.term = currentTerm'[c.from], c.term \notin won2
      PROVE  /\ c.lastLogIndex = Len(whole2[c.from])
             /\ c.lastLogTerm = IF whole2[c.from] = <<>> THEN 0
                                ELSE whole2[c.from][Len(whole2[c.from])].term
  <2>1. state[c.from] = "candidate" /\ currentTerm[c.from] = currentTerm'[c.from]
    BY <1>1, <1>2, <1>4 DEF NoStaleCandidate, VoteCallOK
  <2>2. whole2[c.from] = whole[c.from] /\ c.term \notin won
    BY <1>1, <1>4
  <2>3. QED
    BY <1>1, <1>4, <2>1, <2>2 DEF VoteCallOK, SameVoteCall
<1>5. QED
  BY <1>3, <1>4 DEF VoteCallOK, SameVoteCall

\* d is call c some time earlier; if c is a new success, all is in kept.
SameAppendCall(c, d, lead, kept) ==
    /\ c.from = d.from /\ c.to = d.to /\ c.term = d.term
    /\ c.prevLogIndex = d.prevLogIndex /\ c.prevLogTerm = d.prevLogTerm
    /\ c.entries = d.entries /\ c.leaderCommit = d.leaderCommit
    /\ c.success \in BOOLEAN /\ c.stage \in Stage
    /\ c.stage # "orphaned" => d.stage # "orphaned"
    /\ c.stage = "answered" /\ c.success =>
          \/ d.stage = "answered" /\ d.success
          \/ \A i \in 1 .. c.prevLogIndex + Len(c.entries) :
                Has(lead[c.term], c.term, i) => <<c.to, c.term, i>> \in kept

LEMMA AppendCallFrame ==
    ASSUME NEW lead, NEW won, NEW cast, NEW kept, NEW lead2, NEW won2, NEW cast2, NEW kept2,
           NEW c, NEW d,
           ElectionTypeOK, ElectionTypeOK', TermsRise, CallersKept, d \in appendCalls,
           Leaderships(lead, won), Leaderships(lead2, won2)', Longer(lead, won, lead2, won2),
           cast \subseteq cast2, kept \subseteq kept2,
           AppendCallOK(d, lead, won, cast, kept), SameAppendCall(c, d, lead, kept2)
    PROVE  AppendCallOK(c, lead2, won2, cast2, kept2)'
<1> DEFINE last == c.prevLogIndex + Len(c.entries)
<1>1. /\ c.from \in Node /\ c.term \in Nat /\ c.from = d.from /\ c.term = d.term
      /\ c.prevLogIndex \in Nat /\ c.entries \in Seq(LogEntry) /\ Len(c.entries) \in Nat
      /\ c.term \in won /\ last <= Len(lead[c.term]) /\ last \in Nat
  BY DEF ElectionTypeOK, IsAppendCall, SameAppendCall, AppendCallOK
<1>2. Len(lead[c.term]) \in Nat /\ Len(lead2[c.term]) \in Nat
  <2>1. lead[c.term] \in Seq(LogEntry) /\ lead2[c.term] \in Seq(LogEntry)
    BY <1>1 DEF Leaderships
  <2>2. QED
    BY <2>1, LenProperties
<1>3. Agree(lead[c.term], lead2[c.term], Len(lead[c.term])) /\ c.term \in won2
  BY <1>1 DEF Longer
<1>4. last <= Len(lead2[c.term]) /\ \A i \in 1 .. last : lead2[c.term][i] = lead[c.term][i]
  BY <1>1, <1>2, <1>3 DEF Agree
<1>5. c.from # c.to /\ c.term <= currentTerm'[c.from]
  <2>1. currentTerm[c.from] \in Nat /\ currentTerm'[c.from] \in Nat
        /\ currentTerm[c.from] <= currentTerm'[c.from]
    BY <1>1 DEF ElectionTypeOK, TermsRise
  <2>2. QED
    BY <1>1, <2>1 DEF AppendCallOK, SameAppendCall
<1>6. c.stage # "orphaned" /\ state'[c.from] # "follower" => c.term = currentTerm'[c.from]
  BY <1>1 DEF CallersKept, AppendCallOK, SameAppendCall
<1>7. IsMajority(Voters(cast2, c.from, c.term))
  BY <1>1, VotersGrow DEF AppendCallOK
<1>8. c.prevLogIndex > 0 => c.prevLogTerm = lead2[c.term][c.prevLogIndex].term
  <2>1. c.prevLogIndex > 0 => c.prevLogIndex \in 1 .. last
    BY <1>1
  <2>2. QED
    BY <1>4, <2>1 DEF AppendCallOK, SameAppendCall
<1>9. \A k \in 1 .. Len(c.entries) : c.entries[k] = lead2[c.term][c.prevLogIndex + k]
  <2>1. \A k \in 1 .. Len(c.entries) : c.prevLogIndex + k \in 1 .. last
    BY <1>1
  <2>2. QED
    BY <1>4, <2>1 DEF AppendCallOK, SameAppendCall
<1>10. /\ c.prevLogIndex \in Nat /\ c.prevLogTerm \in Nat /\ c.leaderCommit \in Nat
       /\ c.leaderCommit <= last
       /\ Committed(kept2, c.term, c.leaderCommit)
  BY ChosenGrows DEF AppendCallOK, SameAppendCall
<1>11. ASSUME c.stage = "answered", c.success
       PROVE  \A i \in 1 .. last : Has(lead2[c.term], c.term, i) => <<c.to, c.term, i>> \in kept2
  <2>1. \A i \in 1 .. last : Has(lead[c.term], c.term, i) => <<c.to, c.term, i>> \in kept2
    BY <1>11 DEF AppendCallOK, SameAppendCall
  <2>2. \A i \in 1 .. last : Has(lead2[c.term], c.term, i) => Has(lead[c.term], c.term, i)
    BY <1>1, <1>2, <1>4 DEF Has
  <2>3. QED
    BY <2>1, <2>2
<1>12. c.success \in BOOLEAN /\ c.stage \in Stage
  BY DEF SameAppendCall
<1>13. QED
  BY <1>1, <1>3, <1>4, <1>5, <1>6, <1>7, <1>8, <1>9, <1>10, <1>11, <1>12
     DEF AppendCallOK, IsMajority, Voters, Committed, Chosen, Keepers

LEMMA ProgressFrame ==
    ASSUME NEW whole, NEW lead, NEW kept, NEW whole2, NEW kept2,
           Progress(whole, lead, kept), LeadersStay, UNCHANGED <<nextIndex, matchIndex>>,
           kept \subseteq kept2,
           \A m \in Node : state'[m] = "leader" => whole2[m] = whole[m]
    PROVE  Progress(whole2, lead, kept2)'
<1>1. \A n \in Node : state'[n] = "leader" =>
         state[n] = "leader" /\ currentTerm'[n] = currentTerm[n] /\ whole2[n] = whole[n]
  BY DEF LeadersStay
<1>2. QED
  BY <1>1 DEF Progress

LEMMA StoresFrame ==
    ASSUME NEW whole, NEW lead, NEW won, NEW kept, NEW lead2, NEW won2,
           ElectionTypeOK, ElectionTypeOK', Stores(whole, lead, won, kept),
           Leaderships(lead, won), Leaderships(lead2, won2)', Longer(lead, won, lead2, won2),
           TermsRise
    PROVE  Stores(whole, lead2, won2, kept)'
<1> SUFFICES ASSUME NEW k \in kept
             PROVE  /\ Has(lead2[k[2]], k[2], k[3])
                    /\ k[2] <= currentTerm'[k[1]]
                    /\ \/ Has(whole[k[1]], k[2], k[3])
                       \/ Displaced(lead2, won2, k[2], k[3], currentTerm'[k[1]] + 1)
  BY DEF Stores
<1>1. k[1] \in Node /\ k[2] \in Nat /\ k[3] \in Nat
  BY DEF Stores
<1>2. currentTerm[k[1]] \in Nat /\ currentTerm'[k[1]] \in Nat
      /\ currentTerm[k[1]] <= currentTerm'[k[1]]
  BY <1>1 DEF ElectionTypeOK, TermsRise
<1>3. /\ Has(lead[k[2]], k[2], k[3])
      /\ k[2] <= currentTerm[k[1]]
      /\ \/ Has(whole[k[1]], k[2], k[3])
         \/ Displaced(lead, won, k[2], k[3], currentTerm[k[1]] + 1)
  BY DEF Stores
<1>4. k[2] \in won
  BY <1>1, <1>3, HasAgrees
<1>5. Has(lead2[k[2]], k[2], k[3])
  BY <1>3, <1>4, LongerKeeps
<1>6. Displaced(lead, won, k[2], k[3], currentTerm[k[1]] + 1)
        => Displaced(lead2, won2, k[2], k[3], currentTerm'[k[1]] + 1)
  <2>1. currentTerm[k[1]] + 1 \in Nat /\ currentTerm'[k[1]] + 1 \in Nat
        /\ currentTerm[k[1]] + 1 <= currentTerm'[k[1]] + 1
    BY <1>2
  <2>2. QED
    BY <1>1, <2>1, LongerKeeps
<1>7. QED
  BY <1>1, <1>2, <1>3, <1>5, <1>6

LEMMA CandidatesFrame ==
    ASSUME NEW whole, NEW lead, NEW won, NEW cast, NEW kept,
           NEW whole2, NEW lead2, NEW won2, NEW cast2, NEW kept2,
           ElectionTypeOK, Candidates(whole, lead, won, cast, kept), Votes(cast),
           Stores(whole, lead, won, kept),
           Leaderships(lead, won), Leaderships(lead2, won2)', Longer(lead, won, lead2, won2),
           StoredNow(kept, kept2), NoStaleCandidate,
           \A m \in Node : state'[m] = "candidate" /\ currentTerm'[m] \notin won2 =>
              whole2[m] = whole[m],
           \A b \in cast2 \ cast :
              state'[b[1]] = "candidate" /\ currentTerm'[b[1]] = b[2] /\ b[2] \notin won2 =>
                 \A k \in kept2 : k[1] = b[3] /\ k[2] < b[2] =>
                    Has(whole2[b[1]], k[2], k[3]) \/ Displaced(lead2, won2, k[2], k[3], b[2])
    PROVE  Candidates(whole2, lead2, won2, cast2, kept2)'
<1> SUFFICES ASSUME NEW b \in cast2, state'[b[1]] = "candidate", currentTerm'[b[1]] = b[2],
                    b[2] \notin won2,
                    NEW k \in kept2, k[1] = b[3], k[2] < b[2]
             PROVE  Has(whole2[b[1]], k[2], k[3]) \/ Displaced(lead2, won2, k[2], k[3], b[2])
  BY DEF Candidates
<1>1. CASE b \notin cast
  BY <1>1
<1>2. CASE b \in cast
  <2>1. /\ b[1] \in Node /\ b[2] \in Nat /\ b[3] \in Node
        /\ b[2] <= currentTerm[b[1]] /\ b[2] <= currentTerm[b[3]]
    BY <1>2 DEF Votes
  <2>2. currentTerm[b[3]] \in Nat
    BY <2>1 DEF ElectionTypeOK
  <2>3. k \in kept
    BY <2>1, <2>2 DEF StoredNow
  <2>4. k[2] \in Nat /\ k[3] \in Nat
    BY <2>3 DEF Stores
  <2>5. state[b[1]] = "candidate" /\ currentTerm[b[1]] = b[2] /\ b[2] \notin won
    BY <2>1 DEF NoStaleCandidate, Longer
  <2>6. Has(whole[b[1]], k[2], k[3]) \/ Displaced(lead, won, k[2], k[3], b[2])
    BY <1>2, <2>3, <2>5 DEF Candidates
  <2>7. whole2[b[1]] = whole[b[1]]
    BY <2>1
  <2>8. Displaced(lead, won, k[2], k[3], b[2]) => Displaced(lead2, won2, k[2], k[3], b[2])
    BY <2>1, <2>4, LongerKeeps
  <2>9. QED
    BY <2>6, <2>7, <2>8
<1>3. QED
  BY <1>1, <1>2

LEMMA WinnerFrame ==
    ASSUME NEW whole, NEW lead, NEW won, NEW cast, NEW kept,
           NEW lead2, NEW won2, NEW cast2, NEW kept2, NEW s \in won,
           ElectionTypeOK, ElectionTypeOK', WinnerOK(s, lead, won, cast, kept), Votes(cast),
           Stores(whole, lead, won, kept),
           Leaderships(lead, won), Leaderships(lead2, won2)', Longer(lead, won, lead2, won2),
           cast \subseteq cast2, StoredNow(kept, kept2), NoStaleCandidate,
           TermsRise
    PROVE  WinnerOK(s, lead2, won2, cast2, kept2)'
<1>1. PICK n \in Node : \E Q \in SUBSET Voters(cast, n, s) :
        /\ IsMajority(Q)
        /\ s <= currentTerm[n]
        /\ ~(state[n] = "candidate" /\ currentTerm[n] = s)
        /\ \A k \in kept : k[1] \in Q /\ k[2] < s =>
              Has(lead[s], k[2], k[3]) \/ Displaced(lead, won, k[2], k[3], s)
  BY DEF WinnerOK
<1>2. PICK Q \in SUBSET Voters(cast, n, s) :
        /\ IsMajority(Q)
        /\ s <= currentTerm[n]
        /\ ~(state[n] = "candidate" /\ currentTerm[n] = s)
        /\ \A k \in kept : k[1] \in Q /\ k[2] < s =>
              Has(lead[s], k[2], k[3]) \/ Displaced(lead, won, k[2], k[3], s)
  BY <1>1
<1>3. s \in Nat /\ currentTerm[n] \in Nat /\ currentTerm'[n] \in Nat
      /\ currentTerm[n] <= currentTerm'[n]
  BY DEF Leaderships, ElectionTypeOK, TermsRise
<1>4. s <= currentTerm'[n] /\ ~(state'[n] = "candidate" /\ currentTerm'[n] = s)
  BY <1>2, <1>3 DEF NoStaleCandidate
<1>5. Q \in SUBSET Voters(cast2, n, s)
  BY DEF Voters
<1>6. ASSUME NEW k \in kept2, k[1] \in Q, k[2] < s
      PROVE  Has(lead2[s], k[2], k[3]) \/ Displaced(lead2, won2, k[2], k[3], s)
  <2>1. <<n, s, k[1]>> \in cast /\ k[1] \in Node
    BY <1>6 DEF Voters
  <2>2. s <= currentTerm[k[1]] /\ currentTerm[k[1]] \in Nat
    BY <2>1 DEF Votes, ElectionTypeOK
  <2>3. k \in kept
    BY <1>3, <1>6, <2>2 DEF StoredNow
  <2>4. k[2] \in Nat /\ k[3] \in Nat
    BY <2>3 DEF Stores
  <2>5. Has(lead[s], k[2], k[3]) \/ Displaced(lead, won, k[2], k[3], s)
    BY <1>2, <1>6, <2>3
  <2>6. Has(lead[s], k[2], k[3]) => Has(lead2[s], k[2], k[3])
    BY LongerKeeps
  <2>7. Displaced(lead, won, k[2], k[3], s) => Displaced(lead2, won2, k[2], k[3], s)
    BY <1>3, <2>4, LongerKeeps
  <2>8. QED
    BY <2>5, <2>6, <2>7
<1>7. QED
  BY <1>2, <1>4, <1>5, <1>6 DEF WinnerOK, IsMajority

LEMMA CommitFrame ==
    ASSUME NEW whole, NEW lead, NEW won, NEW cast, NEW kept,
           NEW whole2, NEW lead2, NEW won2, NEW kept2, NEW n \in Node,
           ElectionTypeOK, ElectionTypeOK', LogInv(whole, lead, won, cast, kept),
           Leaderships(lead2, won2)', Longer(lead, won, lead2, won2),
           kept \subseteq kept2, CommitOK(n, whole, lead, kept),
           CommitIndex(n)' \in Nat, CommitIndex(n)' <= CommitIndex(n),
           Agree(whole[n], whole2[n], CommitIndex(n)),
           currentTerm[n] <= currentTerm'[n]
    PROVE  CommitOK(n, whole2, lead2, kept2)'
<1>0. /\ Leaderships(lead, won) /\ Stores(whole, lead, won, kept) /\ Logs(whole, lead, won)
      /\ Winners(lead, won, cast, kept)
  BY DEF LogInv
<1>1. CommitIndex(n) \in Nat /\ currentTerm[n] \in Nat /\ currentTerm'[n] \in Nat
  BY <1>0, HeldEntries DEF ElectionTypeOK
<1>2. CASE CommitIndex(n) = 0
  BY <1>1, <1>2 DEF CommitOK
<1>3. CASE CommitIndex(n) # 0
  <2>1. PICK u \in Nat, N \in Nat :
           /\ u <= currentTerm[n] /\ CommitIndex(n) <= N
           /\ Chosen(kept, u, N)
           /\ Agree(whole[n], lead[u], CommitIndex(n))
    BY <1>3 DEF CommitOK
  <2>2. u \in won /\ Chosen(kept2, u, N)
    BY <1>0, <2>1, ChosenStays, ChosenGrows
  <2>3. Agree(lead[u], lead2[u], Len(lead[u]))
    BY <2>2 DEF Longer
  <2>4. Len(lead[u]) \in Nat
    BY <1>0, <2>2 DEF Leaderships
  <2>5. Agree(whole2[n], lead2[u], CommitIndex(n))
    <3>1. PICK j, w, w2, l, l2 : /\ j = CommitIndex(n) /\ w = whole[n] /\ w2 = whole2[n]
                                 /\ l = lead[u] /\ l2 = lead2[u]
      OBVIOUS
    <3>2. j \in Nat /\ Len(l) \in Nat /\ Agree(w, w2, j) /\ Agree(w, l, j) /\ Agree(l, l2, Len(l))
      BY <2>1, <2>3, <2>4, <1>1, <3>1
    <3>3. j <= Len(l) /\ j <= j
      BY <3>2 DEF Agree
    <3>4. Agree(w, l2, j)
      BY <3>2, <3>3, AgreeChains
    <3>5. Agree(w2, w, j)
      BY <3>2, <3>3, AgreeChains
    <3>6. Agree(w2, l2, j)
      BY <3>2, <3>3, <3>4, <3>5, AgreeChains
    <3> QED BY <3>1, <3>6
  <2>6. Agree(whole2[n], lead2[u], CommitIndex(n)')
    <3>1. PICK i \in Nat : i = CommitIndex(n)'
      OBVIOUS
    <3>2. PICK j \in Nat : j = CommitIndex(n)
      BY <1>1
    <3>3. i <= j
      BY <3>1, <3>2
    <3>4. Agree(whole2[n], lead2[u], i)
      <4>1. Agree(whole2[n], lead2[u], j)
        BY <3>2, <2>5
      <4>2. Len(whole2[n]) >= j /\ Len(lead2[u]) >= j
        BY <4>1 DEF Agree
      <4>3. Agree(whole[n], whole2[n], j) /\ Len(lead2[u]) \in Nat
        <5>1. lead2[u] \in Seq(LogEntry)
          BY <2>1 DEF Leaderships
        <5>2. QED
          BY <5>1, <3>2, LenProperties
      <4>4. QED
        BY <4>1, <4>2, <3>3 DEF Agree
    <3>5. QED
      BY <3>1, <3>4
  <2>7. CommitIndex(n)' <= N /\ u <= currentTerm'[n]
    BY <2>1, <1>1
  <2>8. QED
    BY <2>1, <2>2, <2>6, <2>7 DEF CommitOK, Chosen, Keepers, IsMajority
<1>4. QED
  BY <1>2, <1>3

LEMMA ResolvedFrame ==
    ASSUME NEW whole, NEW lead, NEW won, NEW cast, NEW kept,
           NEW lead2, NEW won2, NEW kept2, NEW r,
           LogInv(whole, lead, won, cast, kept), Longer(lead, won, lead2, won2),
           kept \subseteq kept2, ResolvedOK(r, lead, kept)
    PROVE  ResolvedOK(r, lead2, kept2)
<1>0. /\ Leaderships(lead, won) /\ Stores(whole, lead, won, kept)
      /\ Winners(lead, won, cast, kept)
  BY DEF LogInv
<1>1. PICK u \in Nat, N \in Nat :
         Chosen(kept, u, N) /\ \E j \in 1 .. N : lead[u][j].command = r[2]
  BY DEF ResolvedOK
<1>2. PICK j \in 1 .. N : lead[u][j].command = r[2]
  BY <1>1
<1>3. u \in won /\ Has(lead[u], u, N) /\ Chosen(kept2, u, N)
  BY <1>0, <1>1, ChosenStays, ChosenGrows
<1>4. Agree(lead[u], lead2[u], Len(lead[u]))
  BY <1>3 DEF Longer
<1>5. Len(lead[u]) \in Nat
  BY <1>0, <1>3 DEF Leaderships
<1>6. lead2[u][j] = lead[u][j]
  BY <1>2, <1>3, <1>4, <1>5 DEF Has, Agree
<1>7. QED
  BY <1>1, <1>2, <1>3, <1>6 DEF ResolvedOK

\* A step that touches no log: what is left to show is about votes, calls and
\* the leaders' view of their peers.
LEMMA CalmStep ==
    ASSUME NEW whole, NEW lead, NEW won, NEW cast, NEW kept, NEW cast2,
           ElectionTypeOK, ElectionTypeOK', LogInv(whole, lead, won, cast, kept),
           TermsRise, LeadersStay, NoStaleCandidate,
           UNCHANGED <<log, applied, pending, resolved, submitted>>,
           cast \subseteq cast2, Votes(cast2)',
           \A b \in cast2 \ cast :
              state'[b[1]] = "candidate" /\ currentTerm'[b[1]] = b[2] /\ b[2] \notin won =>
                 \A k \in kept : k[1] = b[3] /\ k[2] < b[2] =>
                    Has(whole[b[1]], k[2], k[3]) \/ Displaced(lead, won, k[2], k[3], b[2]),
           \A c \in voteCalls' : VoteCallOK(c, whole, won)',
           \A c \in appendCalls' : AppendCallOK(c, lead, won, cast2, kept)',
           Progress(whole, lead, kept)'
    PROVE  LogInv(whole, lead, won, cast2, kept)'
<1>0. /\ Leaderships(lead, won) /\ Logs(whole, lead, won) /\ Votes(cast)
      /\ Reigns(whole, lead, won, cast) /\ Stores(whole, lead, won, kept)
      /\ Candidates(whole, lead, won, cast, kept) /\ Winners(lead, won, cast, kept)
      /\ \A n \in Node : CommitOK(n, whole, lead, kept)
      /\ pending \subseteq Node \X (Nat \ {0}) \X Command
      /\ \A r \in resolved : ResolvedOK(r, lead, kept)
  BY DEF LogInv
<1>1. Leaderships(lead, won)' /\ Longer(lead, won, lead, won)
  BY <1>0, LongerSelf DEF Leaderships
<1>2. Logs(whole, lead, won)'
  BY <1>0, <1>1, LogsFrame
<1>3. Reigns(whole, lead, won, cast2)'
  BY <1>0, ReignsFrame
<1>4. Stores(whole, lead, won, kept)'
  BY <1>0, <1>1, StoresFrame
<1>5. StoredNow(kept, kept)
  BY DEF StoredNow
<1>6. Candidates(whole, lead, won, cast2, kept)'
  BY <1>0, <1>1, <1>5, CandidatesFrame
<1>7. Winners(lead, won, cast2, kept)'
  <2>1. ASSUME NEW s \in won PROVE WinnerOK(s, lead, won, cast2, kept)'
    <3>1. WinnerOK(s, lead, won, cast, kept)
      BY <1>0 DEF Winners
    <3>2. QED
      BY <1>0, <1>1, <1>5, <3>1, WinnerFrame
  <2>2. QED
    BY <2>1 DEF Winners
<1>8. ASSUME NEW n \in Node PROVE CommitOK(n, whole, lead, kept)'
  <2>1. /\ CommitIndex(n)' = CommitIndex(n) /\ CommitIndex(n) \in Nat
        /\ CommitIndex(n) <= Len(whole[n])
    BY <1>0, HeldEntries DEF CommitIndex
  <2>2. Agree(whole[n], whole[n], CommitIndex(n))
    BY <2>1 DEF Agree
  <2>3. currentTerm[n] <= currentTerm'[n] /\ CommitOK(n, whole, lead, kept)
    BY <1>0 DEF TermsRise
  <2>4. CommitIndex(n)' \in Nat /\ CommitIndex(n)' <= CommitIndex(n)
    BY <2>1
  <2>5. QED
    BY <1>1, <2>2, <2>3, <2>4, CommitFrame
<1>9. \A r \in resolved' : ResolvedOK(r, lead, kept)
  BY <1>0
<1>10. QED
  BY <1>0, <1>1, <1>2, <1>3, <1>4, <1>6, <1>7, <1>8, <1>9
     DEF LogInv, ResolvedOK, Chosen, Keepers, IsMajority

\* Calls that were under way before.
LEMMA VoteCallsKept ==
    ASSUME NEW whole, NEW won, NEW whole2, NEW won2,
           ElectionTypeOK, ElectionTypeOK', TermsRise, NoStaleCandidate, won \subseteq won2,
           \A m \in Node : state'[m] = "candidate" /\ currentTerm'[m] \notin won2 =>
              whole2[m] = whole[m],
           \A c \in voteCalls : VoteCallOK(c, whole, won),
           NEW c, \E d \in voteCalls : SameVoteCall(c, d)
    PROVE  VoteCallOK(c, whole2, won2)'
<1>1. PICK d \in voteCalls : SameVoteCall(c, d)
  OBVIOUS
<1>2. IsVoteCall(d) /\ VoteCallOK(d, whole, won)
  BY DEF ElectionTypeOK
<1>3. QED
  BY <1>1, <1>2, VoteCallFrame

LEMMA AppendCallsKept ==
    ASSUME NEW lead, NEW won, NEW cast, NEW kept, NEW lead2, NEW won2, NEW cast2, NEW kept2,
           ElectionTypeOK, ElectionTypeOK', TermsRise, CallersKept,
           Leaderships(lead, won), Leaderships(lead2, won2)', Longer(lead, won, lead2, won2),
           cast \subseteq cast2, kept \subseteq kept2,
           \A c \in appendCalls : AppendCallOK(c, lead, won, cast, kept),
           NEW c, \E d \in appendCalls : SameAppendCall(c, d, lead, kept2)
    PROVE  AppendCallOK(c, lead2, won2, cast2, kept2)'
<1>1. PICK d \in appendCalls : SameAppendCall(c, d, lead, kept2)
  OBVIOUS
<1>2. QED
  BY <1>1, AppendCallFrame

LEMMA SameCalls ==
    ASSUME NEW lead, NEW won, NEW cast, NEW kept, NEW kept2,
           \A c \in appendCalls : AppendCallOK(c, lead, won, cast, kept)
    PROVE  /\ \A c \in voteCalls : \E d \in voteCalls : SameVoteCall(c, d)
           /\ \A c \in appendCalls : \E d \in appendCalls : SameAppendCall(c, d, lead, kept2)
<1>1. \A c \in voteCalls : SameVoteCall(c, c)
  BY DEF SameVoteCall
<1>2. \A c \in appendCalls : SameAppendCall(c, c, lead, kept2)
  BY DEF SameAppendCall, AppendCallOK
<1>3. QED
  BY <1>1, <1>2

\* A step that touches no log, casts no vote and starts no call, and after
\* which nobody is more than it was.
LEMMA SettledStep ==
    ASSUME NEW whole, NEW lead, NEW won, NEW cast, NEW kept,
           ElectionTypeOK, ElectionTypeOK', LogInv(whole, lead, won, cast, kept),
           [Next]_vars, Subsides,
           UNCHANGED <<log, applied, pending, resolved, submitted, nextIndex, matchIndex>>,
           Ballots' \subseteq Ballots,
           \A c \in voteCalls' : \E d \in voteCalls : SameVoteCall(c, d),
           \A c \in appendCalls' : \E d \in appendCalls : SameAppendCall(c, d, lead, kept)
    PROVE  LogInv(whole, lead, won, cast, kept)'
<1>0. /\ Leaderships(lead, won) /\ Votes(cast) /\ Progress(whole, lead, kept)
      /\ \A c \in voteCalls : VoteCallOK(c, whole, won)
      /\ \A c \in appendCalls : AppendCallOK(c, lead, won, cast, kept)
  BY DEF LogInv
<1>1. TermsRise /\ LeadersStay /\ NoStaleCandidate /\ CallersKept
  BY SubsidesMeans
<1>2. Leaderships(lead, won)' /\ Longer(lead, won, lead, won)
  BY <1>0, LongerSelf DEF Leaderships
<1>3. Votes(cast)'
  <2>1. Ballots' \subseteq cast /\ cast \subseteq Node \X Nat \X Node
    BY <1>0 DEF Votes
  <2>2. QED
    BY <1>0, <2>1, VotesFrame
<1>4. \A c \in voteCalls' : VoteCallOK(c, whole, won)'
  BY <1>0, <1>1, VoteCallsKept
<1>5. \A c \in appendCalls' : AppendCallOK(c, lead, won, cast, kept)'
  <2> SUFFICES ASSUME NEW c \in appendCalls' PROVE AppendCallOK(c, lead, won, cast, kept)'
    OBVIOUS
  <2>1. \E d \in appendCalls : SameAppendCall(c, d, lead, kept)
    OBVIOUS
  <2>2. QED
    BY <1>0, <1>1, <1>2, <2>1, AppendCallsKept
<1>6. Progress(whole, lead, kept)'
  BY <1>0, <1>1, ProgressFrame
<1>7. QED
  BY <1>1, <1>3, <1>4, <1>5, <1>6, CalmStep

-------------------------------------------------------------------------------
(* One lemma per step.                                                       *)

\* How a node can fall back.
LEMMA FallingBack ==
    ASSUME ElectionTypeOK
    PROVE  /\ UNCHANGED <<currentTerm, state>> => Subsides
           /\ \A n \in Node, t \in Nat : t > currentTerm[n] /\ UpdateTerm(n, t) => Subsides
           /\ \A n \in Node, t \in Nat :
                 /\ currentTerm' = [currentTerm EXCEPT ![n] = TermAfter(n, t)]
                 /\ state' = [state EXCEPT ![n] = RoleAfter(n, t)]
                 => Subsides
<1>1. /\ UNCHANGED <<currentTerm, state>> => Subsides
      /\ \A n \in Node, t \in Nat : t > currentTerm[n] /\ UpdateTerm(n, t) => Subsides
  BY DEF ElectionTypeOK, Subsides, UpdateTerm
<1>2. ASSUME NEW n \in Node, NEW t \in Nat,
             currentTerm' = [currentTerm EXCEPT ![n] = TermAfter(n, t)],
             state' = [state EXCEPT ![n] = RoleAfter(n, t)]
      PROVE  Subsides
  BY <1>2 DEF ElectionTypeOK, Subsides, TermAfter, RoleAfter
<1>3. QED
  BY <1>1, <1>2

LEMMA RequestVoteLostLog ==
    ASSUME NEW whole, NEW lead, NEW won, NEW cast, NEW kept,
           ElectionTypeOK, ElectionTypeOK', LogInv(whole, lead, won, cast, kept),
           NEW c \in voteCalls, RequestVoteLost(c)
    PROVE  LogInv(whole, lead, won, cast, kept)'
<1>1. /\ UNCHANGED <<currentTerm, state, log, applied, pending, resolved, submitted,
                     nextIndex, matchIndex, appendCalls, votesReceived>>
      /\ voteCalls' \subseteq voteCalls
  BY DEF RequestVoteLost, leaderVars, clientVars
<1>2. Subsides
  BY <1>1, FallingBack
<1>3. Ballots' \subseteq Ballots
  BY <1>1 DEF Ballots
<1>4. /\ \A d \in voteCalls' : \E e \in voteCalls : SameVoteCall(d, e)
      /\ \A d \in appendCalls' : \E e \in appendCalls : SameAppendCall(d, e, lead, kept)
  BY <1>1, SameCalls DEF LogInv
<1>5. [Next]_vars
  BY DEF Next
<1>6. QED
  BY <1>1, <1>2, <1>3, <1>4, <1>5, SettledStep

LEMMA StopLog ==
    ASSUME NEW whole, NEW lead, NEW won, NEW cast, NEW kept,
           ElectionTypeOK, ElectionTypeOK', LogInv(whole, lead, won, cast, kept),
           NEW n \in Node, Stop(n)
    PROVE  LogInv(whole, lead, won, cast, kept)'
<1>1. UNCHANGED <<currentTerm, state, log, applied, pending, resolved, submitted,
                  nextIndex, matchIndex, appendCalls, voteCalls, votesReceived>>
  BY DEF Stop, electionVars, leaderVars, clientVars
<1>2. Subsides
  BY <1>1, FallingBack
<1>3. Ballots' \subseteq Ballots
  BY <1>1 DEF Ballots
<1>4. /\ \A d \in voteCalls' : \E e \in voteCalls : SameVoteCall(d, e)
      /\ \A d \in appendCalls' : \E e \in appendCalls : SameAppendCall(d, e, lead, kept)
  BY <1>1, SameCalls DEF LogInv
<1>5. [Next]_vars
  BY DEF Next
<1>6. QED
  BY <1>1, <1>2, <1>3, <1>4, <1>5, SettledStep

LEMMA AppendEntriesLostLog ==
    ASSUME NEW whole, NEW lead, NEW won, NEW cast, NEW kept,
           ElectionTypeOK, ElectionTypeOK', LogInv(whole, lead, won, cast, kept),
           NEW c \in appendCalls, AppendEntriesLost(c)
    PROVE  LogInv(whole, lead, won, cast, kept)'
<1>1. /\ UNCHANGED <<currentTerm, state, log, applied, pending, resolved, submitted,
                     nextIndex, matchIndex, voteCalls, votesReceived>>
      /\ appendCalls' \subseteq appendCalls
  BY DEF AppendEntriesLost, electionVars, leaderVars, clientVars
<1>2. Subsides
  BY <1>1, FallingBack
<1>3. Ballots' \subseteq Ballots
  BY <1>1 DEF Ballots
<1>4. /\ \A d \in voteCalls' : \E e \in voteCalls : SameVoteCall(d, e)
      /\ \A d \in appendCalls' : \E e \in appendCalls : SameAppendCall(d, e, lead, kept)
  BY <1>1, SameCalls DEF LogInv
<1>5. [Next]_vars
  BY DEF Next
<1>6. QED
  BY <1>1, <1>2, <1>3, <1>4, <1>5, SettledStep

\* An answer that refuses says nothing about anyone's log.
LEMMA AnsweredCalls ==
    ASSUME NEW lead, NEW won, NEW cast, NEW kept, NEW kept2,
           \A c \in appendCalls : AppendCallOK(c, lead, won, cast, kept),
           NEW c \in appendCalls, c.stage # "answered", IsAppendCall(c),
           NEW t, NEW b \in BOOLEAN, AnswerAppend(c, t, b),
           b => \A i \in 1 .. c.prevLogIndex + Len(c.entries) :
                   Has(lead[c.term], c.term, i) => <<c.to, c.term, i>> \in kept2
    PROVE  \A d \in appendCalls' : \E e \in appendCalls : SameAppendCall(d, e, lead, kept2)
<1> SUFFICES ASSUME NEW d \in appendCalls', d \notin appendCalls
             PROVE  SameAppendCall(d, c, lead, kept2)
  BY SameCalls
<1>1. /\ d = [c EXCEPT !.stage = "answered", !.replyTerm = t, !.success = b]
      /\ c.stage = "sent"
  BY DEF AnswerAppend
<1>2. /\ d.from = c.from /\ d.to = c.to /\ d.term = c.term
      /\ d.prevLogIndex = c.prevLogIndex /\ d.prevLogTerm = c.prevLogTerm
      /\ d.entries = c.entries /\ d.leaderCommit = c.leaderCommit
      /\ d.stage = "answered" /\ d.success = b
  BY <1>1 DEF IsAppendCall
<1>3. QED
  BY <1>1, <1>2 DEF SameAppendCall, Stage

LEMMA AppendEntriesUnreachableLog ==
    ASSUME NEW whole, NEW lead, NEW won, NEW cast, NEW kept,
           ElectionTypeOK, ElectionTypeOK', LogInv(whole, lead, won, cast, kept),
           NEW c \in appendCalls, AppendEntriesUnreachable(c)
    PROVE  LogInv(whole, lead, won, cast, kept)'
<1>1. /\ UNCHANGED <<currentTerm, state, log, applied, pending, resolved, submitted,
                     nextIndex, matchIndex, voteCalls, votesReceived>>
      /\ c.stage # "answered" /\ AnswerAppend(c, 0, FALSE)
  BY DEF AppendEntriesUnreachable, electionVars, leaderVars, clientVars
<1>2. Subsides
  BY <1>1, FallingBack
<1>3. Ballots' \subseteq Ballots
  BY <1>1 DEF Ballots
<1>4. \A d \in voteCalls' : \E e \in voteCalls : SameVoteCall(d, e)
  BY <1>1, SameCalls DEF LogInv
<1>5. \A d \in appendCalls' : \E e \in appendCalls : SameAppendCall(d, e, lead, kept)
  BY <1>1, AnsweredCalls DEF LogInv, ElectionTypeOK
<1>6. [Next]_vars
  BY DEF Next
<1>7. QED
  BY <1>1, <1>2, <1>3, <1>4, <1>5, <1>6, SettledStep

\* The parts of the invariant that every step keeps in the same way, whatever
\* is appended, stored or won.
LEMMA GrowingStep ==
    ASSUME NEW whole, NEW lead, NEW won, NEW cast, NEW kept,
           NEW whole2, NEW lead2, NEW won2, NEW kept2,
           ElectionTypeOK, ElectionTypeOK', LogInv(whole, lead, won, cast, kept),
           [Next]_vars, TermsRise, NoStaleCandidate, CallersKept,
           Leaderships(lead2, won2)', Longer(lead, won, lead2, won2), StoredNow(kept, kept2),
           Ballots' \subseteq Ballots,
           \A m \in Node : state'[m] = "candidate" /\ currentTerm'[m] \notin won2 =>
              whole2[m] = whole[m],
           \A c \in voteCalls' : \E d \in voteCalls : SameVoteCall(c, d),
           \A c \in appendCalls' : \E d \in appendCalls : SameAppendCall(c, d, lead, kept2)
    PROVE  /\ Votes(cast)'
           /\ Candidates(whole2, lead2, won2, cast, kept2)'
           /\ \A s \in won : WinnerOK(s, lead2, won2, cast, kept2)'
           /\ \A c \in voteCalls' : VoteCallOK(c, whole2, won2)'
           /\ \A c \in appendCalls' : AppendCallOK(c, lead2, won2, cast, kept2)'
           /\ \A r \in resolved : ResolvedOK(r, lead2, kept2)
<1>0. /\ Leaderships(lead, won) /\ Votes(cast)
      /\ Stores(whole, lead, won, kept)
      /\ Candidates(whole, lead, won, cast, kept) /\ Winners(lead, won, cast, kept)
      /\ \A c \in voteCalls : VoteCallOK(c, whole, won)
      /\ \A c \in appendCalls : AppendCallOK(c, lead, won, cast, kept)
      /\ \A r \in resolved : ResolvedOK(r, lead, kept)
  BY DEF LogInv
<1>1. won \subseteq won2 /\ kept \subseteq kept2
  BY DEF Longer, StoredNow
<1>2. Votes(cast)'
  <2>1. Ballots' \subseteq cast /\ cast \subseteq Node \X Nat \X Node
    BY <1>0 DEF Votes
  <2>2. QED
    BY <1>0, <2>1, VotesFrame
<1>3. Candidates(whole2, lead2, won2, cast, kept2)'
  BY <1>0, CandidatesFrame
<1>4. ASSUME NEW s \in won PROVE WinnerOK(s, lead2, won2, cast, kept2)'
  <2>1. WinnerOK(s, lead, won, cast, kept)
    BY <1>0 DEF Winners
  <2>2. QED
    BY <1>0, <2>1, WinnerFrame
<1>5. \A c \in voteCalls' : VoteCallOK(c, whole2, won2)'
  BY <1>0, <1>1, VoteCallsKept
<1>6. \A c \in appendCalls' : AppendCallOK(c, lead2, won2, cast, kept2)'
  <2> SUFFICES ASSUME NEW c \in appendCalls' PROVE AppendCallOK(c, lead2, won2, cast, kept2)'
    OBVIOUS
  <2>1. \E d \in appendCalls : SameAppendCall(c, d, lead, kept2)
    OBVIOUS
  <2>2. QED
    BY <1>0, <1>1, <2>1, AppendCallsKept
<1>7. \A r \in resolved : ResolvedOK(r, lead2, kept2)
  <2> SUFFICES ASSUME NEW r \in resolved PROVE ResolvedOK(r, lead2, kept2)
    OBVIOUS
  <2>1. ResolvedOK(r, lead, kept)
    BY <1>0
  <2>2. QED
    BY <1>1, <2>1, ResolvedFrame
<1>8. QED
  BY <1>2, <1>3, <1>4, <1>5, <1>6, <1>7

\* A node that is still candidate in a term has no leader against it there:
\* the majority that elected one would share a voter with ...
LEMMA NoLeaderYet ==
    ASSUME NEW lead, NEW won, NEW cast, NEW kept,
           Votes(cast), Winners(lead, won, cast, kept),
           NEW n \in Node, NEW s \in Nat, NEW Q \in SUBSET Voters(cast, n, s), IsMajority(Q),
           state[n] = "candidate", currentTerm[n] = s
    PROVE  s \notin won
<1> SUFFICES ASSUME s \in won PROVE FALSE
  OBVIOUS
<1>1. PICK m \in Node : \E R \in SUBSET Voters(cast, m, s) :
        IsMajority(R) /\ ~(state[m] = "candidate" /\ currentTerm[m] = s)
  BY DEF Winners, WinnerOK
<1>2. PICK R \in SUBSET Voters(cast, m, s) :
        IsMajority(R) /\ ~(state[m] = "candidate" /\ currentTerm[m] = s)
  BY <1>1
<1>3. Q \in SUBSET Node /\ R \in SUBSET Node
  BY DEF Voters
<1>4. PICK v : v \in Q /\ v \in R
  BY <1>2, <1>3, MajoritiesIntersect
<1>5. <<n, s, v>> \in cast /\ <<m, s, v>> \in cast
  BY <1>4 DEF Voters
<1>6. n = m
  BY <1>5 DEF Votes
<1>7. QED
  BY <1>2, <1>6

\* A new leader's log becomes the log of its term.
LEMMA NewReign ==
    ASSUME NEW lead, NEW won, Leaderships(lead, won),
           NEW s \in Nat, s \notin won, NEW l \in Seq(LogEntry), FromLeaders(lead, won, l, s),
           submitted' = submitted
    PROVE  /\ Leaderships([lead EXCEPT ![s] = l], won \cup {s})'
           /\ Longer(lead, won, [lead EXCEPT ![s] = l], won \cup {s})
<1> DEFINE lead2 == [lead EXCEPT ![s] = l]
           won2 == won \cup {s}
<1>1. /\ lead2 \in [Nat -> Seq(LogEntry)] /\ won2 \subseteq Nat
      /\ lead2[s] = l /\ \A t \in Nat : t # s => lead2[t] = lead[t]
      /\ won \subseteq Nat
      /\ \A t \in won : t \in won2 /\ lead2[t] = lead[t]
  BY DEF Leaderships
<1> HIDE DEF lead2
<1>2. \A a, t : FromLeaders(lead, won, a, t) => FromLeaders(lead2, won2, a, t)
  BY <1>1 DEF FromLeaders
<1>3. \A t \in won2 : FromLeaders(lead2, won2, lead2[t], t)
  BY <1>1, <1>2 DEF Leaderships
<1>4. ASSUME NEW t \in won2, NEW i \in 1 .. Len(lead2[t])
      PROVE  \E u \in won : i \in 1 .. Len(lead[u]) /\ lead[u][i] = lead2[t][i]
  <2>1. CASE t \in won
    BY <1>1, <2>1
  <2>2. CASE t = s
    <3>1. l[i].term \in won /\ Agree(l, lead[l[i].term], i) /\ i \in Nat /\ i >= 1
      BY <1>1, <2>2 DEF FromLeaders
    <3>2. PICK u \in won : u = l[i].term
      BY <3>1
    <3>3. lead[u] \in Seq(LogEntry)
      BY DEF Leaderships
    <3>4. Len(lead[u]) \in Nat
      BY <3>3, LenProperties
    <3>5. i <= Len(lead[u]) /\ l[i] = lead[u][i]
      BY <3>1, <3>2 DEF Agree
    <3>6. lead2[t][i] = l[i] /\ i \in 1 .. Len(lead[u])
      BY <1>1, <2>2, <3>1, <3>4, <3>5
    <3>7. QED
      BY <3>5, <3>6
  <2>3. QED
    BY <2>1, <2>2
<1>5. \A t \in won2 : \A i \in 1 .. Len(lead2[t]) :
         /\ lead2[t][i].command \in submitted
         /\ \A u \in won2 : \A j \in 1 .. Len(lead2[u]) :
               lead2[t][i].command = lead2[u][j].command => i = j
  <2>1. ASSUME NEW t \in won2, NEW i \in 1 .. Len(lead2[t]),
               NEW u \in won2, NEW j \in 1 .. Len(lead2[u])
        PROVE  /\ lead2[t][i].command \in submitted
               /\ lead2[t][i].command = lead2[u][j].command => i = j
    <3>1. PICK a \in won : i \in 1 .. Len(lead[a]) /\ lead[a][i] = lead2[t][i]
      BY <1>4
    <3>2. PICK b \in won : j \in 1 .. Len(lead[b]) /\ lead[b][j] = lead2[u][j]
      BY <1>4
    <3>3. QED
      BY <3>1, <3>2 DEF Leaderships
  <2>2. QED
    BY <2>1
<1>6. \A t \in Nat : t \notin won2 => lead2[t] = <<>>
  BY <1>1 DEF Leaderships
<1>7. Leaderships(lead2, won2)'
  BY <1>1, <1>3, <1>5, <1>6 DEF Leaderships
<1>8. Longer(lead, won, lead2, won2)
  <2>1. ASSUME NEW t \in won
        PROVE  /\ Agree(lead[t], lead2[t], Len(lead[t]))
               /\ \A i \in Len(lead[t]) + 1 .. Len(lead2[t]) : lead2[t][i].term = t
    <3>1. lead2[t] = lead[t] /\ Len(lead[t]) \in Nat
      BY <1>1 DEF Leaderships
    <3>2. QED
      BY <3>1 DEF Agree
  <2>2. QED
    BY <2>1 DEF Longer
<1>9. QED
  BY <1>7, <1>8 DEF lead2

\* _become_leader: the candidate's log becomes the log of its term, which had
\* no leader, and what its voters had stored is in it.
LEMMA BecomeLeaderLog ==
    ASSUME NEW whole, NEW lead, NEW won, NEW cast, NEW kept,
           ElectionTypeOK, ElectionTypeOK', LogInv(whole, lead, won, cast, kept),
           [Next]_vars,
           NEW n \in Node, NEW s \in Nat, NEW Q \in SUBSET Voters(cast, n, s), IsMajority(Q),
           state[n] = "candidate", currentTerm[n] = s,
           BecomeLeader(n), Ballots' \subseteq Ballots, voteCalls' \subseteq voteCalls,
           UNCHANGED <<currentTerm, log, applied, pending, resolved, submitted, appendCalls>>
    PROVE  LogInv(whole, [lead EXCEPT ![s] = whole[n]], won \cup {s}, cast, kept)'
<1> DEFINE lead2 == [lead EXCEPT ![s] = whole[n]]
           won2 == won \cup {s}
<1>0. /\ Leaderships(lead, won) /\ Logs(whole, lead, won) /\ Votes(cast)
      /\ Reigns(whole, lead, won, cast) /\ Stores(whole, lead, won, kept)
      /\ Progress(whole, lead, kept)
      /\ Candidates(whole, lead, won, cast, kept) /\ Winners(lead, won, cast, kept)
      /\ \A c \in appendCalls : AppendCallOK(c, lead, won, cast, kept)
      /\ \A m \in Node : CommitOK(m, whole, lead, kept)
      /\ pending \subseteq Node \X (Nat \ {0}) \X Command
  BY DEF LogInv
<1>1. s \notin won
  BY <1>0, NoLeaderYet
<1>2. whole[n] \in Seq(LogEntry) /\ FromLeaders(lead, won, whole[n], s)
  BY <1>0 DEF Logs
<1>3. Leaderships(lead2, won2)' /\ Longer(lead, won, lead2, won2)
  BY <1>0, <1>1, <1>2, NewReign
<1>4. /\ state' = [state EXCEPT ![n] = "leader"]
      /\ state'[n] = "leader" /\ \A m \in Node : m # n => state'[m] = state[m]
  BY DEF BecomeLeader, ElectionTypeOK
<1>5. /\ TermsRise /\ NoStaleCandidate /\ CallersKept
  <2>1. \A c \in appendCalls : c.from \in Node
    BY DEF ElectionTypeOK, IsAppendCall
  <2>2. QED
    BY <1>4, <2>1 DEF TermsRise, NoStaleCandidate, CallersKept, ElectionTypeOK
<1>6. lead2[s] = whole[n] /\ \A t \in won : lead2[t] = lead[t]
  BY <1>0, <1>1 DEF Leaderships
<1>7. StoredNow(kept, kept)
  BY DEF StoredNow
<1> HIDE DEF lead2
<1>8. /\ \A c \in voteCalls' : \E d \in voteCalls : SameVoteCall(c, d)
      /\ \A c \in appendCalls' : \E d \in appendCalls : SameAppendCall(c, d, lead, kept)
  BY <1>0, SameCalls
<1>9. /\ Votes(cast)'
      /\ Candidates(whole, lead2, won2, cast, kept)'
      /\ \A t \in won : WinnerOK(t, lead2, won2, cast, kept)'
      /\ \A c \in voteCalls' : VoteCallOK(c, whole, won2)'
      /\ \A c \in appendCalls' : AppendCallOK(c, lead2, won2, cast, kept)'
      /\ \A r \in resolved : ResolvedOK(r, lead2, kept)
  BY <1>3, <1>5, <1>7, <1>8, GrowingStep
<1>10. Logs(whole, lead2, won2)'
  BY <1>0, <1>3, <1>5, LogsFrame
<1>11. \A v \in Q : v \in Node /\ <<n, s, v>> \in cast
  BY DEF Voters
<1>12. IsMajority(Voters(cast, n, s))
  <2>1. Q \in SUBSET Node /\ Voters(cast, n, s) \in SUBSET Node /\ Q \subseteq Voters(cast, n, s)
    BY DEF Voters
  <2>2. QED
    BY <2>1, MajorityGrows
<1>13. Reigns(whole, lead2, won2, cast)'
  <2> SUFFICES ASSUME NEW m \in Node, state'[m] = "leader"
               PROVE  /\ currentTerm[m] \in won2
                      /\ whole[m] = lead2[currentTerm[m]]
                      /\ IsMajority(Voters(cast, m, currentTerm[m]))
    BY DEF Reigns, IsMajority, Voters
  <2>1. CASE m = n
    BY <2>1, <1>6, <1>12
  <2>2. CASE m # n
    BY <2>2, <1>0, <1>4, <1>6 DEF Reigns
  <2>3. QED
    BY <2>1, <2>2
<1>14. Progress(whole, lead2, kept)'
  <2>1. Len(whole[n]) \in Nat /\ LogLen(log[n]) = Len(whole[n])
    BY <1>0, HeldEntries
  <2>2. /\ nextIndex' = [nextIndex EXCEPT ![n] = [p \in Node |-> Len(whole[n]) + 1]]
        /\ matchIndex' = [matchIndex EXCEPT ![n] = [p \in Node |-> 0]]
    BY <2>1 DEF BecomeLeader
  <2>3. nextIndex' \in [Node -> [Node -> Nat]] /\ matchIndex' \in [Node -> [Node -> Nat]]
    BY <1>0, <2>1, <2>2 DEF Progress
  <2>4. ASSUME NEW m \in Node, state'[m] = "leader", NEW p \in Node
        PROVE  /\ nextIndex'[m][p] \in 1 .. Len(whole[m]) + 1
               /\ matchIndex'[m][p] <= Len(whole[m])
               /\ \A i \in 1 .. (IF p = m THEN Len(whole[m]) ELSE matchIndex'[m][p]) :
                     Has(lead2[currentTerm[m]], currentTerm[m], i) =>
                         <<p, currentTerm[m], i>> \in kept
    <3>1. CASE m = n
      <4>1. /\ nextIndex'[m][p] = Len(whole[m]) + 1
            /\ matchIndex'[m][p] = 0
        BY <3>1, <1>0, <2>2 DEF Progress
      <4>2. \A i : ~Has(lead2[s], s, i)
        BY <1>1, <1>2, <1>6 DEF Has, FromLeaders
      <4>3. QED
        BY <3>1, <4>1, <4>2, <2>1
    <3>2. CASE m # n
      <4>1. state[m] = "leader" /\ lead2[currentTerm[m]] = lead[currentTerm[m]]
            /\ nextIndex'[m] = nextIndex[m] /\ matchIndex'[m] = matchIndex[m]
        BY <3>2, <2>4, <1>0, <1>4, <1>6, <2>2 DEF Reigns, Progress
      <4>2. QED
        BY <4>1, <1>0 DEF Progress
    <3>3. QED
      BY <3>1, <3>2
  <2>5. QED
    BY <2>3, <2>4 DEF Progress
<1>15. Stores(whole, lead2, won2, kept)'
  BY <1>0, <1>3, <1>5, StoresFrame
<1>16. WinnerOK(s, lead2, won2, cast, kept)'
  <2>1. ASSUME NEW k \in kept, k[1] \in Q, k[2] < s
        PROVE  Has(lead2[s], k[2], k[3]) \/ Displaced(lead2, won2, k[2], k[3], s)
    <3> DEFINE b == <<n, s, k[1]>>
    <3>1. b \in cast /\ state[b[1]] = "candidate" /\ currentTerm[b[1]] = b[2] /\ b[2] \notin won
          /\ b[1] = n /\ b[2] = s /\ b[3] = k[1]
      BY <1>1, <1>11, <2>1
    <3> HIDE DEF b
    <3>2. Has(whole[n], k[2], k[3]) \/ Displaced(lead, won, k[2], k[3], s)
      BY <3>1, <1>0, <2>1 DEF Candidates
    <3>3. k[2] \in Nat /\ k[3] \in Nat
      BY <1>0 DEF Stores
    <3>4. Displaced(lead, won, k[2], k[3], s) => Displaced(lead2, won2, k[2], k[3], s)
      BY <3>3, <1>0, <1>3, LongerKeeps
    <3>5. QED
      BY <3>2, <3>4, <1>6
  <2>2. s <= currentTerm'[n] /\ state'[n] # "candidate"
    BY <1>4
  <2>3. QED
    BY <2>1, <2>2 DEF WinnerOK, IsMajority, Voters
<1>17. Winners(lead2, won2, cast, kept)'
  BY <1>9, <1>16 DEF Winners
<1>18. ASSUME NEW m \in Node PROVE CommitOK(m, whole, lead2, kept)'
  <2>1. /\ CommitIndex(m)' = CommitIndex(m) /\ CommitIndex(m) \in Nat
        /\ CommitIndex(m) <= Len(whole[m])
    BY <1>0, HeldEntries DEF CommitIndex
  <2>2. Agree(whole[m], whole[m], CommitIndex(m))
    BY <2>1 DEF Agree
  <2>3. currentTerm[m] <= currentTerm'[m] /\ CommitOK(m, whole, lead, kept)
    BY <1>0, <1>5 DEF TermsRise
  <2>4. CommitIndex(m)' \in Nat /\ CommitIndex(m)' <= CommitIndex(m)
    BY <2>1
  <2>5. QED
    BY <1>3, <2>2, <2>3, <2>4, CommitFrame
<1>19. QED
  <2>1. LogInv(whole, lead2, won2, cast, kept)'
    BY <1>0, <1>3, <1>9, <1>10, <1>13, <1>14, <1>15, <1>17, <1>18
       DEF LogInv, ResolvedOK, Chosen, Keepers, IsMajority
  <2>2. QED
    BY <2>1 DEF lead2

\* The values exist.
LogHistory == \E whole, lead, won, cast, kept : LogInv(whole, lead, won, cast, kept)

\* _request_vote_worker with a reply in hand.
LEMMA RequestVoteReplyLog ==
    ASSUME Timely, NEW whole, NEW lead, NEW won, NEW cast, NEW kept,
           ElectionInv, ElectionTypeOK', LogInv(whole, lead, won, cast, kept),
           NEW c \in voteCalls, RequestVoteReply(c)
    PROVE  LogHistory'
<1> DEFINE n == c.from
           s == c.term
<1>1. /\ IsVoteCall(c) /\ n \in Node /\ s \in Nat /\ c.to \in Node /\ c.stage = "answered"
      /\ c.replyTerm \in Nat /\ ElectionTypeOK
  BY DEF RequestVoteReply, ElectionInv, ElectionTypeOK, IsVoteCall
<1>2. /\ UNCHANGED <<log, applied, pending, resolved, submitted, appendCalls>>
      /\ voteCalls' \subseteq voteCalls
  BY DEF RequestVoteReply, clientVars
<1>3. Ballots' \subseteq Ballots
  BY <1>1, <1>2 DEF RequestVoteReply, Ballots
<1>4. [Next]_vars
  BY DEF Next
<1>5. /\ \A d \in voteCalls' : \E e \in voteCalls : SameVoteCall(d, e)
      /\ \A d \in appendCalls' : \E e \in appendCalls : SameAppendCall(d, e, lead, kept)
  BY <1>2, SameCalls DEF LogInv
<1>6. CASE Subsides /\ UNCHANGED leaderVars
  <2>1. LogInv(whole, lead, won, cast, kept)'
    BY <1>1, <1>2, <1>3, <1>4, <1>5, <1>6, SettledStep DEF leaderVars
  <2>2. QED
    BY <2>1 DEF LogHistory
<1>7. CASE /\ state[n] = "candidate" /\ c.granted
           /\ IsMajority(VotesOf(n, s) \cup {c.to})
           /\ BecomeLeader(n)
           /\ UNCHANGED currentTerm
  <2> DEFINE Q == VotesOf(n, s) \cup {c.to}
  <2>1. currentTerm[n] = s
    BY <1>1, <1>7 DEF ElectionInv, CallsAreCurrent
  <2>2. Q \in SUBSET Voters(cast, n, s)
    <3>1. Ballots \subseteq cast
      BY DEF LogInv, Votes
    <3>2. \A v \in Q : v \in Node /\ <<n, s, v>> \in Ballots
      BY <1>1, <1>7 DEF VotesOf, Ballots
    <3>3. QED
      BY <3>1, <3>2 DEF Voters
  <2> HIDE DEF Q
  <2>3. IsMajority(Q)
    BY <1>7 DEF Q
  <2>4. LogInv(whole, [lead EXCEPT ![s] = whole[n]], won \cup {s}, cast, kept)'
    <3> HIDE DEF n, s
    <3>1. QED
      BY <1>1, <1>2, <1>3, <1>4, <1>7, <2>1, <2>2, <2>3, BecomeLeaderLog
  <2>5. QED
    BY <2>4 DEF LogHistory
<1>8. QED
  <2>1. CASE UNCHANGED <<currentTerm, state, leaderVars>>
    <3>1. UNCHANGED <<currentTerm, state>>
      BY <2>1
    <3>2. Subsides
      BY <1>1, <3>1, FallingBack
    <3>3. QED
      BY <1>6, <2>1, <3>2
  <2>2. CASE c.replyTerm > currentTerm[n] /\ UpdateTerm(n, c.replyTerm) /\ UNCHANGED leaderVars
    <3>1. Subsides
      BY <1>1, <2>2, FallingBack
    <3>2. QED
      BY <1>6, <2>2, <3>1
  <2>3. QED
    BY <1>7, <2>1, <2>2 DEF RequestVoteReply

\* The check of handle_request_vote on the candidate's last entry: what the
\* voter holds the candidate holds too, or a leader in between did not.
LEMMA FresherHas ==
    ASSUME NEW lead, NEW won, Leaderships(lead, won),
           NEW v \in Seq(LogEntry), NEW w \in Seq(LogEntry), NEW r \in Nat, NEW s \in Nat,
           FromLeaders(lead, won, v, r), FromLeaders(lead, won, w, s), s \notin won,
           AtLeastAsFresh(IF w = <<>> THEN 0 ELSE w[Len(w)].term, Len(w),
                          IF v = <<>> THEN 0 ELSE v[Len(v)].term, Len(v)),
           NEW t \in Nat, NEW i \in Nat, Has(v, t, i)
    PROVE  Has(w, t, i) \/ Displaced(lead, won, t, i, s)
<1>1. /\ Len(v) \in Nat /\ Len(w) \in Nat /\ won \subseteq Nat
      /\ i >= 1 /\ i <= Len(v) /\ v[i].term = t
      /\ \A u \in Nat : Len(lead[u]) \in Nat
  <2>1. won \subseteq Nat /\ \A u \in Nat : lead[u] \in Seq(LogEntry)
    BY DEF Leaderships
  <2>2. \A u \in Nat : Len(lead[u]) \in Nat
    BY <2>1, LenProperties
  <2>3. Len(v) \in Nat /\ Len(w) \in Nat
    BY LenProperties
  <2>4. QED
    BY <2>1, <2>2, <2>3 DEF Has
<1>2. v # <<>> /\ Len(v) \in 1 .. Len(v)
  BY <1>1
<1>3. PICK e \in Nat : e = v[Len(v)].term /\ e \in won /\ Agree(v, lead[e], Len(v))
  BY <1>1, <1>2 DEF FromLeaders
<1>4. Has(lead[e], t, i)
  BY <1>1, <1>3 DEF Has, Agree
<1>5. t <= e /\ Agree(lead[e], lead[t], i)
  BY <1>3, <1>4, HasAgrees
<1>6. w # <<>>
  <2> SUFFICES ASSUME w = <<>> PROVE FALSE
    OBVIOUS
  <2>1. Len(w) = 0
    OBVIOUS
  <2>2. AtLeastAsFresh(0, 0, e, Len(v))
    BY <1>2, <1>3, <2>1
  <2>3. QED
    BY <1>1, <2>2 DEF AtLeastAsFresh
<1>7. PICK f \in Nat : f = w[Len(w)].term /\ f \in won /\ f <= s /\ Agree(w, lead[f], Len(w))
  <2>1. Len(w) \in 1 .. Len(w)
    BY <1>1, <1>6, EmptySeq
  <2>2. QED
    BY <1>1, <2>1 DEF FromLeaders
<1>8. f > e \/ (f = e /\ Len(w) >= Len(v))
  BY <1>2, <1>3, <1>6, <1>7 DEF AtLeastAsFresh
<1>9. CASE f = e /\ Len(w) >= Len(v)
  BY <1>9, <1>1, <1>3, <1>7 DEF Has, Agree
<1>10. CASE f > e
  <2>1. t < f /\ f < s
    BY <1>5, <1>7, <1>10
  <2>2. CASE ~Has(lead[f], t, i)
    BY <2>1, <2>2, <1>7 DEF Displaced
  <2>3. CASE Has(lead[f], t, i) /\ i <= Len(w)
    BY <2>3, <1>1, <1>7 DEF Has, Agree
  <2>4. CASE Has(lead[f], t, i) /\ i > Len(w)
    <3>1. t \in won /\ Agree(lead[f], lead[t], i) /\ FromLeaders(lead, won, lead[t], t)
      BY <2>4, HasAgrees DEF Leaderships
    <3>2. Len(w) \in 1 .. i
      BY <2>4, <1>1, <1>6, EmptySeq
    <3>3. lead[t][Len(w)].term = f /\ Len(w) \in 1 .. Len(lead[t])
      BY <3>1, <3>2, <1>1, <1>7 DEF Agree
    <3>4. f <= t
      BY <3>1, <3>3 DEF FromLeaders
    <3>5. QED
      BY <2>1, <3>4
  <2>5. QED
    BY <2>2, <2>3, <2>4, <1>1
<1>11. QED
  BY <1>8, <1>9, <1>10

\* handle_request_vote: a vote for a candidate of a term without a leader goes
\* to a log that has what the voter stored.
LEMMA HandleRequestVoteLog ==
    ASSUME NEW whole, NEW lead, NEW won, NEW cast, NEW kept,
           ElectionTypeOK, ElectionTypeOK', LogInv(whole, lead, won, cast, kept),
           NEW c \in voteCalls, HandleRequestVote(c)
    PROVE  LogHistory'
<1> DEFINE n == c.to
           grant == /\ ~(c.term < currentTerm[n])
                    /\ CanVote(n, c.term, c.from)
                    /\ AtLeastAsFresh(c.lastLogTerm, c.lastLogIndex,
                                      LastTerm(log[n]), LogLen(log[n]))
           d == [c EXCEPT !.stage = "answered", !.granted = grant,
                          !.replyTerm = TermAfter(n, c.term)]
<1>0. /\ Leaderships(lead, won) /\ Logs(whole, lead, won) /\ Votes(cast)
      /\ Progress(whole, lead, kept) /\ Stores(whole, lead, won, kept)
      /\ \A e \in voteCalls : VoteCallOK(e, whole, won)
      /\ \A e \in appendCalls : AppendCallOK(e, lead, won, cast, kept)
  BY DEF LogInv
<1>1. IsVoteCall(c) /\ n \in Node /\ c.from \in Node /\ c.term \in Nat
  BY DEF ElectionTypeOK, IsVoteCall
<1>2. /\ currentTerm' = [currentTerm EXCEPT ![n] = TermAfter(n, c.term)]
      /\ state' = [state EXCEPT ![n] = RoleAfter(n, c.term)]
      /\ votedFor' = [votedFor EXCEPT ![n] = IF grant THEN c.from ELSE VoteAfter(n, c.term)]
      /\ voteCalls' \subseteq (voteCalls \ {c}) \cup {d}
      /\ c.stage # "answered"
      /\ UNCHANGED <<log, applied, pending, resolved, submitted, nextIndex, matchIndex,
                     appendCalls, votesReceived>>
  BY DEF HandleRequestVote, leaderVars, clientVars
<1>3. grant \in BOOLEAN
  BY DEF CanVote, AtLeastAsFresh
<1>4. /\ d.from = c.from /\ d.to = n /\ d.term = c.term /\ d.granted = grant
      /\ d.lastLogIndex = c.lastLogIndex /\ d.lastLogTerm = c.lastLogTerm
  <2> HIDE DEF grant
  <2>1. QED
    BY <1>1, <1>3 DEF IsVoteCall
<1>5. /\ grant => /\ ~(c.term < currentTerm[n])
                  /\ AtLeastAsFresh(c.lastLogTerm, c.lastLogIndex,
                                    LastTerm(log[n]), LogLen(log[n]))
  OBVIOUS
<1> HIDE DEF d, grant
<1>6. Subsides
  BY <1>1, <1>2, FallingBack
<1>7. TermsRise /\ LeadersStay /\ NoStaleCandidate /\ CallersKept
  BY <1>6, SubsidesMeans
<1>8. [Next]_vars
  BY DEF Next
<1>9. PICK cast2 : cast2 = cast \cup (IF grant THEN {<<c.from, c.term, n>>} ELSE {})
  OBVIOUS
<1>10. Ballots' \subseteq cast2
  <2>1. Ballots' \subseteq Ballots \cup (IF grant THEN {<<c.from, c.term, n>>} ELSE {})
    BY <1>2, <1>4 DEF Ballots
  <2>2. QED
    BY <2>1, <1>0, <1>9 DEF Votes
<1>11. cast \subseteq cast2 /\ \A b \in cast2 \ cast : grant /\ b = <<c.from, c.term, n>>
  BY <1>9
<1>12. cast2 \subseteq Node \X Nat \X Node
  BY <1>0, <1>1, <1>9 DEF Votes
<1>13. c.term <= currentTerm[c.from]
  BY <1>0 DEF VoteCallOK
<1>14. grant => currentTerm'[n] = c.term /\ votedFor'[n] = c.from
  BY <1>1, <1>2, <1>5 DEF ElectionTypeOK, TermAfter
<1>15. Votes(cast2)'
  <2>1. c.term <= currentTerm'[c.from]
    BY <1>1, <1>7, <1>13 DEF TermsRise, ElectionTypeOK
  <2>2. \A b \in cast2 \ cast :
           /\ b[2] <= currentTerm'[b[1]]
           /\ b[2] = currentTerm'[b[3]] /\ votedFor'[b[3]] = b[1]
    BY <1>11, <1>14, <2>1
  <2>3. QED
    BY <1>0, <1>8, <1>10, <1>11, <1>12, <2>2, VotesFrame
<1>16. ASSUME grant, state'[c.from] = "candidate", currentTerm'[c.from] = c.term, c.term \notin won,
              NEW k \in kept, k[1] = n, k[2] < c.term
       PROVE  Has(whole[c.from], k[2], k[3]) \/ Displaced(lead, won, k[2], k[3], c.term)
  <2>1. state[c.from] = "candidate" /\ currentTerm[c.from] = c.term
    BY <1>1, <1>7, <1>13, <1>16 DEF NoStaleCandidate
  <2>2. /\ c.lastLogIndex = Len(whole[c.from])
        /\ c.lastLogTerm = IF whole[c.from] = <<>> THEN 0
                           ELSE whole[c.from][Len(whole[c.from])].term
    BY <1>0, <1>2, <1>16, <2>1 DEF VoteCallOK
  <2>3. /\ LogLen(log[n]) = Len(whole[n])
        /\ LastTerm(log[n]) = IF whole[n] = <<>> THEN 0 ELSE whole[n][Len(whole[n])].term
    BY <1>0, <1>1, ViewReads DEF Logs
  <2>4. k[2] \in Nat /\ k[3] \in Nat
    BY <1>0 DEF Stores
  <2>5. currentTerm[n] \in Nat /\ currentTerm[n] <= c.term
    BY <1>1, <1>5, <1>16 DEF ElectionTypeOK
  <2>6. CASE Has(whole[n], k[2], k[3])
    <3>1. AtLeastAsFresh(IF whole[c.from] = <<>> THEN 0 ELSE whole[c.from][Len(whole[c.from])].term,
                         Len(whole[c.from]),
                         IF whole[n] = <<>> THEN 0 ELSE whole[n][Len(whole[n])].term,
                         Len(whole[n]))
      BY <1>5, <1>16, <2>2, <2>3
    <3>2. /\ whole[n] \in Seq(LogEntry) /\ FromLeaders(lead, won, whole[n], currentTerm[n])
          /\ whole[c.from] \in Seq(LogEntry) /\ FromLeaders(lead, won, whole[c.from], c.term)
      BY <1>0, <1>1, <2>1 DEF Logs
    <3>3. QED
      BY <1>0, <1>1, <1>16, <2>4, <2>5, <2>6, <3>1, <3>2, FresherHas
  <2>7. CASE Displaced(lead, won, k[2], k[3], currentTerm[n] + 1)
    <3>1. PICK u \in won : k[2] < u /\ u < currentTerm[n] + 1 /\ ~Has(lead[u], k[2], k[3])
      BY <2>7 DEF Displaced
    <3>2. u \in Nat /\ u # c.term
      BY <1>0, <1>16 DEF Leaderships
    <3>3. u < c.term
      BY <1>1, <2>5, <3>1, <3>2
    <3>4. QED
      BY <3>1, <3>3 DEF Displaced
  <2>8. QED
    BY <1>0, <1>16, <2>6, <2>7 DEF Stores
<1>17. \A b \in cast2 \ cast :
         state'[b[1]] = "candidate" /\ currentTerm'[b[1]] = b[2] /\ b[2] \notin won =>
            \A k \in kept : k[1] = b[3] /\ k[2] < b[2] =>
               Has(whole[b[1]], k[2], k[3]) \/ Displaced(lead, won, k[2], k[3], b[2])
  BY <1>11, <1>16
<1>18. Leaderships(lead, won)' /\ Longer(lead, won, lead, won)
  BY <1>0, <1>2, LongerSelf DEF Leaderships
<1>19. \A e \in voteCalls' : VoteCallOK(e, whole, won)'
  <2>1. SameVoteCall(d, c)
    BY <1>2, <1>4 DEF SameVoteCall
  <2>2. \A e \in voteCalls' : \E f \in voteCalls : SameVoteCall(e, f)
    BY <1>0, <1>2, <2>1, SameCalls
  <2>3. QED
    BY <1>0, <1>7, <2>2, VoteCallsKept
<1>20. \A e \in appendCalls' : AppendCallOK(e, lead, won, cast2, kept)'
  <2> SUFFICES ASSUME NEW e \in appendCalls' PROVE AppendCallOK(e, lead, won, cast2, kept)'
    OBVIOUS
  <2>1. \E f \in appendCalls : SameAppendCall(e, f, lead, kept)
    BY <1>0, <1>2, SameCalls
  <2>2. QED
    BY <1>0, <1>7, <1>11, <1>18, <2>1, AppendCallsKept
<1>21. Progress(whole, lead, kept)'
  BY <1>0, <1>2, <1>7, ProgressFrame
<1>22. LogInv(whole, lead, won, cast2, kept)'
  BY <1>2, <1>7, <1>11, <1>15, <1>17, <1>19, <1>20, <1>21, CalmStep
<1>23. QED
  BY <1>22 DEF LogHistory

\* _start_election: a node's vote for itself is for a log that has what the
\* node stored, and the calls it sends describe that log.
LEMMA ElectionTimeoutLog ==
    ASSUME Timely, NEW whole, NEW lead, NEW won, NEW cast, NEW kept,
           ElectionTypeOK, ElectionTypeOK', LogInv(whole, lead, won, cast, kept),
           NEW n \in Node, ElectionTimeout(n)
    PROVE  LogHistory'
<1>0. /\ Leaderships(lead, won) /\ Logs(whole, lead, won) /\ Votes(cast)
      /\ Progress(whole, lead, kept) /\ Stores(whole, lead, won, kept)
      /\ \A e \in voteCalls : VoteCallOK(e, whole, won)
      /\ \A e \in appendCalls : AppendCallOK(e, lead, won, cast, kept)
  BY DEF LogInv
<1>1. PICK t \in Nat : t = currentTerm[n] + 1
  BY DEF ElectionTypeOK
<1>2. PICK reached \in SUBSET Peers(n) :
         voteCalls' = voteCalls \cup
            {[from |-> n, to |-> p, term |-> t,
              lastLogIndex |-> LogLen(log[n]), lastLogTerm |-> LastTerm(log[n]),
              granted |-> FALSE, replyTerm |-> 0, stage |-> "sent"] : p \in reached}
  BY <1>1 DEF ElectionTimeout
<1>3. /\ currentTerm' = [currentTerm EXCEPT ![n] = t]
      /\ state' = [state EXCEPT ![n] = "candidate"]
      /\ votedFor' = [votedFor EXCEPT ![n] = n]
      /\ votesReceived' \subseteq votesReceived \cup {<<n, t, n>>}
      /\ UNCHANGED <<log, applied, pending, resolved, submitted, nextIndex, matchIndex,
                     appendCalls>>
      /\ state[n] # "leader"
  BY <1>1 DEF ElectionTimeout, leaderVars, clientVars
<1>4. \A e \in appendCalls : e.stage # "orphaned" => e.from # n
  BY DEF ElectionTimeout, CallsFrom
<1>5. /\ currentTerm'[n] = t /\ state'[n] = "candidate" /\ votedFor'[n] = n
      /\ \A m \in Node : m # n => currentTerm'[m] = currentTerm[m] /\ state'[m] = state[m]
      /\ \A m \in Node : currentTerm[m] \in Nat
  BY <1>3 DEF ElectionTypeOK
<1>6. TermsRise /\ LeadersStay /\ NoStaleCandidate
  BY <1>1, <1>5 DEF TermsRise, LeadersStay, NoStaleCandidate
<1>7. CallersKept
  BY <1>4, <1>5 DEF CallersKept, ElectionTypeOK, IsAppendCall
<1>8. [Next]_vars
  BY DEF Next
<1>9. PICK cast2 : cast2 = cast \cup {<<n, t, n>>}
  OBVIOUS
<1>10. Ballots' \subseteq cast2
  <2>1. Ballots' \subseteq Ballots \cup {<<n, t, n>>}
    BY <1>2, <1>3 DEF Ballots
  <2>2. QED
    BY <2>1, <1>0, <1>9 DEF Votes
<1>11. cast \subseteq cast2 /\ cast2 \subseteq Node \X Nat \X Node
       /\ \A b \in cast2 \ cast : b = <<n, t, n>>
  BY <1>0, <1>9 DEF Votes
<1>12. Votes(cast2)'
  <2>1. \A b \in cast2 \ cast :
           /\ b[2] <= currentTerm'[b[1]]
           /\ b[2] = currentTerm'[b[3]] /\ votedFor'[b[3]] = b[1]
    BY <1>5, <1>11
  <2>2. QED
    BY <1>0, <1>8, <1>10, <1>11, <2>1, VotesFrame
<1>13. \A b \in cast2 \ cast :
         state'[b[1]] = "candidate" /\ currentTerm'[b[1]] = b[2] /\ b[2] \notin won =>
            \A k \in kept : k[1] = b[3] /\ k[2] < b[2] =>
               Has(whole[b[1]], k[2], k[3]) \/ Displaced(lead, won, k[2], k[3], b[2])
  BY <1>0, <1>1, <1>11 DEF Stores
<1>14. Leaderships(lead, won)' /\ Longer(lead, won, lead, won)
  BY <1>0, <1>3, LongerSelf DEF Leaderships
<1>15. \A e \in voteCalls' : VoteCallOK(e, whole, won)'
  <2>1. ASSUME NEW e \in voteCalls PROVE VoteCallOK(e, whole, won)'
    <3>1. \E f \in voteCalls : SameVoteCall(e, f)
      BY <1>0, SameCalls
    <3>2. QED
      BY <1>0, <1>6, <3>1, VoteCallsKept
  <2>2. ASSUME NEW e \in voteCalls', e \notin voteCalls PROVE VoteCallOK(e, whole, won)'
    <3>1. PICK p \in reached :
             e = [from |-> n, to |-> p, term |-> t,
                  lastLogIndex |-> LogLen(log[n]), lastLogTerm |-> LastTerm(log[n]),
                  granted |-> FALSE, replyTerm |-> 0, stage |-> "sent"]
      BY <1>2, <2>2
    <3>2. /\ LogLen(log[n]) = Len(whole[n])
          /\ LastTerm(log[n]) = IF whole[n] = <<>> THEN 0 ELSE whole[n][Len(whole[n])].term
          /\ whole[n] \in Seq(LogEntry)
      BY <1>0, ViewReads DEF Logs
    <3>3. Len(whole[n]) \in Nat /\ (whole[n] # <<>> => whole[n][Len(whole[n])].term \in Nat)
      <4>1. Len(whole[n]) \in Nat
        BY <3>2, LenProperties
      <4>2. whole[n] # <<>> => Len(whole[n]) \in 1 .. Len(whole[n])
        BY <3>2, <4>1, EmptySeq
      <4>3. whole[n] # <<>> => whole[n][Len(whole[n])] \in LogEntry
        BY <3>2, <4>2, ElementOfSeq
      <4>4. QED
        BY <4>1, <4>3 DEF LogEntry
    <3>4. /\ e.from = n /\ e.term = t
          /\ e.lastLogIndex = Len(whole[n])
          /\ e.lastLogTerm = IF whole[n] = <<>> THEN 0 ELSE whole[n][Len(whole[n])].term
      BY <3>1, <3>2
    <3>5. QED
      BY <1>5, <3>3, <3>4 DEF VoteCallOK
  <2>3. QED
    BY <2>1, <2>2
<1>16. \A e \in appendCalls' : AppendCallOK(e, lead, won, cast2, kept)'
  <2> SUFFICES ASSUME NEW e \in appendCalls' PROVE AppendCallOK(e, lead, won, cast2, kept)'
    OBVIOUS
  <2>1. \E f \in appendCalls : SameAppendCall(e, f, lead, kept)
    BY <1>0, <1>3, SameCalls
  <2>2. QED
    BY <1>0, <1>6, <1>7, <1>11, <1>14, <2>1, AppendCallsKept
<1>17. Progress(whole, lead, kept)'
  BY <1>0, <1>3, <1>6, ProgressFrame
<1>18. LogInv(whole, lead, won, cast2, kept)'
  BY <1>3, <1>6, <1>11, <1>12, <1>13, <1>15, <1>16, <1>17, CalmStep
<1>19. QED
  BY <1>18 DEF LogHistory

\* _append_entries_worker, up to the call: what is sent is a piece of the
\* leader's log, and leader_commit is covered by a chosen entry.
LEMMA AppendEntriesCallLog ==
    ASSUME NEW whole, NEW lead, NEW won, NEW cast, NEW kept,
           ElectionTypeOK, ElectionTypeOK', LogInv(whole, lead, won, cast, kept),
           NEW n \in Node, NEW p \in Node, AppendEntriesCall(n, p)
    PROVE  LogInv(whole, lead, won, cast, kept)'
<1>0. /\ Leaderships(lead, won) /\ Logs(whole, lead, won) /\ Votes(cast)
      /\ Reigns(whole, lead, won, cast)
      /\ Progress(whole, lead, kept) /\ Stores(whole, lead, won, kept)
      /\ \A e \in voteCalls : VoteCallOK(e, whole, won)
      /\ \A e \in appendCalls : AppendCallOK(e, lead, won, cast, kept)
      /\ \A m \in Node : CommitOK(m, whole, lead, kept)
  BY DEF LogInv
<1>1. PICK next, t, l, w : next = nextIndex[n][p] /\ t = currentTerm[n] /\ l = log[n] /\ w = whole[n]
  OBVIOUS
<1>2. PICK c : /\ appendCalls' = appendCalls \cup {c}
               /\ c = [from |-> n, to |-> p, term |-> t,
                       prevLogIndex |-> next - 1, prevLogTerm |-> GetTerm(l, next - 1),
                       entries |-> GetEntries(l, next), leaderCommit |-> CommitIndex(n),
                       success |-> FALSE, replyTerm |-> 0, stage |-> "sent"]
  BY <1>1 DEF AppendEntriesCall
<1>3. /\ UNCHANGED <<currentTerm, state, votesReceived, voteCalls, log, applied, pending,
                     resolved, submitted, nextIndex, matchIndex>>
      /\ state[n] = "leader" /\ p # n /\ next - 1 >= l.lastIncludedIndex
  BY <1>1 DEF AppendEntriesCall, electionVars, leaderVars, clientVars, CanReplicate
<1>4. /\ Subsides
  BY <1>3, FallingBack
<1>5. TermsRise /\ LeadersStay /\ NoStaleCandidate /\ CallersKept
  BY <1>4, SubsidesMeans
<1>6. [Next]_vars
  BY DEF Next
<1>7. Votes(cast)'
  <2>1. Ballots' \subseteq cast /\ cast \subseteq Node \X Nat \X Node
    BY <1>0, <1>3 DEF Votes, Ballots
  <2>2. QED
    BY <1>0, <1>6, <2>1, VotesFrame
<1>8. Leaderships(lead, won)' /\ Longer(lead, won, lead, won)
  BY <1>0, <1>3, LongerSelf DEF Leaderships
<1>9. /\ t \in won /\ t \in Nat /\ w = lead[t] /\ IsMajority(Voters(cast, n, t))
  BY <1>0, <1>1, <1>3 DEF Reigns, ElectionTypeOK
<1>10. /\ IsView(l, w) /\ w \in Seq(LogEntry) /\ Len(w) \in Nat
       /\ CommitIndex(n) \in Nat /\ CommitIndex(n) <= Len(w)
  <2>1. IsView(log[n], whole[n])
    BY <1>0 DEF Logs
  <2>2. /\ whole[n] \in Seq(LogEntry) /\ Len(whole[n]) \in Nat
        /\ CommitIndex(n) \in Nat /\ CommitIndex(n) <= Len(whole[n])
    BY <1>0, HeldEntries
  <2>3. QED
    BY <1>1, <2>1, <2>2
<1>11. next \in 1 .. Len(w) + 1 /\ next \in l.lastIncludedIndex + 1 .. Len(w) + 1
       /\ l.lastIncludedIndex \in Nat
  BY <1>0, <1>1, <1>3, <1>10, SMTT(30) DEF Progress, IsView
<1>12. PICK i \in Nat : i = next - 1 /\ i + 1 = next /\ i <= Len(w) /\ i >= l.lastIncludedIndex
  BY <1>10, <1>11
<1>13. PICK es : es = GetEntries(l, next)
  OBVIOUS
<1>14. /\ es \in Seq(LogEntry) /\ Len(es) = Len(w) - i
       /\ \A j \in 1 .. Len(es) : es[j] = w[i + j]
  <2>1. /\ es \in Seq(LogEntry) /\ Len(es) = Len(w) + 1 - next
        /\ \A j \in 1 .. Len(es) : es[j] = w[next - 1 + j]
    BY <1>10, <1>11, <1>13, ViewEntries
  <2>2. QED
    BY <1>10, <1>12, <2>1
<1>15. GetTerm(l, i) \in Nat /\ (i > 0 => GetTerm(l, i) = w[i].term)
  <2>1. i = 0 => GetTerm(l, i) = 0
    BY DEF GetTerm
  <2>2. i > 0 => GetTerm(l, i) = w[i].term
    <3>1. CASE i = l.lastIncludedIndex
      BY <1>10, <3>1, ViewReads
    <3>2. CASE i # l.lastIncludedIndex
      <4>1. i \in l.lastIncludedIndex + 1 .. Len(w)
        BY <1>10, <1>11, <1>12, <3>2
      <4>2. QED
        BY <1>10, <4>1, ViewReads
    <3>3. QED
      BY <3>1, <3>2
  <2>3. i > 0 => w[i] \in LogEntry
    <3>1. i > 0 => i \in 1 .. Len(w)
      BY <1>10, <1>12
    <3>2. QED
      BY <1>10, <3>1, ElementOfSeq
  <2>4. QED
    BY <2>1, <2>2, <2>3 DEF LogEntry
<1>16. /\ c.from = n /\ c.to = p /\ c.term = t /\ c.prevLogIndex = i
       /\ c.prevLogTerm = GetTerm(l, i) /\ c.entries = es /\ c.leaderCommit = CommitIndex(n)
       /\ c.success = FALSE /\ c.stage = "sent"
  BY <1>2, <1>12, <1>13
<1>17. Committed(kept, t, CommitIndex(n))
  BY <1>0, <1>1 DEF CommitOK, Committed
<1>18. AppendCallOK(c, lead, won, cast, kept)'
  <2>1. c.prevLogIndex + Len(c.entries) = Len(w)
    BY <1>10, <1>12, <1>14, <1>16
  <2>2. PICK m : m = CommitIndex(n)
    OBVIOUS
  <2>3. /\ c.prevLogIndex \in Nat /\ c.prevLogTerm \in Nat /\ c.leaderCommit \in Nat
        /\ c.leaderCommit = m /\ Committed(kept, t, m) /\ m <= Len(w)
    BY <1>10, <1>15, <1>16, <1>17, <2>2
  <2>4. currentTerm'[n] = t
    BY <1>1, <1>3
  <2>5. Committed(kept, t, m)'
    BY <2>3 DEF Committed, Chosen, Keepers, IsMajority
  <2>6. IsMajority(Voters(cast, n, t))'
    BY <1>9 DEF IsMajority, Voters
  <2>7. t <= t
    BY <1>9
  <2>8. /\ c.term \in won /\ c.term <= currentTerm'[c.from] /\ c.term = currentTerm'[c.from]
        /\ c.from # c.to /\ c.entries \in Seq(LogEntry)
        /\ c.success = FALSE /\ c.success \in BOOLEAN /\ c.stage \in Stage
    BY <1>3, <1>9, <1>14, <1>16, <2>4, <2>7 DEF Stage
  <2>9. /\ c.prevLogIndex + Len(c.entries) <= Len(lead[c.term])
        /\ c.leaderCommit <= c.prevLogIndex + Len(c.entries)
    BY <1>9, <1>10, <1>16, <2>1, <2>3
  <2>10. /\ c.prevLogIndex > 0 => c.prevLogTerm = lead[c.term][c.prevLogIndex].term
         /\ \A k \in 1 .. Len(c.entries) : c.entries[k] = lead[c.term][c.prevLogIndex + k]
    BY <1>9, <1>14, <1>15, <1>16
  <2>11. Committed(kept, c.term, c.leaderCommit)' /\ IsMajority(Voters(cast, c.from, c.term))'
    BY <1>16, <2>3, <2>5, <2>6
  <2>12. QED
    BY <2>3, <2>8, <2>9, <2>10, <2>11 DEF AppendCallOK
<1>19. \A e \in appendCalls' : AppendCallOK(e, lead, won, cast, kept)'
  <2>1. ASSUME NEW e \in appendCalls PROVE AppendCallOK(e, lead, won, cast, kept)'
    <3>1. \E f \in appendCalls : SameAppendCall(e, f, lead, kept)
      BY <1>0, SameCalls
    <3>2. QED
      BY <1>0, <1>5, <1>8, <3>1, AppendCallsKept
  <2>2. QED
    BY <1>2, <1>18, <2>1
<1>20. \A e \in voteCalls' : VoteCallOK(e, whole, won)'
  <2>1. \A e \in voteCalls' : \E f \in voteCalls : SameVoteCall(e, f)
    BY <1>0, <1>3, SameCalls
  <2>2. QED
    BY <1>0, <1>5, <2>1, VoteCallsKept
<1>21. Progress(whole, lead, kept)'
  BY <1>0, <1>3, <1>5, ProgressFrame
<1>22. QED
  BY <1>3, <1>5, <1>7, <1>19, <1>20, <1>21, CalmStep

\* snapshot_interval divides the way from the last snapshot to the commit index.
LEMMA SnapshotPoint ==
    ASSUME NEW k \in Nat, NEW c \in Nat, k <= c,
           NEW s, s = k + SnapshotInterval * ((c - k) \div SnapshotInterval)
    PROVE  s \in k .. c
<1>1. ASSUME NEW a \in Nat \ {0}, NEW x \in Nat PROVE a * (x \div a) \in 0 .. x
  OBVIOUS
<1>2. SnapshotInterval * ((c - k) \div SnapshotInterval) \in 0 .. (c - k)
  <2>1. c - k \in Nat /\ SnapshotInterval \in Nat \ {0}
    BY RaftAssumption
  <2>2. QED
    BY <1>1, <2>1
<1>3. QED
  BY <1>2

\* _apply_committed_entries up to index cc of a log l whose whole log is w:
\* the commands of w are applied, the futures that resolve name commands of w,
\* and the snapshot leaves the whole log alone.
LEMMA ApplyLog ==
    ASSUME NEW whole, NEW lead, NEW won, Logs(whole, lead, won),
           pending \subseteq Node \X (Nat \ {0}) \X Command,
           NEW n \in Node, NEW l, NEW w \in Seq(LogEntry), NEW cc \in Nat,
           IsView(l, w), l.lastIncludedIndex <= CommitIndex(n),
           CommitIndex(n) <= cc, cc <= Len(w),
           Agree(whole[n], w, CommitIndex(n)), ApplyCommitted(n, l, cc)
    PROVE  /\ applied' \in [Node -> Seq(Command)]
           /\ CommitIndex(n)' = cc
           /\ \A j \in 1 .. cc : applied'[n][j] = w[j].command
           /\ \A m \in Node : m # n => applied'[m] = applied[m] /\ log'[m] = log[m]
           /\ DOMAIN log' = Node
           /\ IsView(log'[n], w) /\ log'[n].lastIncludedIndex <= cc
           /\ pending' \subseteq pending
           /\ \A r \in resolved' : r \in resolved \/ \E j \in 1 .. cc : r[2] = w[j].command
<1> DEFINE k == l.lastIncludedIndex
           s == SnapshotIndex(n, l, cc)
           ci == CommitIndex(n)
           new == CommandsBetween(l, ci, cc)
<1>1. /\ k \in Nat /\ Len(w) \in Nat /\ ci \in Nat /\ k <= ci /\ ci <= cc /\ cc <= Len(w)
      /\ applied[n] \in Seq(Command) /\ Len(applied[n]) = ci
  <2>1. ci \in Nat /\ applied[n] \in Seq(Command) /\ Len(applied[n]) = ci
    BY HeldEntries DEF CommitIndex
  <2>2. QED
    BY <2>1 DEF IsView
<1>2. \A i \in ci + 1 .. cc : EntryAt(l, i) = w[i] /\ w[i].command \in Command
  <2> SUFFICES ASSUME NEW i \in ci + 1 .. cc
               PROVE  EntryAt(l, i) = w[i] /\ w[i].command \in Command
    OBVIOUS
  <2>1. i \in k + 1 .. Len(w) /\ i \in 1 .. Len(w)
    BY <1>1
  <2>2. EntryAt(l, i) = w[i]
    BY <2>1, ViewReads
  <2>3. w[i] \in LogEntry
    BY <2>1, ElementOfSeq
  <2>4. QED
    BY <2>2, <2>3 DEF LogEntry
<1>3. /\ applied' = [applied EXCEPT ![n] = @ \o new]
      /\ log' = [log EXCEPT ![n] = Compact(l, s, GetTerm(l, s))]
      /\ pending' \subseteq pending
  BY DEF ApplyCommitted
<1>4. new = [j \in 1 .. (cc - ci) |-> w[ci + j].command]
  <2>1. \A j \in 1 .. (cc - ci) : ci + j \in ci + 1 .. cc
    BY <1>1
  <2>2. \A j \in 1 .. (cc - ci) : EntryAt(l, ci + j).command = w[ci + j].command
    BY <1>2, <2>1
  <2>3. new = [j \in 1 .. (cc - ci) |-> EntryAt(l, ci + j).command]
    BY DEF CommandsBetween
  <2> HIDE DEF new
  <2>4. QED
    BY <2>2, <2>3
<1>5. new \in Seq(Command) /\ Len(new) = cc - ci
      /\ \A j \in 1 .. (cc - ci) : new[j] = w[ci + j].command
  <2>1. cc - ci \in Nat
    BY <1>1
  <2>2. \A j \in 1 .. (cc - ci) : w[ci + j].command \in Command
    <3>1. \A j \in 1 .. (cc - ci) : ci + j \in ci + 1 .. cc
      BY <1>1
    <3>2. QED
      BY <1>2, <3>1
  <2> HIDE DEF new
  <2>3. new \in [1 .. (cc - ci) -> Command]
    BY <1>4, <2>2
  <2>4. new \in Seq(Command)
    BY <2>1, <2>3, IsASeq
  <2>5. DOMAIN new = 1 .. (cc - ci) /\ DOMAIN new = 1 .. Len(new) /\ Len(new) \in Nat
    BY <2>3, <2>4, LenProperties
  <2>6. Len(new) = cc - ci
    BY <2>1, <2>5
  <2>7. QED
    BY <1>4, <2>4, <2>6
<1> HIDE DEF new
<1>6. /\ applied[n] \o new \in Seq(Command)
      /\ Len(applied[n] \o new) = cc
      /\ \A j \in 1 .. cc : (applied[n] \o new)[j] = w[j].command
  <2>1. /\ applied[n] \o new \in Seq(Command)
        /\ Len(applied[n] \o new) = Len(applied[n]) + Len(new)
        /\ \A j \in 1 .. Len(applied[n]) + Len(new) :
              (applied[n] \o new)[j] = IF j <= Len(applied[n]) THEN applied[n][j]
                                       ELSE new[j - Len(applied[n])]
    BY <1>1, <1>5, ConcatProperties
  <2>2. Len(applied[n]) + Len(new) = cc
    BY <1>1, <1>5
  <2>3. ASSUME NEW j \in 1 .. cc PROVE (applied[n] \o new)[j] = w[j].command
    <3>1. CASE j <= ci
      <4>1. applied[n][j] = whole[n][j].command /\ whole[n][j] = w[j]
        BY <1>1, <3>1, HeldEntries DEF Agree
      <4>2. QED
        BY <1>1, <2>1, <2>2, <3>1, <4>1
    <3>2. CASE j > ci
      <4>1. j - ci \in 1 .. (cc - ci) /\ ci + (j - ci) = j
        BY <1>1, <3>2
      <4>2. new[j - ci] = w[j].command
        BY <1>5, <4>1
      <4>3. QED
        BY <1>1, <2>1, <2>2, <3>2, <4>2
    <3>3. j <= ci \/ j > ci
      <4> HIDE DEF ci
      <4>1. QED
        BY <1>1
    <3>4. QED
      BY <3>1, <3>2, <3>3
  <2>4. QED
    BY <2>1, <2>2, <2>3
<1>7. /\ applied' \in [Node -> Seq(Command)]
      /\ applied'[n] = applied[n] \o new
      /\ \A m \in Node : m # n => applied'[m] = applied[m] /\ log'[m] = log[m]
      /\ DOMAIN log' = Node /\ log'[n] = Compact(l, s, GetTerm(l, s))
  BY <1>3, <1>6 DEF Logs
<1>8. CommitIndex(n)' = cc /\ \A j \in 1 .. cc : applied'[n][j] = w[j].command
  BY <1>6, <1>7 DEF CommitIndex
<1>9. s \in k .. cc
  <2>1. s = k + SnapshotInterval * ((cc - k) \div SnapshotInterval)
    BY DEF SnapshotIndex
  <2>2. k <= cc
    BY <1>1
  <2> HIDE DEF s, k
  <2>3. QED
    BY <1>1, <2>1, <2>2, SnapshotPoint
<1>10. IsView(log'[n], w) /\ log'[n].lastIncludedIndex <= cc
  <2>1. PICK x \in k .. cc : x = s
    BY <1>9
  <2>2. log'[n] = Compact(l, x, GetTerm(l, x))
    BY <1>7, <2>1
  <2>3. x \in 0 .. Len(w) /\ x <= cc /\ k <= cc
    <3> HIDE DEF s, ci
    <3>1. QED
      BY <1>1
  <2>4. /\ IsView(Compact(l, x, GetTerm(l, x)), w)
        /\ Compact(l, x, GetTerm(l, x)).lastIncludedIndex = IF x <= k THEN k ELSE x
    BY <2>3, ViewCompact
  <2>5. (IF x <= k THEN k ELSE x) <= cc
    BY <2>3
  <2>6. QED
    BY <2>2, <2>4, <2>5
<1>11. ASSUME NEW r \in resolved', r \notin resolved
       PROVE  \E j \in 1 .. cc : r[2] = w[j].command
  <2>1. PICK p \in pending : /\ p[2] \in ci + 1 .. cc
                             /\ r = <<p[3], EntryAt(l, p[2]).command>>
    BY <1>11 DEF ApplyCommitted
  <2>2. p[2] \in 1 .. cc /\ r[2] = w[p[2]].command
    BY <1>1, <1>2, <2>1
  <2>3. QED
    BY <2>2
<1>12. QED
  BY <1>3, <1>7, <1>8, <1>10, <1>11

\* A step that makes w the whole log of node n, stores what is in kept2, and
\* brings n's commit index to cc.
LEMMA LogStep ==
    ASSUME NEW whole, NEW lead, NEW won, NEW cast, NEW kept,
           NEW n \in Node, NEW w \in Seq(LogEntry), NEW cc \in Nat, NEW kept2, NEW whole2,
           whole2 = [whole EXCEPT ![n] = w],
           ElectionTypeOK, ElectionTypeOK', LogInv(whole, lead, won, cast, kept),
           [Next]_vars, Subsides, submitted' = submitted, Ballots' \subseteq Ballots,
           \A c \in voteCalls' : \E d \in voteCalls : SameVoteCall(c, d),
           \A c \in appendCalls' : \E d \in appendCalls : SameAppendCall(c, d, lead, kept2),
           StoredNow(kept, kept2),
           Stores(whole2, lead, won, kept2)', Progress(whole2, lead, kept2)',
           FromLeaders(lead, won, w, currentTerm'[n]),
           state'[n] = "leader" => w = whole[n],
           state'[n] = "candidate" /\ currentTerm'[n] \notin won => w = whole[n],
           Agree(whole[n], w, CommitIndex(n)),
           applied' \in [Node -> Seq(Command)],
           \A m \in Node : m # n => applied'[m] = applied[m] /\ log'[m] = log[m],
           DOMAIN log' = Node, IsView(log'[n], w), log'[n].lastIncludedIndex <= cc,
           CommitIndex(n)' = cc, CommitIndex(n) <= cc, cc <= Len(w),
           \A j \in 1 .. cc : applied'[n][j] = w[j].command,
           pending' \subseteq pending,
           \A r \in resolved' : r \in resolved \/ \E j \in 1 .. cc : r[2] = w[j].command,
           \/ cc = CommitIndex(n)
           \/ \E u, N \in Nat : /\ u <= currentTerm'[n] /\ cc <= N
                                /\ Chosen(kept2, u, N) /\ Agree(w, lead[u], cc)
    PROVE  LogInv(whole2, lead, won, cast, kept2)'
<1>0. /\ Leaderships(lead, won) /\ Logs(whole, lead, won)
      /\ Reigns(whole, lead, won, cast)
      /\ \A m \in Node : CommitOK(m, whole, lead, kept)
      /\ pending \subseteq Node \X (Nat \ {0}) \X Command
  BY DEF LogInv
<1>1. /\ whole2 \in [Node -> Seq(LogEntry)] /\ whole2[n] = w
      /\ \A m \in Node : m # n => whole2[m] = whole[m]
  BY <1>0 DEF Logs
<1>2. Leaderships(lead, won)' /\ Longer(lead, won, lead, won)
  BY <1>0, LongerSelf DEF Leaderships
<1>3. TermsRise /\ LeadersStay /\ NoStaleCandidate /\ CallersKept
  BY SubsidesMeans
<1>4. /\ Votes(cast)'
      /\ Candidates(whole2, lead, won, cast, kept2)'
      /\ \A s \in won : WinnerOK(s, lead, won, cast, kept2)'
      /\ \A c \in voteCalls' : VoteCallOK(c, whole2, won)'
      /\ \A c \in appendCalls' : AppendCallOK(c, lead, won, cast, kept2)'
      /\ \A r \in resolved : ResolvedOK(r, lead, kept2)
  <2>1. \A m \in Node : state'[m] = "candidate" /\ currentTerm'[m] \notin won =>
              whole2[m] = whole[m]
    BY <1>1
  <2>2. QED
    BY <1>2, <1>3, <2>1, GrowingStep
<1>5. Logs(whole2, lead, won)'
  <2>1. ASSUME NEW m \in Node
        PROVE  /\ IsView(log'[m], whole2[m])
               /\ FromLeaders(lead, won, whole2[m], currentTerm'[m])
               /\ log'[m].lastIncludedIndex <= Len(applied'[m])
               /\ Len(applied'[m]) <= Len(whole2[m])
               /\ \A j \in 1 .. Len(applied'[m]) : applied'[m][j] = whole2[m][j].command
    <3>1. CASE m = n
      <4>1. Len(applied'[n]) = cc
        BY DEF CommitIndex
      <4>2. QED
        BY <3>1, <4>1, <1>1
    <3>2. CASE m # n
      <4>1. log'[m] = log[m] /\ applied'[m] = applied[m] /\ whole2[m] = whole[m]
        BY <1>1, <3>2
      <4>2. currentTerm[m] \in Nat /\ currentTerm'[m] \in Nat /\ currentTerm[m] <= currentTerm'[m]
        BY <1>3 DEF TermsRise, ElectionTypeOK
      <4>3. FromLeaders(lead, won, whole[m], currentTerm'[m])
        BY <1>0, <1>2, <4>2, LongerKeeps DEF Logs
      <4>4. QED
        BY <1>0, <4>1, <4>3 DEF Logs, CommitIndex
    <3>3. QED
      BY <3>1, <3>2
  <2>2. QED
    BY <1>1, <2>1 DEF Logs, CommitIndex
<1>6. Reigns(whole2, lead, won, cast)'
  <2>1. \A m \in Node : state'[m] = "leader" => whole2[m] = whole[m]
    BY <1>1
  <2>2. QED
    BY <1>0, <1>3, <2>1, ReignsFrame, ZenonT(30)
<1>7. ASSUME NEW m \in Node PROVE CommitOK(m, whole2, lead, kept2)'
  <2>1. /\ kept \subseteq kept2 /\ CommitOK(m, whole, lead, kept)
        /\ currentTerm[m] <= currentTerm'[m]
    BY <1>0, <1>3 DEF StoredNow, TermsRise
  <2>2. CASE m # n
    <3>1. /\ CommitIndex(m)' = CommitIndex(m) /\ CommitIndex(m) \in Nat
          /\ CommitIndex(m) <= Len(whole[m]) /\ whole2[m] = whole[m]
      BY <1>0, <1>1, <2>2, HeldEntries DEF CommitIndex
    <3>2. Agree(whole[m], whole2[m], CommitIndex(m))
      BY <3>1 DEF Agree
    <3>3. CommitIndex(m)' \in Nat /\ CommitIndex(m)' <= CommitIndex(m)
      BY <3>1
    <3>4. QED
      BY <1>2, <2>1, <3>2, <3>3, CommitFrame
  <2>3. CASE m = n /\ cc = CommitIndex(n)
    <3>1. CommitIndex(m)' \in Nat /\ CommitIndex(m)' <= CommitIndex(m)
      BY <2>3
    <3>2. Agree(whole[m], whole2[m], CommitIndex(m))
      BY <1>1, <2>3
    <3>3. QED
      BY <1>2, <2>1, <3>1, <3>2, CommitFrame
  <2>4. CASE /\ m = n
             /\ \E u, N \in Nat : /\ u <= currentTerm'[n] /\ cc <= N
                                  /\ Chosen(kept2, u, N) /\ Agree(w, lead[u], cc)
    <3>1. PICK u \in Nat, N \in Nat : /\ u <= currentTerm'[n] /\ cc <= N
                                      /\ Chosen(kept2, u, N) /\ Agree(w, lead[u], cc)
      BY <2>4
    <3>2. QED
      BY <1>1, <2>4, <3>1 DEF CommitOK, Chosen, Keepers, IsMajority
  <2>5. QED
    BY <2>2, <2>3, <2>4
<1>8. \A r \in resolved' : ResolvedOK(r, lead, kept2)
  <2> SUFFICES ASSUME NEW r \in resolved', NEW j \in 1 .. cc, r[2] = w[j].command
               PROVE  ResolvedOK(r, lead, kept2)
    BY <1>4
  <2>1. cc # 0
    OBVIOUS
  <2>2. PICK u \in Nat, N \in Nat : /\ cc <= N /\ Chosen(kept2, u, N) /\ Agree(w, lead[u], cc)
    BY <1>1, <1>7, <2>1 DEF CommitOK, Chosen, Keepers, IsMajority
  <2>3. j \in 1 .. N /\ lead[u][j].command = r[2]
    BY <2>2 DEF Agree
  <2>4. QED
    BY <2>2, <2>3 DEF ResolvedOK
<1>9. Winners(lead, won, cast, kept2)'
  BY <1>4 DEF Winners
<1>10. QED
  BY <1>0, <1>2, <1>4, <1>5, <1>6, <1>7, <1>8, <1>9
     DEF LogInv, ResolvedOK, Chosen, Keepers, IsMajority

\* _update_commit_index: a majority of the nodes has reached the index it
\* picks, the leader's own log counted in full.
LEMMA MajorityReached ==
    ASSUME NEW n \in Node, NEW m \in [Node -> Nat], NEW L \in Nat, LogLen(log[n]) = L,
           \A q \in Node : m[q] <= L, IsMajority(Node)
    PROVE  /\ MajorityMatch(n, m) \in Nat
           /\ IsMajority({q \in Node : (IF q = n THEN L ELSE m[q]) >= MajorityMatch(n, m)})
<1> DEFINE reach == [m EXCEPT ![n] = L]
           T == {reach[p] : p \in Node}
           S == {i \in T : IsMajority({p \in Node : reach[p] >= i})}
<1>1. /\ reach \in [Node -> Nat]
      /\ \A q \in Node : reach[q] = (IF q = n THEN L ELSE m[q]) /\ reach[q] <= L
  OBVIOUS
<1> HIDE DEF reach
<1>2. T \in SUBSET Nat /\ T # {}
  BY <1>1
<1>3. PICK x \in T : \A y \in T : x <= y
  <2> HIDE DEF T
  <2> QED BY <1>2, LeastNumber
<1>4. {p \in Node : reach[p] >= x} = Node
  BY <1>1, <1>3
<1>5. S \in SUBSET Nat /\ S # {} /\ \A y \in S : y <= L
  BY <1>1, <1>2, <1>3, <1>4
<1>6. Max(S) \in S
  <2> HIDE DEF S
  <2> QED BY <1>5, GreatestNumber
<1>7. MajorityMatch(n, m) = Max(S)
  BY DEF MajorityMatch, reach
<1>8. MajorityMatch(n, m) \in S
  BY <1>6, <1>7
<1>9. PICK N \in Nat : N = MajorityMatch(n, m) /\ IsMajority({p \in Node : reach[p] >= N})
  BY <1>2, <1>8
<1>10. {p \in Node : reach[p] >= N} = {q \in Node : (IF q = n THEN L ELSE m[q]) >= N}
  BY <1>1
<1>11. QED
  BY <1>9, <1>10

\* _append_entries_worker with a reply in hand: what a success confirms was
\* stored, and what a majority stored of the leader's own term is chosen.
LEMMA AppendEntriesReplyLog ==
    ASSUME NEW whole, NEW lead, NEW won, NEW cast, NEW kept,
           ElectionTypeOK, ElectionTypeOK', LogInv(whole, lead, won, cast, kept),
           NEW c \in appendCalls, AppendEntriesReply(c)
    PROVE  LogInv(whole, lead, won, cast, kept)'
<1>0. /\ Leaderships(lead, won) /\ Logs(whole, lead, won) /\ Votes(cast)
      /\ Reigns(whole, lead, won, cast)
      /\ Progress(whole, lead, kept) /\ Stores(whole, lead, won, kept)
      /\ \A e \in voteCalls : VoteCallOK(e, whole, won)
      /\ \A e \in appendCalls : AppendCallOK(e, lead, won, cast, kept)
      /\ pending \subseteq Node \X (Nat \ {0}) \X Command
  BY DEF LogInv
<1>1. PICK n, p, t : n = c.from /\ p = c.to /\ t = c.term
  OBVIOUS
<1>2. /\ n \in Node /\ p \in Node /\ t \in Nat /\ c.replyTerm \in Nat /\ c.stage = "answered"
  BY <1>1 DEF ElectionTypeOK, IsAppendCall, AppendEntriesReply
<1>3. /\ UNCHANGED <<votesReceived, voteCalls, submitted>>
      /\ appendCalls' \subseteq appendCalls
  BY DEF AppendEntriesReply
<1>4. [Next]_vars
  BY DEF Next
<1>5. Ballots' \subseteq Ballots
  BY <1>3 DEF Ballots
<1>6. /\ \A e \in voteCalls' : \E f \in voteCalls : SameVoteCall(e, f)
      /\ \A e \in appendCalls' : \E f \in appendCalls : SameAppendCall(e, f, lead, kept)
  BY <1>0, <1>3, SameCalls
<1>7. Subsides
  <2>1. UNCHANGED <<currentTerm, state>> \/ (c.replyTerm > currentTerm[n] /\ UpdateTerm(n, c.replyTerm))
    BY <1>1 DEF AppendEntriesReply
  <2>2. QED
    BY <1>2, <2>1, FallingBack
<1>8. TermsRise /\ LeadersStay /\ NoStaleCandidate /\ CallersKept
  BY <1>7, SubsidesMeans
<1>9. CASE UNCHANGED <<leaderVars, log, applied, pending, resolved>>
  BY <1>3, <1>4, <1>5, <1>6, <1>7, <1>9, SettledStep DEF leaderVars
<1>10. CASE UNCHANGED <<log, applied, pending, resolved>> /\ Progress(whole, lead, kept)'
  <2>1. Leaderships(lead, won)' /\ Longer(lead, won, lead, won)
    BY <1>0, <1>3, LongerSelf DEF Leaderships
  <2>2. Votes(cast)'
    <3>1. Ballots' \subseteq cast /\ cast \subseteq Node \X Nat \X Node
      BY <1>0, <1>5 DEF Votes
    <3>2. QED
      BY <1>0, <1>4, <3>1, VotesFrame
  <2>3. \A e \in voteCalls' : VoteCallOK(e, whole, won)'
    BY <1>0, <1>6, <1>8, VoteCallsKept
  <2>4. \A e \in appendCalls' : AppendCallOK(e, lead, won, cast, kept)'
    <3> SUFFICES ASSUME NEW e \in appendCalls' PROVE AppendCallOK(e, lead, won, cast, kept)'
      OBVIOUS
    <3>1. \E f \in appendCalls : SameAppendCall(e, f, lead, kept)
      BY <1>6
    <3>2. QED
      BY <1>0, <1>8, <2>1, <3>1, AppendCallsKept
  <2>5. QED
    BY <1>3, <1>8, <1>10, <2>2, <2>3, <2>4, CalmStep
<1>11. \A m \in Node : Len(whole[m]) \in Nat /\ LogLen(log[m]) = Len(whole[m])
  BY <1>0, HeldEntries
<1>12. CASE /\ state[n] = "leader" /\ state' = state /\ currentTerm' = currentTerm
            /\ matchIndex' = matchIndex
            /\ nextIndex' = [nextIndex EXCEPT ![n][p] = RetryIndex(@)]
            /\ UNCHANGED <<log, applied, pending, resolved>>
  <2>1. nextIndex[n][p] \in 1 .. Len(whole[n]) + 1
    BY <1>0, <1>2, <1>12 DEF Progress
  <2>2. RetryIndex(nextIndex[n][p]) \in 1 .. Len(whole[n]) + 1
    <3>1. PICK i, L \in Nat : /\ i = nextIndex[n][p] /\ L = Len(whole[n])
                             /\ i >= 1 /\ i <= L + 1
      BY <1>2, <1>11, <2>1
    <3>2. PICK j \in Nat : j = i - 1
      BY <3>1
    <3>3. Max({1, j}) = IF 1 >= j THEN 1 ELSE j
      BY TwoNumbers
    <3>4. RetryIndex(i) = IF 1 >= j THEN 1 ELSE j
      BY <3>2, <3>3 DEF RetryIndex
    <3>5. RetryIndex(i) \in 1 .. L + 1
      BY <3>1, <3>2, <3>4
    <3>6. QED
      BY <3>1, <3>5
  <2>3. Progress(whole, lead, kept)'
    <3>1. nextIndex' \in [Node -> [Node -> Nat]] /\ matchIndex' \in [Node -> [Node -> Nat]]
      BY <1>0, <1>2, <1>12, <2>2 DEF Progress
    <3>2. ASSUME NEW m \in Node, state[m] = "leader", NEW q \in Node
          PROVE  nextIndex'[m][q] \in 1 .. Len(whole[m]) + 1
      <4>1. CASE m = n /\ q = p
        BY <1>0, <1>2, <1>12, <2>2, <4>1 DEF Progress
      <4>2. CASE ~(m = n /\ q = p)
        <5>1. nextIndex'[m][q] = nextIndex[m][q]
          BY <1>0, <1>2, <1>12, <4>2 DEF Progress
        <5>2. QED
          BY <1>0, <3>2, <5>1 DEF Progress
      <4>3. QED
        BY <4>1, <4>2
    <3>3. QED
      BY <1>0, <1>12, <3>1, <3>2 DEF Progress
  <2>4. QED
    BY <1>10, <1>12, <2>3
<1>13. CASE /\ state[n] = "leader" /\ state' = state /\ currentTerm' = currentTerm
            /\ c.success
            /\ matchIndex' = [matchIndex EXCEPT ![n][p] = c.prevLogIndex + Len(c.entries)]
            /\ nextIndex' = [nextIndex EXCEPT ![n][p] = c.prevLogIndex + Len(c.entries) + 1]
            /\ UpdateCommitIndex(n, matchIndex'[n])
  <2>1. /\ currentTerm[n] = t /\ whole[n] = lead[t] /\ t \in won /\ p # n
        /\ IsMajority(Voters(cast, n, t))
    BY <1>0, <1>1, <1>2, <1>13 DEF AppendCallOK, Reigns
  <2>2. PICK match \in Nat : match = c.prevLogIndex + Len(c.entries)
    BY <1>0, LenProperties DEF AppendCallOK
  <2>3. /\ match <= Len(whole[n])
        /\ \A i \in 1 .. match : Has(lead[t], t, i) => <<p, t, i>> \in kept
    BY <1>0, <1>1, <1>2, <1>13, <2>1, <2>2 DEF AppendCallOK
  <2>4. Progress(whole, lead, kept)'
    <3>1. /\ matchIndex' = [matchIndex EXCEPT ![n][p] = match]
          /\ nextIndex' = [nextIndex EXCEPT ![n][p] = match + 1]
      BY <1>13, <2>2
    <3>2. nextIndex' \in [Node -> [Node -> Nat]] /\ matchIndex' \in [Node -> [Node -> Nat]]
      BY <1>0, <1>2, <3>1 DEF Progress
    <3>3. ASSUME NEW m \in Node, state[m] = "leader", NEW q \in Node
          PROVE  /\ nextIndex'[m][q] \in 1 .. Len(whole[m]) + 1
                 /\ matchIndex'[m][q] <= Len(whole[m])
                 /\ \A i \in 1 .. (IF q = m THEN Len(whole[m]) ELSE matchIndex'[m][q]) :
                       Has(lead[currentTerm[m]], currentTerm[m], i) =>
                           <<q, currentTerm[m], i>> \in kept
      <4>1. CASE m = n /\ q = p
        <5>1. nextIndex'[m][q] = match + 1 /\ matchIndex'[m][q] = match
          BY <1>0, <1>2, <3>1, <4>1 DEF Progress
        <5>2. QED
          BY <1>11, <2>1, <2>3, <4>1, <5>1
      <4>2. CASE ~(m = n /\ q = p)
        <5>1. nextIndex'[m][q] = nextIndex[m][q] /\ matchIndex'[m][q] = matchIndex[m][q]
          BY <1>0, <1>2, <3>1, <4>2 DEF Progress
        <5>2. QED
          BY <1>0, <3>3, <5>1 DEF Progress
      <4>3. QED
        BY <4>1, <4>2
    <3>4. QED
      BY <1>13, <3>2, <3>3 DEF Progress
  <2>5. PICK m2 \in [Node -> Nat] : m2 = matchIndex'[n]
    BY <1>2, <2>4 DEF Progress
  <2>6. \A q \in Node :
           /\ m2[q] <= Len(whole[n])
           /\ \A i \in 1 .. (IF q = n THEN Len(whole[n]) ELSE m2[q]) :
                 Has(lead[t], t, i) => <<q, t, i>> \in kept
    BY <1>2, <1>13, <2>1, <2>4, <2>5 DEF Progress
  <2>7. IsMajority(Node)
    <3>1. Voters(cast, n, t) \in SUBSET Node
      BY DEF Voters
    <3>2. QED
      BY <2>1, <3>1, MajorityGrows
  <2>8. PICK N \in Nat :
           /\ N = MajorityMatch(n, m2)
           /\ IsMajority({q \in Node : (IF q = n THEN Len(whole[n]) ELSE m2[q]) >= N})
    BY <1>2, <1>11, <2>6, <2>7, MajorityReached
  <2>9. CASE ~MayCommit(n, N)
    <3>1. UNCHANGED <<log, applied, pending, resolved>>
      BY <1>13, <2>5, <2>8, <2>9 DEF UpdateCommitIndex
    <3>2. QED
      BY <1>10, <2>4, <3>1
  <2>10. CASE MayCommit(n, N)
    <3>1. ApplyCommitted(n, log[n], N)
      BY <1>13, <2>5, <2>8, <2>10 DEF UpdateCommitIndex
    <3>2. /\ CommitIndex(n) < N /\ N <= Len(whole[n])
          /\ GetTerm(log[n], N) = t
      BY <1>2, <1>11, <2>1, <2>10 DEF MayCommit
    <3>3. /\ IsView(log[n], whole[n]) /\ whole[n] \in Seq(LogEntry)
          /\ FromLeaders(lead, won, whole[n], currentTerm[n])
          /\ log[n].lastIncludedIndex <= CommitIndex(n)
          /\ log[n].lastIncludedIndex \in Nat /\ CommitIndex(n) \in Nat
      <4>1. Logs(whole, lead, won)
        BY <1>0
      <4>2. /\ IsView(log[n], whole[n]) /\ whole[n] \in Seq(LogEntry)
            /\ FromLeaders(lead, won, whole[n], currentTerm[n])
            /\ log[n].lastIncludedIndex <= CommitIndex(n)
        BY <1>2, <4>1 DEF Logs
      <4>3. log[n].lastIncludedIndex \in Nat /\ CommitIndex(n) \in Nat
        BY <1>2, <4>1, HeldEntries
      <4>4. QED
        BY <4>2, <4>3
    <3>4. Has(lead[t], t, N)
      <4>1. N \in log[n].lastIncludedIndex + 1 .. Len(whole[n]) /\ N \in 1 .. Len(whole[n])
        BY <1>2, <1>11, <3>2, <3>3
      <4>2. whole[n][N].term = t
        BY <3>2, <3>3, <4>1, ViewReads
      <4>3. QED
        BY <2>1, <4>1, <4>2 DEF Has
    <3>5. Chosen(kept, t, N)
      <4> DEFINE R == {q \in Node : (IF q = n THEN Len(whole[n]) ELSE m2[q]) >= N}
      <4>1. ASSUME NEW q \in R PROVE <<q, t, N>> \in kept
        <5>1. q \in Node /\ (IF q = n THEN Len(whole[n]) ELSE m2[q]) \in Nat
              /\ (IF q = n THEN Len(whole[n]) ELSE m2[q]) >= N
          BY <1>2, <1>11
        <5>2. N \in 1 .. (IF q = n THEN Len(whole[n]) ELSE m2[q])
          BY <3>2, <3>3, <5>1
        <5>3. QED
          BY <2>6, <3>4, <5>1, <5>2
      <4>2. R \in SUBSET Node /\ Keepers(kept, t, N) \in SUBSET Node /\ R \subseteq Keepers(kept, t, N)
        BY <4>1 DEF Keepers
      <4>3. QED
        BY <2>8, <4>2, MajorityGrows DEF Chosen
    <3>6. /\ CommitIndex(n) <= N
          /\ Agree(whole[n], whole[n], CommitIndex(n)) /\ Agree(whole[n], lead[t], N)
      BY <1>11, <2>1, <3>2, <3>3 DEF Agree
    <3>7. /\ applied' \in [Node -> Seq(Command)]
          /\ CommitIndex(n)' = N
          /\ \A j \in 1 .. N : applied'[n][j] = whole[n][j].command
          /\ \A m \in Node : m # n => applied'[m] = applied[m] /\ log'[m] = log[m]
          /\ DOMAIN log' = Node
          /\ IsView(log'[n], whole[n]) /\ log'[n].lastIncludedIndex <= N
          /\ pending' \subseteq pending
          /\ \A r \in resolved' : r \in resolved \/ \E j \in 1 .. N : r[2] = whole[n][j].command
      <4>1. Logs(whole, lead, won) /\ pending \subseteq Node \X (Nat \ {0}) \X Command
        BY <1>0
      <4>2. N <= Len(whole[n]) /\ CommitIndex(n) <= N /\ Agree(whole[n], whole[n], CommitIndex(n))
        BY <3>2, <3>6
      <4>3. /\ IsView(log[n], whole[n]) /\ whole[n] \in Seq(LogEntry)
            /\ log[n].lastIncludedIndex <= CommitIndex(n)
        BY <3>3
      <4>4. PICK l, w : l = log[n] /\ w = whole[n]
        OBVIOUS
      <4>5. /\ ApplyCommitted(n, l, N) /\ w \in Seq(LogEntry)
            /\ IsView(l, w) /\ l.lastIncludedIndex <= CommitIndex(n)
            /\ N <= Len(w) /\ Agree(whole[n], w, CommitIndex(n))
        BY <3>1, <4>2, <4>3, <4>4
      <4>6. n \in Node /\ N \in Nat /\ CommitIndex(n) <= N
        BY <1>2, <4>2
      <4>7. /\ applied' \in [Node -> Seq(Command)]
            /\ CommitIndex(n)' = N
            /\ \A j \in 1 .. N : applied'[n][j] = w[j].command
            /\ \A m \in Node : m # n => applied'[m] = applied[m] /\ log'[m] = log[m]
            /\ DOMAIN log' = Node
            /\ IsView(log'[n], w) /\ log'[n].lastIncludedIndex <= N
            /\ pending' \subseteq pending
            /\ \A r \in resolved' : r \in resolved \/ \E j \in 1 .. N : r[2] = w[j].command
        BY <4>1, <4>5, <4>6, ApplyLog
      <4>8. QED
        BY <4>4, <4>7
    <3>8. PICK whole2 : whole2 = [whole EXCEPT ![n] = whole[n]]
      OBVIOUS
    <3>9. whole2 = whole
      BY <1>0, <3>8 DEF Logs
    <3>10. Stores(whole2, lead, won, kept)' /\ Progress(whole2, lead, kept)'
      <4>1. Leaderships(lead, won)' /\ Longer(lead, won, lead, won)
        BY <1>0, <1>3, LongerSelf DEF Leaderships
      <4>2. Stores(whole, lead, won, kept)'
        BY <1>0, <1>8, <4>1, StoresFrame
      <4>3. QED
        BY <2>4, <3>9, <4>2
    <3>11. StoredNow(kept, kept)
      BY DEF StoredNow
    <3>12. FromLeaders(lead, won, whole[n], currentTerm'[n])
      BY <1>13, <3>3
    <3>13. \E u, M \in Nat : /\ u <= currentTerm'[n] /\ N <= M
                             /\ Chosen(kept, u, M) /\ Agree(whole[n], lead[u], N)
      <4>1. t <= currentTerm'[n] /\ N <= N
        BY <1>2, <1>13, <2>1
      <4>2. QED
        BY <1>2, <3>5, <3>6, <4>1
    <3>14. LogInv(whole2, lead, won, cast, kept)'
      BY <1>2, <1>3, <1>4, <1>5, <1>6, <1>7, <3>2, <3>3, <3>6, <3>7, <3>8, <3>10, <3>11,
         <3>12, <3>13, LogStep
    <3>15. QED
      BY <3>9, <3>14
  <2>11. QED
    BY <2>9, <2>10
<1>14. QED
  <2>1. CASE UNCHANGED leaderVars /\ UNCHANGED <<log, applied, pending, resolved>>
    BY <1>9, <2>1
  <2>2. CASE ~(UNCHANGED leaderVars /\ UNCHANGED <<log, applied, pending, resolved>>)
    BY <1>1, <1>12, <1>13, <2>2 DEF AppendEntriesReply
  <2>3. QED
    BY <2>1, <2>2


-------------------------------------------------------------------------------
(* handle_append_entries.                                                    *)

\* A node that accepts the term of a call is not the leader of that term.
LEMMA ReceiverFollows ==
    ASSUME NEW whole, NEW lead, NEW won, NEW cast, NEW kept,
           ElectionTypeOK, LogInv(whole, lead, won, cast, kept),
           NEW c \in appendCalls, c.term >= currentTerm[c.to]
    PROVE  RoleAfter(c.to, c.term) # "leader"
<1>1. PICK n, m, t : n = c.to /\ m = c.from /\ t = c.term
  OBVIOUS
<1>2. n \in Node /\ m \in Node /\ t \in Nat /\ currentTerm[n] \in Nat
  BY <1>1 DEF ElectionTypeOK, IsAppendCall
<1>3. m # n /\ IsMajority(Voters(cast, m, t))
  BY <1>1 DEF LogInv, AppendCallOK
<1>4. ASSUME state[n] = "leader", currentTerm[n] = t PROVE FALSE
  <2>1. IsMajority(Voters(cast, n, t))
    BY <1>2, <1>4 DEF LogInv, Reigns
  <2>2. Voters(cast, m, t) \in SUBSET Node /\ Voters(cast, n, t) \in SUBSET Node
    BY DEF Voters
  <2>3. PICK v : v \in Voters(cast, m, t) /\ v \in Voters(cast, n, t)
    BY <1>3, <2>1, <2>2, MajoritiesIntersect
  <2>4. <<m, t, v>> \in cast /\ <<n, t, v>> \in cast
    BY <2>3 DEF Voters
  <2>5. \A a, b \in cast : a[2] = b[2] /\ a[3] = b[3] => a[1] = b[1]
    BY DEF LogInv, Votes
  <2>6. QED
    BY <1>3, <2>4, <2>5
<1>5. QED
  BY <1>1, <1>2, <1>4 DEF RoleAfter

\* A call that passes the consistency check fits the receiver's log: what is
\* in the snapshot was chosen, so the caller's log has it too, and past the
\* snapshot an entry of the same term means the same beginning.
LEMMA CallFits ==
    ASSUME NEW whole, NEW lead, NEW won, NEW cast, NEW kept,
           ElectionTypeOK, LogInv(whole, lead, won, cast, kept),
           NEW c \in appendCalls, c.term >= currentTerm[c.to],
           MatchLog(log[c.to], c.prevLogIndex, c.prevLogTerm),
           MergesAboveSnapshot(c)
    PROVE  Fits(log[c.to], whole[c.to], lead[c.term], c.prevLogIndex, c.entries)
<1>0. /\ Leaderships(lead, won) /\ Logs(whole, lead, won)
      /\ AppendCallOK(c, lead, won, cast, kept)
  BY DEF LogInv
<1>1. PICK n, t, l, F, T, p, es :
         /\ n = c.to /\ t = c.term /\ l = log[n] /\ F = whole[n] /\ T = lead[t]
         /\ p = c.prevLogIndex /\ es = c.entries
  OBVIOUS
<1>2. /\ n \in Node /\ t \in Nat /\ currentTerm[n] \in Nat /\ currentTerm[n] <= t
      /\ t \in won
  BY <1>0, <1>1 DEF ElectionTypeOK, IsAppendCall, AppendCallOK
<1>3. /\ F \in Seq(LogEntry) /\ T \in Seq(LogEntry) /\ IsView(l, F)
      /\ FromLeaders(lead, won, F, currentTerm[n]) /\ FromLeaders(lead, won, T, t)
  BY <1>0, <1>1, <1>2 DEF Logs, Leaderships
<1>4. /\ p \in Nat /\ es \in Seq(LogEntry) /\ p + Len(es) <= Len(T)
      /\ p > 0 => c.prevLogTerm = T[p].term
      /\ \A k \in 1 .. Len(es) : es[k] = T[p + k]
  BY <1>0, <1>1 DEF AppendCallOK
<1>5. /\ Len(F) \in Nat /\ Len(T) \in Nat /\ Len(es) \in Nat
      /\ l.lastIncludedIndex \in Nat /\ CommitIndex(n) \in Nat
      /\ l.lastIncludedIndex <= CommitIndex(n) /\ LogLen(l) = Len(F)
  <2>1. Len(F) \in Nat /\ Len(T) \in Nat /\ Len(es) \in Nat
    BY <1>3, <1>4, LenProperties
  <2>2. QED
    BY <2>1, <1>0, <1>1, <1>2, HeldEntries
<1>6. Agree(F, T, CommitIndex(n))
  BY <1>1, <1>2, CommittedIsLead
<1>7. Agree(F, T, l.lastIncludedIndex)
  BY <1>5, <1>6 DEF Agree
<1>8. \A i \in 1 .. Len(F) : i <= Len(T) /\ F[i].term = T[i].term => Agree(F, T, i)
  <2> SUFFICES ASSUME NEW i \in 1 .. Len(F), i <= Len(T), F[i].term = T[i].term
               PROVE  Agree(F, T, i)
    OBVIOUS
  <2>1. i \in Nat /\ i \in 1 .. Len(T)
    BY <1>5
  <2>2. QED
    BY <1>3, <2>1, SameTermSameLog
<1>9. Agree(F, T, p)
  <2>1. CASE p = 0
    BY <1>5, <2>1 DEF Agree
  <2>2. CASE p \in 1 .. l.lastIncludedIndex
    BY <1>5, <1>7, <2>2 DEF Agree
  <2>3. CASE p > l.lastIncludedIndex
    <3>1. p <= Len(F) /\ GetTerm(l, p) = T[p].term
      BY <1>1, <1>4, <1>5, <2>3 DEF MatchLog
    <3>2. p \in l.lastIncludedIndex + 1 .. Len(F)
      BY <1>4, <1>5, <2>3, <3>1
    <3>3. GetTerm(l, p) = F[p].term
      BY <1>3, <3>2, ViewReads
    <3>4. p \in 1 .. Len(F) /\ p <= Len(T)
      BY <1>4, <1>5, <3>2
    <3>5. QED
      BY <1>8, <3>1, <3>3, <3>4
  <2>4. QED
    BY <1>4, <1>5, <2>1, <2>2, <2>3
<1>10. \A k \in 1 .. Len(es) :
          p + k <= l.lastIncludedIndex => es[k].term = l.lastIncludedTerm
  BY <1>1 DEF MergesAboveSnapshot
<1>11. Fits(l, F, T, p, es)
  BY <1>3, <1>4, <1>7, <1>8, <1>9, <1>10 DEF Fits
<1>12. QED
  BY <1>1, <1>11

\* w is the whole log of a node that had F and merged T up to index i.
WholeMerged(w, F, T, i) ==
    \/ w = F /\ Agree(F, T, i)
    \/ w = SubSeq(T, 1, i) /\ ~Agree(F, T, i)

\* The merged log: its view, what it agrees with, and that nothing applied is lost.
LEMMA MergedLog ==
    ASSUME NEW l, NEW F, NEW T, NEW prev, NEW es, Fits(l, F, T, prev, es),
           NEW ci \in Nat, l.lastIncludedIndex <= ci, Agree(F, T, ci)
    PROVE  \E w \in Seq(LogEntry) :
              /\ WholeMerged(w, F, T, prev + Len(es))
              /\ IsView(MergeEntries(l, prev, es), w)
              /\ MergeEntries(l, prev, es).lastIncludedIndex = l.lastIncludedIndex
              /\ Agree(w, T, prev + Len(es))
              /\ Agree(F, w, ci)
              /\ Len(w) \in Nat /\ prev + Len(es) <= Len(w)
<1>1. PICK m, i : m = MergeEntries(l, prev, es) /\ i = prev + Len(es)
  OBVIOUS
<1>2. /\ F \in Seq(LogEntry) /\ T \in Seq(LogEntry) /\ IsView(l, F)
      /\ Len(F) \in Nat /\ Len(T) \in Nat /\ i \in Nat /\ i <= Len(T)
  BY <1>1 DEF Fits
<1>3. Merged(m, l, F, T, i)
  BY <1>1, MergeAll
<1>4. CASE m = l /\ Agree(F, T, i)
  <2>1. Agree(F, F, ci) /\ i <= Len(F)
    BY <1>4 DEF Agree
  <2>2. WholeMerged(F, F, T, i)
    BY <1>4 DEF WholeMerged
  <2>3. QED
    BY <1>1, <1>2, <1>4, <2>1, <2>2
<1>5. CASE /\ IsView(m, SubSeq(T, 1, i)) /\ m.lastIncludedIndex = l.lastIncludedIndex
           /\ ~Agree(F, T, i)
  <2>1. i \in 0 .. Len(T)
    BY <1>2
  <2>2. PICK w : w = SubSeq(T, 1, i)
    OBVIOUS
  <2>3. /\ w \in Seq(LogEntry) /\ Len(w) = i
        /\ \A j \in 1 .. i : w[j] = T[j]
    BY <1>2, <2>1, <2>2, Slices
  <2>4. ci < i
    BY <1>2, <1>5 DEF Agree
  <2>5. Agree(w, T, i) /\ Agree(F, w, ci)
    BY <1>2, <2>3, <2>4 DEF Agree
  <2>6. WholeMerged(w, F, T, i)
    BY <1>5, <2>2 DEF WholeMerged
  <2>7. /\ w \in Seq(LogEntry) /\ Len(w) \in Nat /\ i <= Len(w)
        /\ IsView(m, w) /\ m.lastIncludedIndex = l.lastIncludedIndex
    BY <1>2, <1>5, <2>2, <2>3
  <2>8. QED
    BY <1>1, <2>5, <2>6, <2>7
<1>6. QED
  BY <1>3, <1>4, <1>5 DEF Merged

\* What node n has stored of the leader of term t once it has its log up to i.
StoredFor(lead, n, t, i) == {k \in {n} \X {t} \X (1 .. i) : Has(lead[t], t, k[3])}

\* Whatever a merge removes from a log, the log of the call's term lacks.
LEMMA StoresMerged ==
    ASSUME NEW whole, NEW lead, NEW won, NEW kept,
           ElectionTypeOK, ElectionTypeOK', TermsRise,
           Leaderships(lead, won), Logs(whole, lead, won), Stores(whole, lead, won, kept),
           NEW n \in Node, NEW t \in won, NEW i \in Nat, NEW w, NEW whole2, NEW kept2,
           i <= Len(lead[t]), WholeMerged(w, whole[n], lead[t], i), Agree(w, lead[t], i),
           whole2 = [whole EXCEPT ![n] = w],
           currentTerm[n] <= t, currentTerm'[n] = t,
           kept2 = kept \cup StoredFor(lead, n, t, i)
    PROVE  Stores(whole2, lead, won, kept2)'
<1>1. PICK F, T : F = whole[n] /\ T = lead[t]
  OBVIOUS
<1>2. /\ won \subseteq Nat /\ t \in Nat
      /\ F \in Seq(LogEntry) /\ T \in Seq(LogEntry)
      /\ Len(F) \in Nat /\ Len(T) \in Nat /\ i <= Len(T)
      /\ FromLeaders(lead, won, F, currentTerm[n]) /\ FromLeaders(lead, won, T, t)
  <2>1. /\ won \subseteq Nat /\ t \in Nat
        /\ F \in Seq(LogEntry) /\ T \in Seq(LogEntry)
        /\ FromLeaders(lead, won, F, currentTerm[n]) /\ FromLeaders(lead, won, T, t)
    BY <1>1 DEF Leaderships, Logs
  <2>2. QED
    BY <1>1, <2>1, LenProperties
<1>3. /\ whole2[n] = w
      /\ \A m \in Node : m # n => whole2[m] = whole[m]
  BY DEF Logs
<1>4. \A m \in Node : currentTerm[m] \in Nat /\ currentTerm'[m] \in Nat
                      /\ currentTerm[m] <= currentTerm'[m]
  BY DEF ElectionTypeOK, TermsRise
<1>5. kept2 \subseteq Node \X Nat \X Nat
  BY <1>2 DEF Stores, StoredFor
<1>6. ASSUME NEW k \in kept2
      PROVE  /\ Has(lead[k[2]], k[2], k[3])
             /\ k[2] <= currentTerm'[k[1]]
             /\ \/ Has(whole2[k[1]], k[2], k[3])
                \/ Displaced(lead, won, k[2], k[3], currentTerm'[k[1]] + 1)
  <2>1. PICK v \in Node, u \in Nat, j \in Nat : v = k[1] /\ u = k[2] /\ j = k[3]
    BY <1>5
  <2>2. CASE k \notin kept
    <3>1. v = n /\ u = t /\ j \in 1 .. i /\ Has(T, t, j)
      BY <1>1, <2>1, <2>2 DEF StoredFor
    <3>2. Has(w, t, j)
      BY <1>1, <1>2, <3>1 DEF Agree, Has
    <3>3. QED
      BY <1>1, <1>2, <1>3, <2>1, <3>1, <3>2
  <2>3. CASE k \in kept
    <3>1. /\ Has(lead[u], u, j) /\ u <= currentTerm[v]
          /\ \/ Has(whole[v], u, j)
             \/ Displaced(lead, won, u, j, currentTerm[v] + 1)
      BY <2>1, <2>3 DEF Stores
    <3>2. u <= currentTerm'[v]
      BY <1>4, <3>1
    <3>3. CASE Displaced(lead, won, u, j, currentTerm[v] + 1)
      <4>1. PICK x \in won : u < x /\ x < currentTerm[v] + 1 /\ ~Has(lead[x], u, j)
        BY <3>3 DEF Displaced
      <4>2. x < currentTerm'[v] + 1
        BY <1>2, <1>4, <4>1
      <4>3. Displaced(lead, won, u, j, currentTerm'[v] + 1)
        BY <4>1, <4>2 DEF Displaced
      <4>4. QED
        BY <2>1, <3>1, <3>2, <4>3
    <3>4. CASE Has(whole[v], u, j) /\ v # n
      BY <1>3, <2>1, <3>1, <3>2, <3>4
    <3>5. CASE Has(F, u, j) /\ v = n
      <4>1. CASE w = F
        BY <1>3, <2>1, <3>1, <3>2, <3>5, <4>1
      <4>2. CASE ~Agree(F, T, i) /\ Has(T, u, j)
        <5>1. j \in 1 .. Len(F) /\ j \in 1 .. Len(T) /\ F[j].term = T[j].term
          BY <3>5, <4>2 DEF Has
        <5>2. Agree(F, T, j)
          BY <1>2, <5>1, SameTermSameLog
        <5>3. j \in 1 .. i
          BY <1>2, <4>2, <5>1, <5>2 DEF Agree
        <5>4. Has(w, u, j)
          BY <1>1, <1>2, <4>2, <5>3 DEF Agree, Has
        <5>5. QED
          BY <1>3, <2>1, <3>1, <3>2, <3>5, <5>4
      <4>3. CASE ~Has(T, u, j)
        <5>1. u # t
          BY <1>1, <3>1, <4>3
        <5>2. u < t /\ t < currentTerm'[n] + 1
          BY <1>2, <1>4, <3>1, <3>5, <5>1
        <5>3. Displaced(lead, won, u, j, currentTerm'[n] + 1)
          BY <1>1, <4>3, <5>2 DEF Displaced
        <5>4. QED
          BY <2>1, <3>1, <3>2, <3>5, <5>3
      <4>4. QED
        BY <1>1, <4>1, <4>2, <4>3 DEF WholeMerged
    <3>6. QED
      BY <1>1, <3>1, <3>3, <3>4, <3>5
  <2>4. QED
    BY <2>2, <2>3
<1>7. QED
  BY <1>5, <1>6 DEF Stores, Displaced

\* handle_append_entries refuses: nothing but the term changes.
LEMMA AppendRefusedLog ==
    ASSUME NEW whole, NEW lead, NEW won, NEW cast, NEW kept,
           ElectionTypeOK, ElectionTypeOK', LogInv(whole, lead, won, cast, kept),
           NEW c \in appendCalls, HandleAppendEntries(c), Subsides,
           NEW t \in Nat, AnswerAppend(c, t, FALSE),
           UNCHANGED <<log, applied, pending, resolved>>
    PROVE  LogInv(whole, lead, won, cast, kept)'
<1>1. /\ UNCHANGED <<submitted, nextIndex, matchIndex, voteCalls, votesReceived>>
      /\ c.stage # "answered"
  BY DEF HandleAppendEntries, leaderVars
<1>2. Ballots' \subseteq Ballots
  BY <1>1 DEF Ballots
<1>3. \A d \in voteCalls' : \E e \in voteCalls : SameVoteCall(d, e)
  BY <1>1, SameCalls DEF LogInv
<1>4. \A d \in appendCalls' : \E e \in appendCalls : SameAppendCall(d, e, lead, kept)
  BY <1>1, AnsweredCalls DEF LogInv, ElectionTypeOK
<1>5. [Next]_vars
  BY DEF Next
<1>6. QED
  BY <1>1, <1>2, <1>3, <1>4, <1>5, SettledStep

\* handle_append_entries accepts: the receiver's log becomes that of the term's
\* leader up to the last entry sent, unless it was already longer than that,
\* and what it stores counts towards the majority.
LEMMA AppendAcceptedLog ==
    ASSUME NEW whole, NEW lead, NEW won, NEW cast, NEW kept,
           ElectionTypeOK, ElectionTypeOK', LogInv(whole, lead, won, cast, kept),
           NEW c \in appendCalls, HandleAppendEntries(c), MergesAboveSnapshot(c),
           c.term >= currentTerm[c.to],
           currentTerm' = [currentTerm EXCEPT ![c.to] = TermAfter(c.to, c.term)],
           state' = [state EXCEPT ![c.to] = RoleAfter(c.to, c.term)],
           MatchLog(log[c.to], c.prevLogIndex, c.prevLogTerm),
           AnswerAppend(c, c.term, TRUE),
           IF c.leaderCommit > CommitIndex(c.to)
           THEN ApplyCommitted(c.to, MergeEntries(log[c.to], c.prevLogIndex, c.entries),
                    Min({c.leaderCommit,
                         LogLen(MergeEntries(log[c.to], c.prevLogIndex, c.entries))}))
           ELSE /\ log' = [log EXCEPT ![c.to] =
                              MergeEntries(log[c.to], c.prevLogIndex, c.entries)]
                /\ UNCHANGED <<applied, pending, resolved>>
    PROVE  LogHistory'
<1>0. /\ Leaderships(lead, won) /\ Logs(whole, lead, won)
      /\ Progress(whole, lead, kept) /\ Stores(whole, lead, won, kept)
      /\ Winners(lead, won, cast, kept)
      /\ AppendCallOK(c, lead, won, cast, kept)
      /\ \A e \in voteCalls : VoteCallOK(e, whole, won)
      /\ \A e \in appendCalls : AppendCallOK(e, lead, won, cast, kept)
      /\ pending \subseteq Node \X (Nat \ {0}) \X Command
  BY DEF LogInv
<1>1. PICK n, t, F, T, p, es, i :
         /\ n = c.to /\ t = c.term /\ F = whole[n] /\ T = lead[t]
         /\ p = c.prevLogIndex /\ es = c.entries /\ i = p + Len(es)
  OBVIOUS
<1>2. /\ n \in Node /\ t \in Nat /\ currentTerm[n] \in Nat /\ currentTerm[n] <= t
      /\ t \in won /\ IsAppendCall(c) /\ c.stage # "answered"
  BY <1>0, <1>1 DEF ElectionTypeOK, IsAppendCall, AppendCallOK, HandleAppendEntries
<1>3. /\ F \in Seq(LogEntry) /\ T \in Seq(LogEntry) /\ Len(F) \in Nat /\ Len(T) \in Nat
      /\ FromLeaders(lead, won, F, currentTerm[n]) /\ FromLeaders(lead, won, T, t)
      /\ CommitIndex(n) \in Nat /\ CommitIndex(n) <= Len(F)
      /\ log[n].lastIncludedIndex \in Nat
      /\ log[n].lastIncludedIndex <= CommitIndex(n)
  <2>1. /\ T \in Seq(LogEntry) /\ FromLeaders(lead, won, T, t)
        /\ FromLeaders(lead, won, F, currentTerm[n])
    BY <1>0, <1>1, <1>2 DEF Leaderships, Logs
  <2>2. QED
    BY <1>0, <1>1, <1>2, <2>1, HeldEntries
<1>4. /\ i \in Nat /\ i <= Len(T)
      /\ c.leaderCommit \in Nat /\ c.leaderCommit <= i
      /\ Committed(kept, t, c.leaderCommit)
  BY <1>0, <1>1, LenProperties DEF AppendCallOK
<1>5. PICK m, l : m = MergeEntries(log[n], p, es) /\ l = log[n]
  OBVIOUS
<1>6. Fits(l, F, T, p, es)
  BY <1>1, <1>5, CallFits
<1>7. Agree(F, T, CommitIndex(n))
  BY <1>1, <1>2, CommittedIsLead
<1>8. PICK w \in Seq(LogEntry) :
         /\ WholeMerged(w, F, T, i)
         /\ IsView(m, w)
         /\ m.lastIncludedIndex = l.lastIncludedIndex
         /\ Agree(w, T, i)
         /\ Agree(F, w, CommitIndex(n))
         /\ Len(w) \in Nat /\ i <= Len(w)
  <2>1. PICK ci \in Nat : ci = CommitIndex(n)
    BY <1>3
  <2>2. l.lastIncludedIndex <= ci /\ Agree(F, T, ci)
    BY <1>3, <1>5, <1>7, <2>1
  <2>3. \E w \in Seq(LogEntry) :
              /\ WholeMerged(w, F, T, p + Len(es))
              /\ IsView(MergeEntries(l, p, es), w)
              /\ MergeEntries(l, p, es).lastIncludedIndex = l.lastIncludedIndex
              /\ Agree(w, T, p + Len(es))
              /\ Agree(F, w, ci)
              /\ Len(w) \in Nat /\ p + Len(es) <= Len(w)
    BY <1>6, <2>2, MergedLog
  <2>4. QED
    BY <1>1, <1>5, <2>1, <2>3
<1>9. /\ currentTerm'[n] = t /\ state'[n] # "leader"
      /\ Subsides
      /\ TermsRise /\ LeadersStay
  <2>1. currentTerm'[n] = TermAfter(n, t) /\ state'[n] = RoleAfter(n, t)
    BY <1>1, <1>2 DEF ElectionTypeOK
  <2>2. TermAfter(n, t) = t
    BY <1>2 DEF TermAfter
  <2>3. RoleAfter(n, t) # "leader"
    BY <1>1, ReceiverFollows
  <2>4. Subsides
    BY <1>1, <1>2, FallingBack
  <2>5. QED
    BY <2>1, <2>2, <2>3, <2>4, SubsidesMeans
<1>10. PICK whole2, kept2 :
          /\ whole2 = [whole EXCEPT ![n] = w]
          /\ kept2 = kept \cup StoredFor(lead, n, t, i)
  OBVIOUS
<1>11. Stores(whole2, lead, won, kept2)'
  <2>1. Leaderships(lead, won) /\ Logs(whole, lead, won) /\ Stores(whole, lead, won, kept)
    BY <1>0
  <2>2. /\ i \in Nat /\ i <= Len(lead[t])
        /\ WholeMerged(w, whole[n], lead[t], i) /\ Agree(w, lead[t], i)
    BY <1>1, <1>4, <1>8
  <2>3. n \in Node /\ t \in won /\ currentTerm[n] <= t /\ currentTerm'[n] = t /\ TermsRise
    BY <1>2, <1>9
  <2>4. QED
    BY <1>10, <2>1, <2>2, <2>3, StoresMerged
<1>12. StoredNow(kept, kept2)
  BY <1>2, <1>10 DEF StoredNow, StoredFor
<1>13. /\ UNCHANGED <<submitted, nextIndex, matchIndex, voteCalls, votesReceived>>
       /\ Ballots' \subseteq Ballots
  BY DEF HandleAppendEntries, leaderVars, Ballots
<1>14. Progress(whole2, lead, kept2)'
  <2>1. \A q \in Node : state'[q] = "leader" => whole2[q] = whole[q]
    BY <1>0, <1>9, <1>10 DEF Logs
  <2>2. kept \subseteq kept2
    BY <1>10
  <2>3. QED
    BY <1>0, <1>9, <1>13, <2>1, <2>2, ProgressFrame
<1>15. \A d \in voteCalls' : \E e \in voteCalls : SameVoteCall(d, e)
  BY <1>0, <1>13, SameCalls
<1>16. \A d \in appendCalls' : \E e \in appendCalls : SameAppendCall(d, e, lead, kept2)
  <2>1. \A j \in 1 .. c.prevLogIndex + Len(c.entries) :
           Has(lead[c.term], c.term, j) => <<c.to, c.term, j>> \in kept2
    BY <1>1, <1>10 DEF StoredFor
  <2>2. QED
    BY <1>0, <1>1, <1>2, <2>1, AnsweredCalls
<1>17. FromLeaders(lead, won, w, currentTerm'[n])
  <2>1. CASE w = F
    <3>1. won \subseteq Nat
      BY <1>0 DEF Leaderships
    <3>2. ASSUME NEW j \in 1 .. Len(F)
          PROVE  F[j].term \in won /\ F[j].term <= t /\ Agree(F, lead[F[j].term], j)
      <4>1. /\ F[j].term \in won /\ F[j].term <= currentTerm[n]
            /\ Agree(F, lead[F[j].term], j)
        BY <1>3 DEF FromLeaders
      <4>2. F[j].term \in Nat
        BY <3>1, <4>1
      <4>3. QED
        BY <1>2, <4>1, <4>2
    <3>3. QED
      BY <1>9, <2>1, <3>2 DEF FromLeaders
  <2>2. CASE w = SubSeq(T, 1, i)
    <3>1. i \in 0 .. Len(T)
      BY <1>3, <1>4
    <3>2. Len(w) = i /\ \A j \in 1 .. i : w[j] = T[j]
      BY <1>3, <2>2, <3>1, Slices
    <3>3. ASSUME NEW j \in 1 .. i
          PROVE  w[j].term \in won /\ w[j].term <= t /\ Agree(w, lead[w[j].term], j)
      <4>1. j \in 1 .. Len(T) /\ w[j] = T[j]
        BY <1>3, <1>4, <3>2
      <4>2. w[j].term \in won /\ w[j].term <= t /\ Agree(T, lead[w[j].term], j)
        BY <1>3, <4>1 DEF FromLeaders
      <4>3. Agree(w, lead[w[j].term], j)
        BY <1>4, <3>2, <4>2 DEF Agree
      <4>4. QED
        BY <4>2, <4>3
    <3>4. QED
      BY <1>9, <3>2, <3>3 DEF FromLeaders
  <2>3. QED
    BY <1>8, <2>1, <2>2 DEF WholeMerged
<1>18. LogLen(m) = Len(w)
  BY <1>8, ViewReads
<1>19. PICK cc \in Nat :
          /\ CommitIndex(n) <= cc /\ cc <= Len(w)
          /\ applied' \in [Node -> Seq(Command)]
          /\ \A q \in Node : q # n => applied'[q] = applied[q] /\ log'[q] = log[q]
          /\ DOMAIN log' = Node /\ IsView(log'[n], w) /\ log'[n].lastIncludedIndex <= cc
          /\ CommitIndex(n)' = cc
          /\ \A j \in 1 .. cc : applied'[n][j] = w[j].command
          /\ pending' \subseteq pending
          /\ \A r \in resolved' : r \in resolved \/ \E j \in 1 .. cc : r[2] = w[j].command
          /\ \/ cc = CommitIndex(n)
             \/ \E u, N \in Nat : /\ u <= currentTerm'[n] /\ cc <= N
                                  /\ Chosen(kept2, u, N) /\ Agree(w, lead[u], cc)
  <2>1. CASE c.leaderCommit > CommitIndex(n)
    <3>1. PICK cc, L \in Nat : cc = c.leaderCommit /\ L = Len(w)
      BY <1>4, <1>8
    <3>2. Min({cc, L}) = cc /\ CommitIndex(n) < cc /\ cc <= Len(w) /\ cc <= i
      <4>1. Min({cc, L}) = IF cc <= L THEN cc ELSE L
        BY TwoNumbers
      <4>2. CommitIndex(n) < cc /\ cc <= i
        BY <1>3, <1>4, <2>1, <3>1
      <4>3. cc <= L
        BY <1>4, <1>8, <3>1, <4>2
      <4>4. QED
        BY <3>1, <4>1, <4>2, <4>3
    <3>3. ApplyCommitted(n, m, cc)
      BY <1>1, <1>5, <1>18, <2>1, <3>1, <3>2
    <3>4. /\ applied' \in [Node -> Seq(Command)]
          /\ CommitIndex(n)' = cc
          /\ \A j \in 1 .. cc : applied'[n][j] = w[j].command
          /\ \A q \in Node : q # n => applied'[q] = applied[q] /\ log'[q] = log[q]
          /\ DOMAIN log' = Node
          /\ IsView(log'[n], w) /\ log'[n].lastIncludedIndex <= cc
          /\ pending' \subseteq pending
          /\ \A r \in resolved' : r \in resolved \/ \E j \in 1 .. cc : r[2] = w[j].command
      <4>1. Logs(whole, lead, won) /\ pending \subseteq Node \X (Nat \ {0}) \X Command
        BY <1>0
      <4>2. /\ IsView(m, w) /\ m.lastIncludedIndex <= CommitIndex(n)
            /\ CommitIndex(n) <= cc /\ cc <= Len(w)
            /\ Agree(whole[n], w, CommitIndex(n))
        BY <1>1, <1>3, <1>5, <1>8, <3>1, <3>2
      <4>3. QED
        BY <1>2, <3>3, <4>1, <4>2, ApplyLog
    <3>5. PICK u \in Nat, N \in Nat : u <= t /\ cc <= N /\ Chosen(kept, u, N)
      BY <1>3, <1>4, <3>1, <3>2 DEF Committed
    <3>6. Chosen(kept2, u, N)
      BY <1>10, <3>5, ChosenGrows
    <3>7. Has(lead[t], u, N)
      BY <1>0, <1>2, <3>5, ChosenStays
    <3>8. Agree(T, lead[u], N)
      BY <1>0, <1>1, <1>2, <3>5, <3>7, HasAgrees
    <3>9. \A j \in 1 .. cc : j \in 1 .. i /\ j \in 1 .. N
      BY <1>4, <3>1, <3>2, <3>5
    <3>10. Agree(w, lead[u], cc)
      <4>1. \A j \in 1 .. cc : w[j] = lead[u][j]
        BY <1>8, <3>8, <3>9 DEF Agree
      <4>2. cc <= Len(lead[u])
        <5>1. N <= Len(lead[u]) /\ lead[u] \in Seq(LogEntry)
          BY <1>0, <3>5, <3>8 DEF Agree, Leaderships
        <5>2. Len(lead[u]) \in Nat
          BY <5>1, LenProperties
        <5>3. QED
          BY <3>5, <5>1, <5>2
      <4>3. QED
        BY <3>2, <4>1, <4>2 DEF Agree
    <3>11. u <= currentTerm'[n] /\ CommitIndex(n) <= cc /\ cc <= Len(w)
      BY <1>3, <1>9, <3>1, <3>2, <3>5
    <3>12. \E x, N2 \in Nat : /\ x <= currentTerm'[n] /\ cc <= N2
                              /\ Chosen(kept2, x, N2) /\ Agree(w, lead[x], cc)
      BY <3>5, <3>6, <3>10, <3>11
    <3>13. QED
      BY <3>4, <3>11, <3>12
  <2>2. CASE ~(c.leaderCommit > CommitIndex(n))
    <3>1. log' = [log EXCEPT ![n] = m] /\ UNCHANGED <<applied, pending, resolved>>
      BY <1>1, <1>5, <2>2
    <3>2. PICK cc \in Nat : cc = CommitIndex(n)
      BY <1>3
    <3>3. CommitIndex(n)' = cc
      BY <3>1, <3>2 DEF CommitIndex
    <3>4. /\ applied' \in [Node -> Seq(Command)]
          /\ \A q \in Node : q # n => applied'[q] = applied[q] /\ log'[q] = log[q]
          /\ DOMAIN log' = Node /\ log'[n] = m
          /\ pending' \subseteq pending
          /\ resolved' = resolved
      BY <1>0, <1>2, <3>1 DEF Logs
    <3>5. cc <= Len(w) /\ \A j \in 1 .. cc : applied[n][j] = w[j].command
      <4>1. \A j \in 1 .. cc : applied[n][j] = F[j].command /\ F[j] = w[j]
        BY <1>0, <1>1, <1>2, <1>8, <3>2, HeldEntries DEF Agree
      <4>2. cc <= Len(w)
        BY <1>8, <3>2 DEF Agree
      <4>3. QED
        BY <4>1, <4>2
    <3>6. IsView(log'[n], w) /\ log'[n].lastIncludedIndex <= cc
      BY <1>3, <1>5, <1>8, <3>2, <3>4
    <3>7. QED
      BY <1>3, <3>1, <3>2, <3>3, <3>4, <3>5, <3>6
  <2>3. QED
    BY <2>1, <2>2
<1>20. [Next]_vars
  BY DEF Next
<1>21. Agree(whole[n], w, CommitIndex(n)) /\ t \in won
  BY <1>1, <1>2, <1>8
<1>22. LogInv(whole2, lead, won, cast, kept2)'
  <2>1. /\ n \in Node /\ Subsides /\ submitted' = submitted /\ Ballots' \subseteq Ballots
        /\ state'[n] = "leader" => w = whole[n]
        /\ state'[n] = "candidate" /\ currentTerm'[n] \notin won => w = whole[n]
    BY <1>2, <1>9, <1>13, <1>21
  <2>2. whole2 = [whole EXCEPT ![n] = w] /\ Agree(whole[n], w, CommitIndex(n))
    BY <1>10, <1>21
  <2>3. QED
    BY <1>11, <1>12, <1>14, <1>15, <1>16, <1>17, <1>19, <1>20, <2>1, <2>2, LogStep, ZenonT(30)
<1>23. QED
  BY <1>22 DEF LogHistory

LEMMA HandleAppendEntriesLog ==
    ASSUME NEW whole, NEW lead, NEW won, NEW cast, NEW kept,
           ElectionTypeOK, ElectionTypeOK', LogInv(whole, lead, won, cast, kept),
           NEW c \in appendCalls, HandleAppendEntries(c), MergesAboveSnapshot(c)
    PROVE  LogHistory'
<1>1. c.to \in Node /\ c.term \in Nat /\ currentTerm[c.to] \in Nat
  BY DEF ElectionTypeOK, IsAppendCall
<1>2. CASE /\ AnswerAppend(c, currentTerm[c.to], FALSE)
           /\ UNCHANGED <<currentTerm, state, log, applied, pending, resolved>>
  <2>1. Subsides
    BY <1>2, FallingBack
  <2>2. LogInv(whole, lead, won, cast, kept)'
    BY <1>1, <1>2, <2>1, AppendRefusedLog
  <2>3. QED
    BY <2>2 DEF LogHistory
<1>3. CASE /\ currentTerm' = [currentTerm EXCEPT ![c.to] = TermAfter(c.to, c.term)]
           /\ state' = [state EXCEPT ![c.to] = RoleAfter(c.to, c.term)]
           /\ AnswerAppend(c, c.term, FALSE)
           /\ UNCHANGED <<log, applied, pending, resolved>>
  <2>1. Subsides
    BY <1>1, <1>3, FallingBack
  <2>2. LogInv(whole, lead, won, cast, kept)'
    BY <1>1, <1>3, <2>1, AppendRefusedLog
  <2>3. QED
    BY <2>2 DEF LogHistory
<1>4. CASE /\ c.term >= currentTerm[c.to]
           /\ currentTerm' = [currentTerm EXCEPT ![c.to] = TermAfter(c.to, c.term)]
           /\ state' = [state EXCEPT ![c.to] = RoleAfter(c.to, c.term)]
           /\ MatchLog(log[c.to], c.prevLogIndex, c.prevLogTerm)
           /\ AnswerAppend(c, c.term, TRUE)
           /\ IF c.leaderCommit > CommitIndex(c.to)
              THEN ApplyCommitted(c.to, MergeEntries(log[c.to], c.prevLogIndex, c.entries),
                       Min({c.leaderCommit,
                            LogLen(MergeEntries(log[c.to], c.prevLogIndex, c.entries))}))
              ELSE /\ log' = [log EXCEPT ![c.to] =
                                 MergeEntries(log[c.to], c.prevLogIndex, c.entries)]
                   /\ UNCHANGED <<applied, pending, resolved>>
  BY <1>4, AppendAcceptedLog
<1>5. QED
  BY <1>2, <1>3, <1>4 DEF HandleAppendEntries

-------------------------------------------------------------------------------
(* submit_command, restarts, and the theorems.                               *)

\* Two leaders never share a term.
LEMMA OneLeader ==
    ASSUME NEW whole, NEW lead, NEW won, NEW cast,
           Reigns(whole, lead, won, cast), Votes(cast),
           NEW m \in Node, NEW n \in Node, state[m] = "leader", state[n] = "leader",
           currentTerm[m] = currentTerm[n]
    PROVE  m = n
<1>1. PICK t : t = currentTerm[n]
  OBVIOUS
<1>2. IsMajority(Voters(cast, m, t)) /\ IsMajority(Voters(cast, n, t))
  BY <1>1 DEF Reigns
<1>3. Voters(cast, m, t) \in SUBSET Node /\ Voters(cast, n, t) \in SUBSET Node
  BY DEF Voters
<1>4. PICK v : v \in Voters(cast, m, t) /\ v \in Voters(cast, n, t)
  BY <1>2, <1>3, MajoritiesIntersect
<1>5. <<m, t, v>> \in cast /\ <<n, t, v>> \in cast
  BY <1>4 DEF Voters
<1>6. QED
  BY <1>5 DEF Votes

\* A leader's log grows by an entry of its term with a command that is new.
LEMMA LeadGrows ==
    ASSUME NEW lead, NEW won, Leaderships(lead, won),
           NEW t \in won, NEW e \in LogEntry, e.term = t, e.command \notin submitted,
           NEW lead2, lead2 = [lead EXCEPT ![t] = Append(@, e)],
           submitted' = submitted \cup {e.command}
    PROVE  Leaderships(lead2, won)' /\ Longer(lead, won, lead2, won)
<1>1. /\ lead \in [Nat -> Seq(LogEntry)] /\ won \subseteq Nat /\ t \in Nat
      /\ \A s \in won : FromLeaders(lead, won, lead[s], s)
  BY DEF Leaderships
<1>2. PICK T, i : T = lead[t] /\ i = Len(T) + 1
  OBVIOUS
<1>3. /\ T \in Seq(LogEntry) /\ Len(T) \in Nat /\ i \in Nat
      /\ \A s \in Nat : Len(lead[s]) \in Nat
  <2>1. T \in Seq(LogEntry) /\ \A s \in Nat : lead[s] \in Seq(LogEntry)
    BY <1>1, <1>2
  <2>2. QED
    BY <1>2, <2>1, LenProperties
<1>4. /\ lead2[t] \in Seq(LogEntry) /\ Len(lead2[t]) = i
      /\ \A j \in 1 .. Len(T) : lead2[t][j] = T[j]
      /\ lead2[t][i] = e
  <2>1. lead2[t] = Append(T, e)
    BY <1>1, <1>2
  <2>2. QED
    BY <1>2, <1>3, <2>1, Appended
<1>5. \A s \in Nat : s # t => lead2[s] = lead[s]
  BY <1>1
<1>6. lead2 \in [Nat -> Seq(LogEntry)]
  <2>1. \A s \in Nat : lead2[s] \in Seq(LogEntry)
    BY <1>1, <1>4, <1>5
  <2>2. QED
    BY <1>1, <2>1
<1>7. ASSUME NEW s \in Nat, NEW j \in 1 .. Len(lead2[s])
      PROVE  \/ s = t /\ j = i /\ lead2[s][j] = e
             \/ j \in 1 .. Len(lead[s]) /\ lead2[s][j] = lead[s][j]
  BY <1>2, <1>3, <1>4, <1>5
<1>8. ASSUME NEW s \in Nat
      PROVE  /\ Agree(lead[s], lead2[s], Len(lead[s]))
             /\ \A j \in Len(lead[s]) + 1 .. Len(lead2[s]) : lead2[s][j].term = s
  BY <1>2, <1>3, <1>4, <1>5 DEF Agree
<1>9. Longer(lead, won, lead2, won)
  BY <1>1, <1>8 DEF Longer
<1>10. ASSUME NEW a, NEW b \in Nat, NEW s \in Nat, NEW j \in Nat,
              Agree(a, lead[s], j), NEW x, Agree(lead[b], x, Len(lead[b])), a = lead[b]
       PROVE  Agree(x, lead2[s], j)
  <2>1. Agree(lead[s], lead2[s], Len(lead[s])) /\ Len(lead[s]) \in Nat /\ Len(a) \in Nat
    BY <1>3, <1>8, <1>10
  <2>2. j <= Len(a) /\ j <= Len(lead[s]) /\ Agree(a, x, Len(a)) /\ Agree(lead[s], a, j)
    BY <1>10 DEF Agree
  <2>3. Agree(x, lead[s], j)
    BY <2>1, <2>2, AgreeChains
  <2>4. QED
    BY <2>1, <2>2, <2>3, AgreeChains
<1>11. ASSUME NEW s \in won PROVE FromLeaders(lead2, won, lead2[s], s)
  <2> SUFFICES ASSUME NEW j \in 1 .. Len(lead2[s])
               PROVE  /\ lead2[s][j].term \in won /\ lead2[s][j].term <= s
                      /\ Agree(lead2[s], lead2[lead2[s][j].term], j)
    BY DEF FromLeaders
  <2>1. CASE s = t /\ j = i /\ lead2[s][j] = e
    <3>1. lead2[s][j].term = t /\ t <= s
      <4>1. t <= t
        BY <1>1
      <4>2. QED
        BY <2>1, <4>1
    <3>2. Agree(lead2[t], lead2[t], i)
      BY <1>3, <1>4 DEF Agree
    <3>3. QED
      BY <2>1, <3>1, <3>2
  <2>2. CASE j \in 1 .. Len(lead[s]) /\ lead2[s][j] = lead[s][j]
    <3>1. PICK u : u = lead[s][j].term
      OBVIOUS
    <3>2. u \in won /\ u <= s /\ Agree(lead[s], lead[u], j)
      BY <1>1, <2>2, <3>1 DEF FromLeaders
    <3>3. Agree(lead[s], lead2[s], Len(lead[s])) /\ s \in Nat /\ u \in Nat /\ j \in Nat
      <4>1. s \in Nat /\ u \in Nat
        BY <1>1, <3>2
      <4>2. j \in Nat
        BY <1>3, <2>2, <4>1
      <4>3. QED
        BY <1>8, <4>1, <4>2
    <3>4. Agree(lead2[s], lead2[u], j)
      BY <1>10, <3>2, <3>3
    <3>5. QED
      BY <2>2, <3>1, <3>2, <3>4
  <2>3. QED
    BY <1>1, <1>7, <2>1, <2>2
<1>12. ASSUME NEW s \in won, NEW j \in 1 .. Len(lead2[s])
       PROVE  /\ lead2[s][j].command \in submitted'
              /\ lead2[s][j].command \in submitted \/ (s = t /\ j = i)
              /\ lead2[s][j].command \in submitted =>
                    j \in 1 .. Len(lead[s]) /\ lead2[s][j] = lead[s][j]
  <2>1. j \in 1 .. Len(lead[s]) => lead[s][j].command \in submitted
    BY DEF Leaderships
  <2>2. QED
    BY <1>1, <1>7, <2>1
<1>13. ASSUME NEW s \in won, NEW j \in 1 .. Len(lead2[s]),
              NEW u \in won, NEW k \in 1 .. Len(lead2[u]),
              lead2[s][j].command = lead2[u][k].command
       PROVE  j = k
  <2>1. CASE lead2[s][j].command \in submitted
    <3>1. /\ j \in 1 .. Len(lead[s]) /\ lead2[s][j] = lead[s][j]
          /\ k \in 1 .. Len(lead[u]) /\ lead2[u][k] = lead[u][k]
      BY <1>12, <1>13, <2>1
    <3>2. lead[s][j].command = lead[u][k].command
      BY <1>13, <3>1
    <3>3. \A y \in won : \A h \in 1 .. Len(lead[y]) : \A z \in won : \A g \in 1 .. Len(lead[z]) :
             lead[y][h].command = lead[z][g].command => h = g
      BY DEF Leaderships
    <3>4. QED
      BY <3>1, <3>2, <3>3
  <2>2. CASE lead2[s][j].command \notin submitted
    BY <1>12, <1>13, <2>2
  <2>3. QED
    BY <2>1, <2>2
<1>14. \A s \in Nat : s \notin won => lead2[s] = <<>>
  BY <1>5 DEF Leaderships
<1>15. QED
  <2>1. \A s \in won : \A j \in 1 .. Len(lead2[s]) : lead2[s][j].command \in submitted'
    BY <1>12
  <2>2. \A s \in won : \A j \in 1 .. Len(lead2[s]) :
           \A u \in won : \A k \in 1 .. Len(lead2[u]) :
              lead2[s][j].command = lead2[u][k].command => j = k
    BY <1>13
  <2>3. \A s \in won : FromLeaders(lead2, won, lead2[s], s)
    BY <1>11
  <2>4. won \subseteq Nat
    BY <1>1
  <2>5. Leaderships(lead2, won)'
    <3>1. \A s \in won : \A j \in 1 .. Len(lead2[s]) :
             /\ lead2[s][j].command \in submitted'
             /\ \A u \in won : \A k \in 1 .. Len(lead2[u]) :
                   lead2[s][j].command = lead2[u][k].command => j = k
      BY <2>1, <2>2
    <3>2. QED
      BY <1>6, <1>14, <2>3, <2>4, <3>1 DEF Leaderships
  <2>6. QED
    BY <1>9, <2>5

\* submit_command: the leader's log, which is that of its term, grows.
LEMMA SubmitCommandLog ==
    ASSUME NEW whole, NEW lead, NEW won, NEW cast, NEW kept,
           ElectionTypeOK, ElectionTypeOK', LogInv(whole, lead, won, cast, kept),
           NEW n \in Node, NEW cmd \in Command, SubmitCommand(n, cmd)
    PROVE  LogHistory'
<1>0. /\ Leaderships(lead, won) /\ Logs(whole, lead, won) /\ Votes(cast)
      /\ Reigns(whole, lead, won, cast)
      /\ Progress(whole, lead, kept) /\ Stores(whole, lead, won, kept)
      /\ \A e \in appendCalls : AppendCallOK(e, lead, won, cast, kept)
      /\ \A m \in Node : CommitOK(m, whole, lead, kept)
      /\ pending \subseteq Node \X (Nat \ {0}) \X Command
  BY DEF LogInv
<1>1. /\ UNCHANGED <<currentTerm, state, votedFor, votesReceived, voteCalls, appendCalls,
                     nextIndex, matchIndex, applied, resolved>>
      /\ state[n] = "leader" /\ cmd \notin submitted /\ submitted' = submitted \cup {cmd}
  BY DEF SubmitCommand, electionVars, leaderVars
<1>2. PICK t, T, i, e :
         /\ t = currentTerm[n] /\ T = whole[n] /\ i = Len(T) + 1
         /\ e = [term |-> t, command |-> cmd]
  OBVIOUS
<1>3. /\ t \in won /\ t \in Nat /\ T = lead[t]
      /\ e \in LogEntry /\ e.term = t /\ e.command = cmd
  BY <1>0, <1>1, <1>2 DEF Reigns, ElectionTypeOK, LogEntry
<1>4. /\ T \in Seq(LogEntry) /\ Len(T) \in Nat /\ LogLen(log[n]) = Len(T)
      /\ \A m \in Node : whole[m] \in Seq(LogEntry) /\ Len(whole[m]) \in Nat
      /\ \A m \in Node : CommitIndex(m) \in Nat /\ CommitIndex(m) <= Len(whole[m])
      /\ \A m \in Node : currentTerm[m] \in Nat
  BY <1>0, <1>2, HeldEntries DEF ElectionTypeOK
<1>5. PICK T2, lead2, whole2, kept2 :
         /\ T2 = Append(T, e)
         /\ lead2 = [lead EXCEPT ![t] = Append(@, e)]
         /\ whole2 = [whole EXCEPT ![n] = T2]
         /\ kept2 = kept \cup {<<n, t, i>>}
  OBVIOUS
<1>6. /\ T2 \in Seq(LogEntry) /\ Len(T2) = i
      /\ \A j \in 1 .. Len(T) : T2[j] = T[j]
      /\ T2[i] = e
  BY <1>2, <1>3, <1>4, <1>5, Appended
<1>7. /\ whole2 \in [Node -> Seq(LogEntry)] /\ whole2[n] = T2
      /\ \A m \in Node : m # n => whole2[m] = whole[m]
      /\ lead2[t] = T2 /\ \A s \in Nat : s # t => lead2[s] = lead[s]
  BY <1>0, <1>3, <1>5, <1>6 DEF Logs, Leaderships
<1>8. Leaderships(lead2, won)' /\ Longer(lead, won, lead2, won)
  BY <1>0, <1>1, <1>3, <1>5, LeadGrows
<1>9. Subsides
  BY <1>1, FallingBack
<1>10. TermsRise /\ LeadersStay /\ NoStaleCandidate /\ CallersKept
  BY <1>9, SubsidesMeans
<1>11. StoredNow(kept, kept2)
  BY <1>2, <1>3, <1>4, <1>5 DEF StoredNow
<1>12. [Next]_vars /\ Ballots' \subseteq Ballots
  BY <1>1 DEF Next, Ballots
<1>13. /\ \A d \in voteCalls' : \E f \in voteCalls : SameVoteCall(d, f)
       /\ \A d \in appendCalls' : \E f \in appendCalls : SameAppendCall(d, f, lead, kept2)
  BY <1>0, <1>1, SameCalls
<1>14. /\ Votes(cast)'
       /\ Candidates(whole2, lead2, won, cast, kept2)'
       /\ \A s \in won : WinnerOK(s, lead2, won, cast, kept2)'
       /\ \A d \in voteCalls' : VoteCallOK(d, whole2, won)'
       /\ \A d \in appendCalls' : AppendCallOK(d, lead2, won, cast, kept2)'
       /\ \A r \in resolved : ResolvedOK(r, lead2, kept2)
  <2>1. \A m \in Node : state'[m] = "candidate" /\ currentTerm'[m] \notin won =>
              whole2[m] = whole[m]
    BY <1>1, <1>7
  <2>2. QED
    BY <1>8, <1>10, <1>11, <1>12, <1>13, <2>1, GrowingStep
<1>15. log' = [log EXCEPT ![n] = AppendEntry(@, e)]
  BY <1>2 DEF SubmitCommand
<1>16. Logs(whole2, lead2, won)'
  <2>1. ASSUME NEW m \in Node
        PROVE  /\ IsView(log'[m], whole2[m])
               /\ FromLeaders(lead2, won, whole2[m], currentTerm[m])
               /\ log'[m].lastIncludedIndex <= CommitIndex(m)
               /\ CommitIndex(m) <= Len(whole2[m])
               /\ \A j \in 1 .. CommitIndex(m) : applied[m][j] = whole2[m][j].command
    <3>1. /\ IsView(log[m], whole[m]) /\ FromLeaders(lead, won, whole[m], currentTerm[m])
          /\ log[m].lastIncludedIndex <= CommitIndex(m)
          /\ \A j \in 1 .. CommitIndex(m) : applied[m][j] = whole[m][j].command
      BY <1>0 DEF Logs
    <3>2. CASE m # n
      <4>1. log'[m] = log[m] /\ whole2[m] = whole[m]
        BY <1>7, <1>15, <3>2
      <4>2. currentTerm[m] <= currentTerm[m]
        BY <1>4
      <4>3. FromLeaders(lead2, won, whole[m], currentTerm[m])
        BY <1>0, <1>4, <1>8, <3>1, <4>2, LongerKeeps
      <4>4. QED
        BY <1>4, <3>1, <4>1, <4>3
    <3>3. CASE m = n
      <4>1. log'[n] = AppendEntry(log[n], e)
        BY <1>0, <1>15 DEF Logs
      <4>2. IsView(log'[n], T2) /\ log'[n].lastIncludedIndex = log[n].lastIncludedIndex
        <5>1. IsView(AppendEntry(log[n], e), T2)
          BY <1>2, <1>3, <1>4, <1>5, <3>1, <3>3, ViewAppend
        <5>2. AppendEntry(log[n], e).lastIncludedIndex = log[n].lastIncludedIndex
          BY <3>1, <3>3 DEF AppendEntry, IsView
        <5>3. QED
          BY <4>1, <5>1, <5>2
      <4>3. FromLeaders(lead2, won, T2, t)
        <5>1. FromLeaders(lead2, won, lead2[t], t)
          BY <1>3, <1>8 DEF Leaderships, FromLeaders, Agree
        <5>2. QED
          BY <1>7, <5>1
      <4>4. CommitIndex(n) <= Len(T) /\ CommitIndex(n) <= Len(T2)
        BY <1>2, <1>4, <1>6
      <4>5. \A j \in 1 .. CommitIndex(n) : applied[n][j] = T2[j].command
        <5>1. \A j \in 1 .. CommitIndex(n) : j \in 1 .. Len(T)
          BY <1>4, <4>4
        <5>2. QED
          BY <1>2, <1>6, <3>1, <3>3, <5>1
      <4>6. QED
        BY <1>2, <1>7, <3>1, <3>3, <4>2, <4>3, <4>4, <4>5
    <3>4. QED
      BY <3>2, <3>3
  <2>2. DOMAIN log' = Node /\ applied' \in [Node -> Seq(Command)]
    BY <1>0, <1>1, <1>15 DEF Logs
  <2>3. \A m \in Node : CommitIndex(m)' = CommitIndex(m)
    BY <1>1 DEF CommitIndex
  <2>4. QED
    BY <1>1, <1>7, <2>1, <2>2, <2>3 DEF Logs
<1>17. ASSUME NEW m \in Node, m # n, state[m] = "leader"
       PROVE  currentTerm[m] # t /\ lead2[currentTerm[m]] = lead[currentTerm[m]]
  <2>1. currentTerm[m] # t
    BY <1>0, <1>1, <1>2, <1>17, OneLeader
  <2>2. QED
    BY <1>4, <1>7, <2>1
<1>18. Reigns(whole2, lead2, won, cast)'
  <2> SUFFICES ASSUME NEW m \in Node, state[m] = "leader"
               PROVE  /\ currentTerm[m] \in won
                      /\ whole2[m] = lead2[currentTerm[m]]
                      /\ IsMajority(Voters(cast, m, currentTerm[m]))
    BY <1>1 DEF Reigns, IsMajority, Voters
  <2>1. CASE m = n
    BY <1>0, <1>2, <1>7, <2>1 DEF Reigns
  <2>2. CASE m # n
    BY <1>0, <1>7, <1>17, <2>2 DEF Reigns
  <2>3. QED
    BY <2>1, <2>2
<1>19. Progress(whole2, lead2, kept2)'
  <2>1. ASSUME NEW m \in Node, state[m] = "leader", NEW p \in Node
        PROVE  /\ nextIndex[m][p] \in 1 .. Len(whole2[m]) + 1
               /\ matchIndex[m][p] <= Len(whole2[m])
               /\ \A j \in 1 .. (IF p = m THEN Len(whole2[m]) ELSE matchIndex[m][p]) :
                     Has(lead2[currentTerm[m]], currentTerm[m], j) =>
                         <<p, currentTerm[m], j>> \in kept2
    <3>1. /\ nextIndex[m][p] \in 1 .. Len(whole[m]) + 1
          /\ matchIndex[m][p] <= Len(whole[m]) /\ matchIndex[m][p] \in Nat
          /\ \A j \in 1 .. (IF p = m THEN Len(whole[m]) ELSE matchIndex[m][p]) :
                Has(lead[currentTerm[m]], currentTerm[m], j) =>
                    <<p, currentTerm[m], j>> \in kept
      BY <1>0, <2>1 DEF Progress
    <3>2. CASE m # n
      <4>1. /\ whole2[m] = whole[m] /\ lead2[currentTerm[m]] = lead[currentTerm[m]]
            /\ kept \subseteq kept2
        BY <1>5, <1>7, <1>17, <2>1, <3>2
      <4>2. QED
        BY <3>1, <4>1
    <3>3. CASE m = n
      <4>1. /\ nextIndex[n][p] \in 1 .. i + 1 /\ matchIndex[n][p] <= Len(T)
            /\ matchIndex[n][p] <= i
        BY <1>2, <1>4, <3>1, <3>3
      <4>2. ASSUME NEW j \in 1 .. (IF p = n THEN i ELSE matchIndex[n][p]), Has(T2, t, j)
            PROVE  <<p, t, j>> \in kept2
        <5>1. CASE j = i
          <6>1. p = n
            BY <1>2, <1>4, <3>1, <3>3, <4>1, <4>2, <5>1
          <6>2. QED
            BY <1>5, <5>1, <6>1
        <5>2. CASE j # i
          <6>1. j \in 1 .. Len(T) /\ j \in 1 .. (IF p = n THEN Len(T) ELSE matchIndex[n][p])
            BY <1>2, <1>4, <3>1, <3>3, <4>1, <4>2, <5>2
          <6>2. Has(T, t, j)
            BY <1>6, <4>2, <6>1 DEF Has
          <6>3. <<p, t, j>> \in kept
            BY <1>2, <1>3, <3>1, <3>3, <6>1, <6>2
          <6>4. QED
            BY <1>5, <6>3
        <5>3. QED
          BY <5>1, <5>2
      <4>3. QED
        BY <1>2, <1>6, <1>7, <3>3, <4>1, <4>2
    <3>4. QED
      BY <3>2, <3>3
  <2>2. nextIndex' \in [Node -> [Node -> Nat]] /\ matchIndex' \in [Node -> [Node -> Nat]]
    BY <1>0, <1>1 DEF Progress
  <2>3. QED
    BY <1>1, <2>1, <2>2 DEF Progress
<1>20. Stores(whole2, lead2, won, kept2)'
  <2>1. Stores(whole, lead2, won, kept)'
    BY <1>0, <1>8, <1>10, StoresFrame
  <2>2. ASSUME NEW k \in kept2
        PROVE  /\ Has(lead2[k[2]], k[2], k[3])
               /\ k[2] <= currentTerm'[k[1]]
               /\ \/ Has(whole2[k[1]], k[2], k[3])
                  \/ Displaced(lead2, won, k[2], k[3], currentTerm'[k[1]] + 1)
    <3>1. CASE k = <<n, t, i>>
      <4>1. Has(T2, t, i)
        <5>1. i \in 1 .. Len(T2)
          BY <1>2, <1>4, <1>6
        <5>2. T2[i].term = t
          BY <1>3, <1>6
        <5>3. QED
          BY <5>1, <5>2 DEF Has
      <4>2. t <= currentTerm'[n]
        BY <1>1, <1>2, <1>3
      <4>3. QED
        BY <1>7, <3>1, <4>1, <4>2
    <3>2. CASE k \in kept
      <4>1. PICK v \in Node, u \in Nat, j \in Nat : v = k[1] /\ u = k[2] /\ j = k[3]
        BY <1>0, <3>2 DEF Stores
      <4>2. /\ Has(lead2[u], u, j) /\ u <= currentTerm'[v]
            /\ Has(whole[v], u, j) \/ Displaced(lead2, won, u, j, currentTerm'[v] + 1)
        BY <2>1, <3>2, <4>1 DEF Stores, Displaced
      <4>3. Has(whole[v], u, j) => Has(whole2[v], u, j)
        <5>1. CASE v # n
          BY <1>7, <5>1
        <5>2. CASE v = n
          <6>1. \A x \in 1 .. Len(T) : x \in 1 .. Len(T2) /\ T2[x] = T[x]
            BY <1>2, <1>4, <1>6
          <6>2. Has(T, u, j) => Has(T2, u, j)
            BY <6>1 DEF Has
          <6>3. QED
            BY <1>2, <1>7, <5>2, <6>2
        <5>3. QED
          BY <5>1, <5>2
      <4>4. QED
        BY <4>1, <4>2, <4>3
    <3>3. QED
      BY <1>5, <3>1, <3>2
  <2>3. kept2 \subseteq Node \X Nat \X Nat
    BY <1>0, <1>2, <1>3, <1>4, <1>5 DEF Stores
  <2>4. QED
    BY <2>2, <2>3 DEF Stores, Displaced
<1>21. ASSUME NEW m \in Node PROVE CommitOK(m, whole2, lead2, kept2)'
  <2>1. /\ CommitIndex(m)' \in Nat /\ CommitIndex(m)' <= CommitIndex(m)
        /\ currentTerm[m] <= currentTerm'[m] /\ kept \subseteq kept2
        /\ CommitOK(m, whole, lead, kept)
    <3>1. CommitIndex(m)' = CommitIndex(m)
      BY <1>1 DEF CommitIndex
    <3>2. QED
      BY <1>0, <1>1, <1>4, <1>5, <3>1
  <2>2. Agree(whole[m], whole2[m], CommitIndex(m))
    <3>1. CASE m # n
      BY <1>4, <1>7, <3>1 DEF Agree
    <3>2. CASE m = n
      <4>1. PICK ci \in Nat : ci = CommitIndex(n) /\ ci <= Len(T)
        BY <1>2, <1>4
      <4>2. ci <= Len(T2) /\ \A j \in 1 .. ci : j \in 1 .. Len(T)
        BY <1>2, <1>4, <1>6, <4>1
      <4>3. Agree(T, T2, ci)
        BY <1>6, <4>1, <4>2 DEF Agree
      <4>4. QED
        BY <1>2, <1>7, <3>2, <4>1, <4>3
    <3>3. QED
      BY <3>1, <3>2
  <2>3. QED
    BY <1>8, <2>1, <2>2, CommitFrame
<1>22. pending' \subseteq Node \X (Nat \ {0}) \X Command
  <2>1. LogLen(log[n]) + 1 \in Nat \ {0}
    BY <1>4
  <2>2. QED
    BY <1>0, <2>1 DEF SubmitCommand
<1>23. LogInv(whole2, lead2, won, cast, kept2)'
  <2>1. Winners(lead2, won, cast, kept2)'
    BY <1>14 DEF Winners
  <2>2. \A r \in resolved' : ResolvedOK(r, lead2, kept2)
    BY <1>1, <1>14
  <2>3. QED
    BY <1>8, <1>14, <1>16, <1>18, <1>19, <1>20, <1>21, <1>22, <2>1, <2>2
       DEF LogInv, ResolvedOK, Chosen, Keepers, IsMajority
<1>24. QED
  BY <1>23 DEF LogHistory

\* What a restart keeps: term, vote, log and snapshot are on disk; the commands
\* applied shrink to what the snapshot covers, and the calls in flight become
\* orphans.
LEMMA RestartLog ==
    ASSUME NEW whole, NEW lead, NEW won, NEW cast, NEW kept,
           ElectionTypeOK, ElectionTypeOK', LogInv(whole, lead, won, cast, kept),
           NEW n \in Node, Restart(n)
    PROVE  LogInv(whole, lead, won, cast, kept)'
<1>0. /\ Leaderships(lead, won) /\ Logs(whole, lead, won)
      /\ Reigns(whole, lead, won, cast)
      /\ Progress(whole, lead, kept) /\ Stores(whole, lead, won, kept)
      /\ \A e \in appendCalls : AppendCallOK(e, lead, won, cast, kept)
      /\ \A m \in Node : CommitOK(m, whole, lead, kept)
      /\ pending \subseteq Node \X (Nat \ {0}) \X Command
  BY DEF LogInv
<1>1. /\ state' = [state EXCEPT ![n] = "follower"]
      /\ UNCHANGED <<currentTerm, votedFor, log, resolved, submitted>>
      /\ applied' = [applied EXCEPT ![n] = SubSeq(@, 1, log[n].lastIncludedIndex)]
      /\ nextIndex' = [nextIndex EXCEPT ![n] = [p \in Node |-> 1]]
      /\ matchIndex' = [matchIndex EXCEPT ![n] = [p \in Node |-> 0]]
      /\ votesReceived' \subseteq votesReceived /\ pending' \subseteq pending
      /\ voteCalls' = Orphaned(voteCalls, n) /\ appendCalls' = Orphaned(appendCalls, n)
  BY DEF Restart
<1>2. Subsides
  <2>1. \A m \in Node : state'[m] = "follower" \/ state'[m] = state[m]
    BY <1>1 DEF ElectionTypeOK
  <2>2. \A m \in Node : currentTerm'[m] = currentTerm[m] /\ currentTerm[m] \in Nat
    BY <1>1 DEF ElectionTypeOK
  <2>3. QED
    BY <2>1, <2>2 DEF Subsides
<1>3. TermsRise /\ LeadersStay /\ NoStaleCandidate /\ CallersKept
  BY <1>2, SubsidesMeans
<1>4. ASSUME NEW d \in voteCalls'
      PROVE  /\ \E e \in voteCalls : SameVoteCall(d, e)
             /\ d.stage = "answered" => d \in voteCalls
  <2>1. CASE d \in voteCalls
    BY <2>1 DEF SameVoteCall
  <2>2. CASE d \notin voteCalls
    <3>1. PICK e \in voteCalls : e.stage # "answered" /\ d = [e EXCEPT !.stage = "orphaned"]
      BY <1>1, <2>2 DEF Orphaned
    <3>2. IsVoteCall(e)
      BY DEF ElectionTypeOK
    <3>3. /\ d.from = e.from /\ d.to = e.to /\ d.term = e.term
          /\ d.lastLogIndex = e.lastLogIndex /\ d.lastLogTerm = e.lastLogTerm
          /\ d.stage = "orphaned"
      BY <3>1, <3>2 DEF IsVoteCall
    <3>4. QED
      BY <3>1, <3>3 DEF SameVoteCall
  <2>3. QED
    BY <2>1, <2>2
<1>5. ASSUME NEW d \in appendCalls'
      PROVE  \E e \in appendCalls : SameAppendCall(d, e, lead, kept)
  <2>1. CASE d \in appendCalls
    BY <1>0, <2>1, SameCalls
  <2>2. CASE d \notin appendCalls
    <3>1. PICK e \in appendCalls : d = [e EXCEPT !.stage = "orphaned"]
      BY <1>1, <2>2 DEF Orphaned
    <3>2. IsAppendCall(e) /\ AppendCallOK(e, lead, won, cast, kept)
      BY <1>0 DEF ElectionTypeOK
    <3>3. e.success \in BOOLEAN
      BY <3>2 DEF AppendCallOK
    <3>4. /\ d.from = e.from /\ d.to = e.to /\ d.term = e.term
          /\ d.prevLogIndex = e.prevLogIndex /\ d.prevLogTerm = e.prevLogTerm
          /\ d.entries = e.entries /\ d.leaderCommit = e.leaderCommit
          /\ d.success = e.success /\ d.stage = "orphaned"
      BY <3>1, <3>2 DEF IsAppendCall
    <3>5. QED
      BY <3>3, <3>4 DEF SameAppendCall, Stage
  <2>3. QED
    BY <2>1, <2>2
<1>6. Ballots' \subseteq Ballots
  BY <1>1, <1>4 DEF Ballots
<1>7. Leaderships(lead, won)' /\ Longer(lead, won, lead, won) /\ StoredNow(kept, kept)
  BY <1>0, <1>1, LongerSelf DEF Leaderships, StoredNow
<1>8. [Next]_vars
  BY DEF Next
<1>9. /\ Votes(cast)'
      /\ Candidates(whole, lead, won, cast, kept)'
      /\ \A s \in won : WinnerOK(s, lead, won, cast, kept)'
      /\ \A d \in voteCalls' : VoteCallOK(d, whole, won)'
      /\ \A d \in appendCalls' : AppendCallOK(d, lead, won, cast, kept)'
      /\ \A r \in resolved : ResolvedOK(r, lead, kept)
  BY <1>3, <1>4, <1>5, <1>6, <1>7, <1>8, GrowingStep
<1>10. PICK k \in Nat : k = log[n].lastIncludedIndex /\ k <= CommitIndex(n)
  BY <1>0, HeldEntries
<1>11. /\ SubSeq(applied[n], 1, k) \in Seq(Command)
       /\ Len(SubSeq(applied[n], 1, k)) = k
       /\ \A j \in 1 .. k : SubSeq(applied[n], 1, k)[j] = applied[n][j]
  <2>1. applied[n] \in Seq(Command) /\ k \in 0 .. Len(applied[n])
    BY <1>0, <1>10, HeldEntries DEF CommitIndex
  <2>2. QED
    BY <2>1, Slices
<1>12. /\ applied' \in [Node -> Seq(Command)]
       /\ applied'[n] = SubSeq(applied[n], 1, k)
       /\ \A m \in Node : m # n => applied'[m] = applied[m]
  BY <1>0, <1>1, <1>10, <1>11 DEF Logs
<1>13. CommitIndex(n)' = k /\ \A m \in Node : m # n => CommitIndex(m)' = CommitIndex(m)
  BY <1>11, <1>12 DEF CommitIndex
<1>14. ASSUME NEW m \in Node
       PROVE  /\ CommitIndex(m)' \in Nat /\ CommitIndex(m)' <= CommitIndex(m)
              /\ log[m].lastIncludedIndex <= CommitIndex(m)'
              /\ \A j \in 1 .. CommitIndex(m)' : applied'[m][j] = whole[m][j].command
              /\ CommitIndex(m) \in Nat /\ CommitIndex(m) <= Len(whole[m])
              /\ Len(whole[m]) \in Nat
  <2>1. /\ CommitIndex(m) \in Nat /\ CommitIndex(m) <= Len(whole[m])
        /\ Len(whole[m]) \in Nat
        /\ log[m].lastIncludedIndex <= CommitIndex(m)
        /\ \A j \in 1 .. CommitIndex(m) : applied[m][j] = whole[m][j].command
    BY <1>0, HeldEntries
  <2>2. CASE m # n
    BY <1>12, <1>13, <2>1, <2>2
  <2>3. CASE m = n
    <3>1. \A j \in 1 .. k : j \in 1 .. CommitIndex(n) /\ applied'[n][j] = applied[n][j]
      BY <1>10, <1>11, <1>12, <2>1, <2>3
    <3>2. QED
      BY <1>10, <1>13, <2>1, <2>3, <3>1
  <2>4. QED
    BY <2>2, <2>3
<1>15. Logs(whole, lead, won)'
  <2>1. \A m \in Node : CommitIndex(m)' <= Len(whole[m])
    BY <1>14
  <2>2. \A m \in Node : /\ IsView(log[m], whole[m])
                        /\ FromLeaders(lead, won, whole[m], currentTerm[m])
    BY <1>0 DEF Logs
  <2>3. whole \in [Node -> Seq(LogEntry)] /\ DOMAIN log = Node
    BY <1>0 DEF Logs
  <2>4. QED
    BY <1>1, <1>12, <1>14, <2>1, <2>2, <2>3 DEF Logs
<1>16. Reigns(whole, lead, won, cast)'
  BY <1>0, <1>3, ReignsFrame
<1>17. Progress(whole, lead, kept)'
  <2>1. nextIndex' \in [Node -> [Node -> Nat]] /\ matchIndex' \in [Node -> [Node -> Nat]]
    BY <1>0, <1>1 DEF Progress
  <2>2. ASSUME NEW m \in Node, state'[m] = "leader"
        PROVE  /\ state[m] = "leader" /\ currentTerm'[m] = currentTerm[m]
               /\ nextIndex'[m] = nextIndex[m] /\ matchIndex'[m] = matchIndex[m]
    <3>1. m # n
      BY <1>1, <2>2 DEF ElectionTypeOK
    <3>2. QED
      BY <1>0, <1>1, <1>3, <2>2, <3>1 DEF LeadersStay, Progress
  <2>3. QED
    BY <1>0, <2>1, <2>2 DEF Progress
<1>18. Stores(whole, lead, won, kept)'
  BY <1>0, <1>3, <1>7, StoresFrame
<1>19. ASSUME NEW m \in Node PROVE CommitOK(m, whole, lead, kept)'
  <2>1. Agree(whole[m], whole[m], CommitIndex(m))
    BY <1>14 DEF Agree
  <2>2. /\ CommitIndex(m)' \in Nat /\ CommitIndex(m)' <= CommitIndex(m)
        /\ CommitOK(m, whole, lead, kept) /\ currentTerm[m] <= currentTerm'[m]
    BY <1>0, <1>3, <1>14 DEF TermsRise
  <2>3. QED
    BY <1>7, <2>1, <2>2, CommitFrame
<1>20. QED
  <2>1. Winners(lead, won, cast, kept)'
    BY <1>9 DEF Winners
  <2>2. \A r \in resolved' : ResolvedOK(r, lead, kept)
    BY <1>1, <1>9
  <2>3. pending' \subseteq Node \X (Nat \ {0}) \X Command
    BY <1>0, <1>1
  <2>4. QED
    BY <1>7, <1>9, <1>15, <1>16, <1>17, <1>18, <1>19, <2>1, <2>2, <2>3
       DEF LogInv, ResolvedOK, Chosen, Keepers, IsMajority

\* Nothing has happened yet.
LEMMA InitLogHistory == Init => LogHistory
<1> SUFFICES ASSUME Init PROVE LogHistory
  OBVIOUS
<1>1. PICK whole, lead : /\ whole = [n \in Node |-> <<>>]
                         /\ lead = [t \in Nat |-> <<>>]
  OBVIOUS
<1>2. /\ voteCalls = {} /\ appendCalls = {} /\ votesReceived = {}
      /\ pending = {} /\ resolved = {}
      /\ \A n \in Node : /\ state[n] = "follower" /\ currentTerm[n] = 0
                         /\ log[n] = EmptyLog /\ applied[n] = <<>>
                         /\ whole[n] = <<>>
      /\ nextIndex \in [Node -> [Node -> Nat]] /\ matchIndex \in [Node -> [Node -> Nat]]
      /\ DOMAIN log = Node /\ applied \in [Node -> Seq(Command)]
      /\ whole \in [Node -> Seq(LogEntry)] /\ lead \in [Nat -> Seq(LogEntry)]
      /\ \A t \in Nat : lead[t] = <<>>
  BY <1>1 DEF Init
<1>3. Leaderships(lead, {})
  BY <1>2 DEF Leaderships
<1>4. Logs(whole, lead, {})
  <2>1. \A n \in Node : IsView(log[n], whole[n])
    BY <1>2 DEF IsView, EmptyLog
  <2>2. \A n \in Node : FromLeaders(lead, {}, whole[n], currentTerm[n])
    BY <1>2 DEF FromLeaders
  <2>3. \A n \in Node : log[n].lastIncludedIndex = 0 /\ CommitIndex(n) = 0 /\ Len(whole[n]) = 0
    BY <1>2 DEF EmptyLog, CommitIndex
  <2>4. QED
    BY <1>2, <2>1, <2>2, <2>3 DEF Logs
<1>5. Votes({})
  <2>1. Ballots = {}
    BY <1>2 DEF Ballots
  <2>2. QED
    BY <2>1 DEF Votes
<1>6. /\ Reigns(whole, lead, {}, {}) /\ Progress(whole, lead, {})
      /\ Stores(whole, lead, {}, {}) /\ Candidates(whole, lead, {}, {}, {})
      /\ Winners(lead, {}, {}, {})
      /\ \A n \in Node : CommitOK(n, whole, lead, {})
  <2>1. \A n \in Node : state[n] # "leader" /\ CommitIndex(n) = 0
    BY <1>2 DEF CommitIndex
  <2>2. QED
    BY <1>2, <2>1 DEF Reigns, Progress, Stores, Candidates, Winners, CommitOK
<1>7. LogInv(whole, lead, {}, {}, {})
  BY <1>2, <1>3, <1>4, <1>5, <1>6 DEF LogInv
<1>8. QED
  BY <1>7 DEF LogHistory

\* Every step keeps the history consistent.
LEMMA NextLogHistory ==
    ASSUME Timely, ElectionInv, LogHistory, [Next]_vars,
           \A c \in appendCalls : HandleAppendEntries(c) => MergesAboveSnapshot(c)
    PROVE  LogHistory'
<1>0. ElectionTypeOK /\ ElectionTypeOK'
  BY NextElectionInv DEF ElectionInv
<1>1. PICK whole, lead, won, cast, kept : LogInv(whole, lead, won, cast, kept)
  BY DEF LogHistory
<1>2. SUFFICES ASSUME ~LogHistory' PROVE FALSE
  OBVIOUS
<1>3. ~LogInv(whole, lead, won, cast, kept)'
  BY <1>2 DEF LogHistory
<1>4. ASSUME NEW n \in Node, ElectionTimeout(n) PROVE FALSE
  BY <1>0, <1>1, <1>2, <1>4, ElectionTimeoutLog
<1>5. ASSUME NEW c \in voteCalls, HandleRequestVote(c) PROVE FALSE
  BY <1>0, <1>1, <1>2, <1>5, HandleRequestVoteLog
<1>6. ASSUME NEW c \in voteCalls, RequestVoteReply(c) PROVE FALSE
  BY <1>0, <1>1, <1>2, <1>6, RequestVoteReplyLog
<1>7. ASSUME NEW c \in voteCalls, RequestVoteLost(c) PROVE FALSE
  BY <1>0, <1>1, <1>3, <1>7, RequestVoteLostLog
<1>8. ASSUME NEW n \in Node, NEW cmd \in Command, SubmitCommand(n, cmd) PROVE FALSE
  BY <1>0, <1>1, <1>2, <1>8, SubmitCommandLog
<1>9. ASSUME NEW n \in Node, NEW p \in Node, AppendEntriesCall(n, p) PROVE FALSE
  BY <1>0, <1>1, <1>3, <1>9, AppendEntriesCallLog
<1>10. ASSUME NEW c \in appendCalls, HandleAppendEntries(c) PROVE FALSE
  BY <1>0, <1>1, <1>2, <1>10, HandleAppendEntriesLog
<1>11. ASSUME NEW c \in appendCalls, AppendEntriesUnreachable(c) PROVE FALSE
  BY <1>0, <1>1, <1>3, <1>11, AppendEntriesUnreachableLog
<1>12. ASSUME NEW c \in appendCalls, AppendEntriesLost(c) PROVE FALSE
  BY <1>0, <1>1, <1>3, <1>12, AppendEntriesLostLog
<1>13. ASSUME NEW c \in appendCalls, AppendEntriesReply(c) PROVE FALSE
  BY <1>0, <1>1, <1>3, <1>13, AppendEntriesReplyLog
<1>14. ASSUME NEW n \in Node, Stop(n) PROVE FALSE
  BY <1>0, <1>1, <1>3, <1>14, StopLog
<1>15. ASSUME NEW n \in Node, Restart(n) PROVE FALSE
  BY <1>0, <1>1, <1>3, <1>15, RestartLog
<1>16. ASSUME UNCHANGED vars PROVE FALSE
  <2>1. UNCHANGED <<currentTerm, state, log, applied, pending, resolved, submitted,
                    nextIndex, matchIndex, voteCalls, appendCalls, votesReceived>>
    BY <1>16 DEF vars, electionVars, leaderVars, clientVars
  <2>2. Subsides
    BY <1>0, <2>1, FallingBack
  <2>3. Ballots' \subseteq Ballots
    BY <2>1 DEF Ballots
  <2>4. /\ \A c \in voteCalls' : \E d \in voteCalls : SameVoteCall(c, d)
        /\ \A c \in appendCalls' : \E d \in appendCalls : SameAppendCall(c, d, lead, kept)
    BY <1>1, <2>1, SameCalls DEF LogInv
  <2>5. QED
    BY <1>0, <1>1, <1>3, <2>1, <2>2, <2>3, <2>4, SettledStep
<1>17. QED
  BY <1>4, <1>5, <1>6, <1>7, <1>8, <1>9, <1>10, <1>11, <1>12, <1>13, <1>14, <1>15, <1>16 DEF Next

\* The invariant of the election and the history hold together.
LogSafety == ElectionInv /\ LogHistory

LEMMA LogSafetyHolds == ASSUME Timely PROVE Spec /\ NoConflictBelowSnapshot => []LogSafety
<1>1. Init => LogSafety
  BY InitElectionInv, InitLogHistory DEF LogSafety
<1>2. /\ LogSafety
      /\ [Next]_vars
      /\ [\A c \in appendCalls : HandleAppendEntries(c) => MergesAboveSnapshot(c)]_vars
      => LogSafety'
  <2> SUFFICES ASSUME LogSafety, [Next]_vars,
                      [\A c \in appendCalls :
                          HandleAppendEntries(c) => MergesAboveSnapshot(c)]_vars
               PROVE  LogSafety'
    OBVIOUS
  <2>1. ElectionInv'
    BY NextElectionInv DEF LogSafety
  <2>2. CASE \A c \in appendCalls : HandleAppendEntries(c) => MergesAboveSnapshot(c)
    BY <2>1, <2>2, NextLogHistory DEF LogSafety
  <2>3. CASE UNCHANGED vars
    <3>1. ASSUME NEW c \in appendCalls, HandleAppendEntries(c) PROVE FALSE
      <4>1. appendCalls' = appendCalls
        BY <2>3 DEF vars
      <4>2. c.stage # "answered" /\ \E t, b : AnswerAppend(c, t, b)
        BY <3>1 DEF HandleAppendEntries
      <4>3. IsAppendCall(c)
        BY DEF LogSafety, ElectionInv, ElectionTypeOK
      <4>4. QED
        BY <4>1, <4>2, <4>3 DEF AnswerAppend, IsAppendCall
    <3>2. QED
      BY <2>1, <3>1, NextLogHistory DEF LogSafety
  <2>4. QED
    BY <2>2, <2>3
<1>3. QED
  BY <1>1, <1>2, PTL DEF Spec, NoConflictBelowSnapshot

\* "Log matching" for every cluster: two logs that hold an entry of the same
\* term at the same index agree on everything before it, as far back as both
\* still hold it (handle_append_entries, match_log, truncate).
THEOREM LogsAlwaysMatch ==
    ASSUME Timely PROVE Spec /\ NoConflictBelowSnapshot => []LogMatching
<1>1. LogSafety => LogMatching
  BY LogsMatch DEF LogSafety, LogHistory
<1>2. QED
  BY <1>1, LogSafetyHolds, PTL

\* "State machine safety": no two nodes ever apply different commands at the
\* same index, restarts included (_apply_committed_entries, __init__).
THEOREM StateMachinesAgree ==
    ASSUME Timely PROVE Spec /\ NoConflictBelowSnapshot => []StateMachineSafety
<1>1. LogSafety => StateMachineSafety
  BY AppliedMatch DEF LogSafety, LogHistory, ElectionInv
<1>2. QED
  BY <1>1, LogSafetyHolds, PTL

\* "Leader completeness": a leader's log has whatever a node of its term or
\* an earlier one has applied (handle_request_vote's freshness check together
\* with _update_commit_index).
THEOREM LeadersAreComplete ==
    ASSUME Timely PROVE Spec /\ NoConflictBelowSnapshot => []LeaderCompleteness
<1>1. LogSafety => LeaderCompleteness
  BY LeaderIsComplete DEF LogSafety, LogHistory, ElectionInv
<1>2. QED
  BY <1>1, LogSafetyHolds, PTL

\* A command a client was told of is on the disks of a majority for ever, in
\* a log or under a snapshot (submit_command's future, "Durable state across
\* crashes").
THEOREM ResolvedStaysDurable ==
    ASSUME Timely PROVE Spec /\ NoConflictBelowSnapshot => []ResolvedIsDurable
<1>1. LogSafety => ResolvedIsDurable
  BY ResolvedIsKept DEF LogSafety, LogHistory
<1>2. QED
  BY <1>1, LogSafetyHolds, PTL

\* No truncation reaches below commit_index: what a node applied stays in its
\* own log (handle_append_entries, truncate).
THEOREM AppliedIsNeverTruncated ==
    ASSUME Timely PROVE Spec /\ NoConflictBelowSnapshot => []AppliedStaysInLog
<1>1. LogSafety => AppliedStaysInLog
  BY AppliedStays DEF LogSafety, LogHistory
<1>2. QED
  BY <1>1, LogSafetyHolds, PTL

\* An entry sits at one index, the same in every log (LogEntry.index, which
\* submit_command sets; compact, truncate).
THEOREM EntriesNeverMove ==
    ASSUME Timely PROVE Spec /\ NoConflictBelowSnapshot => []EntryKeepsIndex
<1>1. LogSafety => EntryKeepsIndex
  BY EntriesKeepIndex DEF LogSafety, LogHistory
<1>2. QED
  BY <1>1, LogSafetyHolds, PTL
===============================================================================
