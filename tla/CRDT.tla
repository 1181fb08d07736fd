-------------------------------- MODULE CRDT --------------------------------
(***************************************************************************)
(* The replicated data types of crdt/src (GCounter, PNCounter, GSet,       *)
(* TwoPhaseSet, ORSet, LWWRegister, LWWMap, CausalContext) and the          *)
(* DottedVersionVector of vector-clocks-advanced, DVV below.  A behaviour   *)
(* is about one type, cType: its replicas are updated on their own and      *)
(* merge serialised states (to_json, from_json) of one another, which may   *)
(* be old, arrive in any order and more than once.                          *)
(*                                                                         *)
(* cOps lists the updates in the order they were made and cSeen[n] those    *)
(* that have reached n: they only serve to say what a replica must answer.  *)
(***************************************************************************)
EXTENDS Integers, Sequences, FiniteSets

CONSTANTS
    CNodes,      \* replicas; numbers, as node_ids are compared as strings
    CTypes,      \* the types the behaviours are about
    CTies,       \* types whose callers may pass one timestamp twice
    CElements,   \* elements of the sets
    CAmounts,    \* what a counter is incremented or decremented by
    CJumps,      \* timestamps passed to increment of DVV, 0 for none
    CKeys,       \* keys of the map
    CNull,       \* None, the tombstone of the map
    CMaxOps      \* bound on the updates

\* The replicas go by their places in the order of their node_ids.
ASSUME CNodesAssumption == IsFiniteSet(CNodes) /\ CNodes = 1 .. Cardinality(CNodes)
ASSUME CTypesAssumption ==
    CTypes \subseteq {"GCounter", "PNCounter", "GSet", "TwoPhaseSet", "ORSet",
                     "LWWRegister", "LWWMap", "CausalContext", "DVV"}
ASSUME CNumbersAssumption == CAmounts \cup CJumps \cup {CMaxOps} \subseteq Nat
ASSUME CNullAssumption == CNull \notin CElements \cup Nat

VARIABLES
    cType,       \* the class under test
    cState,      \* [CNodes -> the state of that class]
    cSaved,      \* [CNodes -> <<state, seen>>]: what to_json returned last
    cOps,        \* the updates made, in order
    cSeen        \* [CNodes -> SUBSET 1..Len(cOps)]

cVars == <<cType, cState, cSaved, cOps, cSeen>>

Stamps == 1 .. CMaxOps

-----------------------------------------------------------------------------
(* States.  A dictionary of counts without a key counts 0 for it.           *)

NoCounts == [n \in CNodes |-> 0]

EmptyRegister(n, v, ts) == [node |-> n, val |-> v, ts |-> ts, writer |-> n]

InitState(type, n) ==
    CASE type \in {"GCounter", "CausalContext"} -> NoCounts
      [] type = "PNCounter" -> [positive |-> NoCounts, negative |-> NoCounts]
      [] type = "GSet" -> {}
      [] type \in {"TwoPhaseSet", "ORSet"} -> [added |-> {}, removed |-> {}]
      [] type = "DVV" -> [clock |-> NoCounts, dots |-> {}]
      [] type = "LWWRegister" -> EmptyRegister(n, CNull, 0)
      [] type = "LWWMap" -> << >>

\* merge of GCounter and of CausalContext: the greater count of each node.
MergeCounts(s, t) == [n \in CNodes |-> IF s[n] < t[n] THEN t[n] ELSE s[n]]

\* LWWRegister._should_update: later, or as late and by a greater node.
ShouldUpdate(reg, ts, node) ==
    ts > reg.ts \/ (ts = reg.ts /\ node > reg.writer)

MergeRegister(s, t) ==
    IF ShouldUpdate(s, t.ts, t.writer)
    THEN [t EXCEPT !.node = s.node] ELSE s

\* A register that is not there is copied with the owner it has over there.
MergeMap(s, t) ==
    [k \in DOMAIN s \cup DOMAIN t |->
        IF k \notin DOMAIN s THEN t[k]
        ELSE IF k \notin DOMAIN t THEN s[k] ELSE MergeRegister(s[k], t[k])]

\* Variant: the tombstones of the other replica are not taken over.
MergeAdded(s, t) == [s EXCEPT !.added = @ \cup t.added]

MergePairs(s, t) ==
    [added |-> s.added \cup t.added, removed |-> s.removed \cup t.removed]

\* _compact_dots: dots that follow the clock without a gap move into it.
Compacted(d) ==
    LET Reaches(n, ts) == \A k \in d.clock[n] + 1 .. ts : <<n, k>> \in d.dots
        clock == [n \in CNodes |->
                    CHOOSE ts \in {d.clock[n]} \cup {p[2] : p \in d.dots} :
                        /\ ts >= d.clock[n] /\ Reaches(n, ts)
                        /\ <<n, ts + 1>> \notin d.dots]
    IN [clock |-> clock, dots |-> {p \in d.dots : p[2] > clock[p[1]]}]

MergeDVV(s, t) ==
    Compacted([clock |-> MergeCounts(s.clock, t.clock), dots |-> s.dots \cup t.dots])

Merged(s, t) ==
    CASE cType \in {"GCounter", "CausalContext"} -> MergeCounts(s, t)
      [] cType = "PNCounter" ->
            [positive |-> MergeCounts(s.positive, t.positive),
             negative |-> MergeCounts(s.negative, t.negative)]
      [] cType = "DVV" -> MergeDVV(s, t)
      [] cType = "GSet" -> s \cup t
      [] cType \in {"TwoPhaseSet", "ORSet"} -> MergePairs(s, t)
      [] cType = "LWWRegister" -> MergeRegister(s, t)
      [] cType = "LWWMap" -> MergeMap(s, t)

-----------------------------------------------------------------------------
(* Updates.                                                                 *)

\* n makes an update, which leaves it in state new.
Update(n, kind, on, arg, ts, new) ==
    /\ Len(cOps) < CMaxOps
    /\ cState' = [cState EXCEPT ![n] = new]
    /\ cOps' = Append(cOps, [kind |-> kind, on |-> on, arg |-> arg, ts |-> ts,
                             by |-> n, sees |-> cSeen[n]])
    /\ cSeen' = [cSeen EXCEPT ![n] = @ \cup {Len(cOps) + 1}]
    /\ UNCHANGED <<cType, cSaved>>

CounterIncrement(n, v) ==
    /\ cType = "GCounter"
    /\ Update(n, "inc", CNull, v, 0, [cState[n] EXCEPT ![n] = @ + v])

ContextIncrement(n) ==
    /\ cType = "CausalContext"
    /\ Update(n, "inc", CNull, 1, 0, [cState[n] EXCEPT ![n] = @ + 1])

PNIncrement(n, v) ==
    /\ cType = "PNCounter"
    /\ Update(n, "inc", CNull, v, 0, [cState[n] EXCEPT !.positive[n] = @ + v])

PNDecrement(n, v) ==
    /\ cType = "PNCounter"
    /\ Update(n, "dec", CNull, v, 0, [cState[n] EXCEPT !.negative[n] = @ + v])

GSetAdd(n, e) ==
    /\ cType = "GSet"
    /\ Update(n, "add", e, 1, 0, cState[n] \cup {e})

\* An element with a tombstone is not added again.
TwoPhaseAdd(n, e) ==
    /\ cType = "TwoPhaseSet"
    /\ Update(n, "add", e, 1, 0,
              IF e \in cState[n].removed THEN cState[n]
              ELSE [cState[n] EXCEPT !.added = @ \cup {e}])

\* The tombstone is set whether the element was added here or not.
TwoPhaseRemove(n, e) ==
    /\ cType = "TwoPhaseSet"
    /\ Update(n, "remove", e, 1, 0, [cState[n] EXCEPT !.removed = @ \cup {e}])

\* Tags are uuids, no two alike: the place of the update in cOps stands for one.
ORAdd(n, e) ==
    /\ cType = "ORSet"
    /\ Update(n, "add", e, 1, 0,
              [cState[n] EXCEPT !.added = @ \cup {<<e, Len(cOps) + 1>>}])

Observed(s, e) == {p \in s.added : p[1] = e /\ p \notin s.removed}

ORRemove(n, e) ==
    /\ cType = "ORSet"
    /\ Update(n, "remove", e, 1, 0,
              [cState[n] EXCEPT !.removed = @ \cup Observed(cState[n], e)])

\* A timestamp is the caller's; by default it is the time, which differs.
MayStamp(ts) ==
    cType \in CTies \/ \A i \in 1 .. Len(cOps) : cOps[i].ts # ts

\* write labels what it stores with the owner of the register.
Written(reg, v, ts) ==
    IF ShouldUpdate(reg, ts, reg.node)
    THEN [reg EXCEPT !.val = v, !.ts = ts, !.writer = reg.node] ELSE reg

RegisterWrite(n, v, ts) ==
    /\ cType = "LWWRegister"
    /\ MayStamp(ts)
    /\ Update(n, "write", CNull, v, ts, Written(cState[n], v, ts))

\* put; remove is put of None.
MapPut(n, k, v, ts) ==
    /\ cType = "LWWMap"
    /\ MayStamp(ts)
    /\ Update(n, "write", k, v, ts,
              [j \in DOMAIN cState[n] \cup {k} |->
                  IF j # k THEN cState[n][j]
                  ELSE IF k \in DOMAIN cState[n] THEN Written(cState[n][k], v, ts)
                  ELSE EmptyRegister(n, v, ts)])

\* increment of the DVV, to ts or, when ts is 0 (None), by one.  A jump ahead
\* leaves the clock where it is; a caller does not pass one twice.
DVVIncrement(n, ts) ==
    LET current == cState[n].clock[n]
        new == IF ts = 0 THEN current + 1 ELSE ts
        dotted == [cState[n] EXCEPT !.dots = @ \cup {<<n, new>>}]
    IN /\ cType = "DVV"
       /\ new > current
       /\ cType \in CTies \/ \A i \in 1 .. Len(cOps) : cOps[i].by = n => cOps[i].arg # new
       /\ Update(n, "inc", CNull, new, ts,
                 IF new = current + 1
                 THEN Compacted([dotted EXCEPT !.clock[n] = new]) ELSE dotted)

\* to_json: the state as it is now, to be read by from_json some time later.
Ship(n) ==
    /\ cSaved[n] # <<cState[n], cSeen[n]>>
    /\ cSaved' = [cSaved EXCEPT ![n] = <<cState[n], cSeen[n]>>]
    /\ UNCHANGED <<cType, cState, cOps, cSeen>>

Merge(n, m) ==
    /\ n # m
    /\ cState' = [cState EXCEPT ![n] = Merged(@, cSaved[m][1])]
    /\ cSeen' = [cSeen EXCEPT ![n] = @ \cup cSaved[m][2]]
    /\ UNCHANGED <<cType, cSaved, cOps>>

CInit ==
    /\ cType \in CTypes
    /\ cState = [n \in CNodes |-> InitState(cType, n)]
    /\ cSaved = [n \in CNodes |-> <<InitState(cType, n), {}>>]
    /\ cOps = << >>
    /\ cSeen = [n \in CNodes |-> {}]

\* No two writes store the same value.
Fresh == Len(cOps) + 1

CNext ==
    \E n \in CNodes :
        \/ \E v \in CAmounts : CounterIncrement(n, v) \/ PNIncrement(n, v)
                             \/ PNDecrement(n, v)
        \/ ContextIncrement(n)
        \/ \E ts \in CJumps : DVVIncrement(n, ts)
        \/ \E e \in CElements : GSetAdd(n, e) \/ TwoPhaseAdd(n, e)
                                \/ TwoPhaseRemove(n, e) \/ ORAdd(n, e)
                                \/ ORRemove(n, e)
        \/ \E ts \in Stamps : RegisterWrite(n, Fresh, ts)
        \/ \E k \in CKeys, v \in {Fresh, CNull}, ts \in Stamps : MapPut(n, k, v, ts)
        \/ Ship(n)
        \/ \E m \in CNodes : Merge(n, m)

CSpec == CInit /\ [][CNext]_cVars

-----------------------------------------------------------------------------
(* What the replicas answer, and what their history says they should.       *)

SumTo(f, n) ==
    LET sum[k \in 0 .. n] == IF k = 0 THEN 0 ELSE sum[k - 1] + f[k]
    IN sum[n]

Total(s) == SumTo(s, Cardinality(CNodes))

PairsValue(s) == {p[1] : p \in s.added \ s.removed}

\* get_causal_past of CausalHistory, the events a dotted version vector stands for
CausalPast(d) == d.dots \cup UNION {{<<n, k>> : k \in 1 .. d.clock[n]} : n \in CNodes}

MapValue(s) == {<<k, s[k].val>> : k \in {j \in DOMAIN s : s[j].val # CNull}}

Value(s) ==
    CASE cType = "GCounter" -> Total(s)
      [] cType = "CausalContext" -> s
      [] cType = "DVV" -> CausalPast(s)
      [] cType = "PNCounter" -> Total(s.positive) - Total(s.negative)
      [] cType = "GSet" -> s
      [] cType = "TwoPhaseSet" -> s.added \ s.removed
      [] cType = "ORSet" -> PairsValue(s)
      [] cType = "LWWRegister" -> s.val
      [] cType = "LWWMap" -> MapValue(s)

\* Variant: the dots beyond the clocks are not looked at.
SubsetClock(s, t) == \A n \in CNodes : s.clock[n] <= t.clock[n]

\* is_subset: what the other clock lacks must be among its dots.
SubsetDVV(s, t) ==
    /\ \A n \in CNodes : \A k \in t.clock[n] + 1 .. s.clock[n] : <<n, k>> \in t.dots
    /\ \A p \in s.dots : p[2] > t.clock[p[1]] => p \in t.dots

Beyond(s, t) == \E n \in CNodes : s[n] > t[n]

\* compare of GCounter and of CausalContext; happens_before and concurrent of DVV.
Compare(s, t) ==
    LET less == IF cType = "DVV" THEN ~ SubsetDVV(t, s) ELSE Beyond(t, s)
        greater == IF cType = "DVV" THEN ~ SubsetDVV(s, t) ELSE Beyond(s, t)
    IN IF less /\ greater THEN "concurrent"
       ELSE IF less THEN "less" ELSE IF greater THEN "greater" ELSE "equal"

Kind(S, kind) == {i \in S : cOps[i].kind = kind}

Amount(S, kind) ==
    SumTo([i \in 1 .. Len(cOps) |-> IF i \in Kind(S, kind) THEN cOps[i].arg ELSE 0],
          Len(cOps))

\* Additions in S that no removal in S had seen.
Standing(S) ==
    {i \in Kind(S, "add") : ~ \E j \in Kind(S, "remove") :
        cOps[j].on = cOps[i].on /\ i \in cOps[j].sees}

\* The latest write of S to k; of writes with one stamp by one node, the first.
Winner(S, k) ==
    LET writes == {i \in S : cOps[i].kind = "write" /\ cOps[i].on = k}
        Beats(i, j) == \/ cOps[i].ts > cOps[j].ts
                       \/ cOps[i].ts = cOps[j].ts /\ cOps[i].by > cOps[j].by
                       \/ cOps[i].ts = cOps[j].ts /\ cOps[i].by = cOps[j].by /\ i < j
    IN CHOOSE i \in writes : \A j \in writes \ {i} : Beats(i, j)

KeysOf(S) == {cOps[i].on : i \in Kind(S, "write")}

HistoryValue(S) ==
    CASE cType = "GCounter" -> Amount(S, "inc")
      [] cType = "CausalContext" ->
            [n \in CNodes |-> Cardinality({i \in S : cOps[i].by = n})]
      [] cType = "DVV" -> {<<cOps[i].by, cOps[i].arg>> : i \in S}
      [] cType = "PNCounter" -> Amount(S, "inc") - Amount(S, "dec")
      [] cType = "GSet" -> {cOps[i].on : i \in S}
      [] cType = "TwoPhaseSet" ->
            {cOps[i].on : i \in Kind(S, "add")} \ {cOps[i].on : i \in Kind(S, "remove")}
      [] cType = "ORSet" -> {cOps[i].on : i \in Standing(S)}
      [] cType = "LWWRegister" ->
            IF S = {} THEN CNull ELSE cOps[Winner(S, CNull)].arg
      [] cType = "LWWMap" ->
            {<<k, cOps[Winner(S, k)].arg>> :
                k \in {j \in KeysOf(S) : cOps[Winner(S, j)].arg # CNull}}

\* What a replica answers depends on the updates that reached it and on
\* nothing else, neither the order of the merges nor their repetition, and it
\* is what the type promises: the sum, the additions no removal had seen, the
\* last write (value of each class; README.md:280 of crdt).
ValueIsHistory == \A n \in CNodes : Value(cState[n]) = HistoryValue(cSeen[n])

\* compare orders two replicas as the sets of updates they have seen are
\* ordered (compare of GCounter and CausalContext, is_subset of
\* the dotted version vector).
CompareIsCausality ==
    cType \in {"GCounter", "CausalContext", "DVV"} =>
        \A n, m \in CNodes :
            Compare(cState[n], cState[m]) =
                IF cSeen[n] = cSeen[m] THEN "equal"
                ELSE IF cSeen[n] \subseteq cSeen[m] THEN "less"
                ELSE IF cSeen[m] \subseteq cSeen[n] THEN "greater"
                ELSE "concurrent"

\* All replicas that have received the same updates have the same state
\* (README.md:280 of crdt), said of the map: false, as a put on a copied
\* register is signed by the node it was copied from (lww_map.py:107).
MapsConverge ==
    \A n, m \in CNodes : cType = "LWWMap" /\ cSeen[n] = cSeen[m] =>
                            MapValue(cState[n]) = MapValue(cState[m])

=============================================================================
