---------------------------- MODULE BloomFilters ----------------------------
(***************************************************************************)
(* BloomFilter, CountingBloomFilter and ScalableBloomFilter of              *)
(* bloom-filters.  A filter is a sequence of layers, one but for the        *)
(* scalable filter; a bit is a counter that stops at one.                   *)
(***************************************************************************)
EXTENDS Integers, FiniteSets, Sequences

CONSTANTS
    BKinds,          \* the classes the behaviours are about
    BElements,
    BHashes,         \* num_hashes
    BSize,           \* size of the first layer
    BExpected,       \* expected_elements of the first layer
    BLimit,          \* where a counter stops, 4294967295 in the code
    BMaxOps          \* bound on the operations

ASSUME BloomAssumption ==
    /\ BHashes \in Nat \ {0} /\ BSize \in Nat \ {0} /\ BExpected \in Nat \ {0}
    /\ BLimit \in Nat \ {0}

VARIABLES
    bKind,           \* the class under test
    bSeeds,          \* [BElements -> the seeds <<h1, h2>> of double hashing]
    bLayers,         \* its filters, in order: [buckets, count, expected]
    bAdded,          \* [BElements -> additions minus removals]
    bOps             \* operations made

bVars == <<bKind, bSeeds, bLayers, bAdded, bOps>>

\* scale ** k, with the growth factor two.
Scale(k) ==
    LET power[j \in 0 .. k] == IF j = 0 THEN 1 ELSE 2 * power[j - 1]
    IN power[k]

\* _add_filter: the k-th layer, twice as large as the one before.
NewLayer(k) ==
    [buckets |-> [i \in 0 .. BSize * Scale(k) - 1 |-> 0], count |-> 0,
     expected |-> BExpected * Scale(k)]

\* How often the double hashing of e hits bucket idx: g(i) = (h1 + i * h2) % m.
Hits(layer, e, idx) ==
    Cardinality({i \in 0 .. BHashes - 1 :
        (bSeeds[e][1] + i * bSeeds[e][2]) % Cardinality(DOMAIN layer.buckets) = idx})

\* Variant: a counter is a bit.
LimitOne == 1

Limit == IF bKind = "counting" THEN BLimit ELSE 1

Filled(bucket, hits) == IF bucket + hits > Limit THEN Limit ELSE bucket + hits
Drained(bucket, hits) == IF bucket < hits THEN 0 ELSE bucket - hits

Plus(layer, e) ==
    [layer EXCEPT !.count = @ + 1, !.buckets =
        [i \in DOMAIN @ |-> Filled(@[i], Hits(layer, e, i))]]

Minus(layer, e) ==
    [layer EXCEPT !.count = @ - 1, !.buckets =
        [i \in DOMAIN @ |-> Drained(@[i], Hits(layer, e, i))]]

HoldsIn(layer, e) ==
    \A i \in DOMAIN layer.buckets : Hits(layer, e, i) > 0 => layer.buckets[i] > 0

\* contains: some layer has all of the element's bits.
FilterContains(e) == \E k \in 1 .. Len(bLayers) : HoldsIn(bLayers[k], e)

\* The layers an addition starts from: a full last layer gets a successor.
ToFill ==
    LET last == bLayers[Len(bLayers)]
    IN IF bKind = "scalable" /\ last.count >= last.expected
       THEN Append(bLayers, NewLayer(Len(bLayers))) ELSE bLayers

Change(e, layers, by) ==
    /\ bOps < BMaxOps
    /\ bOps' = bOps + 1
    /\ bLayers' = layers
    /\ bAdded' = [bAdded EXCEPT ![e] = @ + by]
    /\ UNCHANGED <<bKind, bSeeds>>

BAdd(e) == Change(e, [ToFill EXCEPT ![Len(ToFill)] = Plus(@, e)], 1)

\* remove of what is taken to be present; callers remove what they added.
BRemove(e) ==
    /\ bKind = "counting"
    /\ bAdded[e] > 0
    /\ IF FilterContains(e) THEN Change(e, <<Minus(bLayers[1], e)>>, -1)
       ELSE Change(e, bLayers, 0)

BInit ==
    /\ bKind \in BKinds
    /\ bSeeds \in [BElements -> (0 .. BSize - 1) \X (0 .. BSize - 1)]
    /\ bLayers = <<NewLayer(0)>>
    /\ bAdded = [e \in BElements |-> 0]
    /\ bOps = 0

BNext == \E e \in BElements : BAdd(e) \/ BRemove(e)

BSpec == BInit /\ [][BNext]_bVars

-----------------------------------------------------------------------------

\* "Returns False if definitely not present" (bloom_filter.py:97): what was
\* added and not removed since is found, whatever else was added and removed
\* and wherever it hashes to; and no layer but the last has room left.
NoFalseNegatives ==
    /\ \A e \in BElements : bAdded[e] > 0 => FilterContains(e)
    /\ \A k \in 1 .. Len(bLayers) - 1 : bLayers[k].count = bLayers[k].expected

=============================================================================
