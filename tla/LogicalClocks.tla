---------------------------- MODULE LogicalClocks ----------------------------
(***************************************************************************)
(* LamportClock, VectorClock and HybridLogicalClock of                     *)
(* clock-skew-simulator, side by side on the same events, and the           *)
(* CausalityAnalyzer that judges the recorded timestamps.  Physical clocks  *)
(* drift, are skewed and are set back by a synchronisation: what one reads  *)
(* is any time at all (PhysicalClock.read, synchronize).                    *)
(***************************************************************************)
EXTENDS Integers, FiniteSets, Sequences

CONSTANTS
    LNodes,        \* nodes; numbers, as node_ids break ties
    LTimes,        \* what a physical clock may read
    LMaxEvents     \* bound on the events

ASSUME LNodesAssumption == LNodes \subseteq Nat
ASSUME LTimesAssumption == LTimes \subseteq Nat \ {0}

VARIABLES
    lTime,         \* [LNodes -> LamportClock.time]
    lVector,       \* [LNodes -> VectorClock.vector]
    lHybrid,       \* [LNodes -> <<physical, logical>> of the HLC]
    lEvents        \* the events in the order they were added to the analyzer

lVars == <<lTime, lVector, lHybrid, lEvents>>

Later(a, b) == IF a < b THEN b ELSE a

\* HLCTimestamp.__lt__
HybridLess(s, t) == s[1] < t[1] \/ (s[1] = t[1] /\ s[2] < t[2])

\* HybridLogicalClock.now: a physical clock that stands still or goes back is
\* made up for by the counter.
HybridNow(h, pt) == IF pt > h[1] THEN <<pt, 0>> ELSE <<h[1], h[2] + 1>>

\* Variant: a message moves the clock like any other event.
HybridReceiveNow(h, m, pt) == HybridNow(h, pt)

\* HybridLogicalClock.receive
HybridReceive(h, m, pt) ==
    LET top == Later(Later(h[1], m[1]), pt)
    IN IF top = h[1] /\ top = m[1] THEN <<h[1], Later(h[2], m[2]) + 1>>
       ELSE IF top = h[1] THEN <<h[1], h[2] + 1>>
       ELSE IF top = m[1] THEN <<m[1], m[2] + 1>>
       ELSE <<pt, 0>>

VectorReceive(v, m, n) ==
    [k \in LNodes |-> Later(v[k], m[k]) + IF k = n THEN 1 ELSE 0]

\* The clocks of n move to the given values, which stamp the event.
Record(n, pt, past, time, vector, hybrid) ==
    /\ Len(lEvents) < LMaxEvents
    /\ lTime' = [lTime EXCEPT ![n] = time]
    /\ lVector' = [lVector EXCEPT ![n] = vector]
    /\ lHybrid' = [lHybrid EXCEPT ![n] = hybrid]
    /\ lEvents' = Append(lEvents, [node |-> n, pt |-> pt, past |-> past,
                       lamport |-> time, vector |-> vector, hybrid |-> hybrid])

EventsAt(n) == {i \in 1 .. Len(lEvents) : lEvents[i].node = n}

Upto(S) == S \cup UNION {lEvents[i].past : i \in S}

\* tick and send, which move the clocks alike: the timestamps of any event
\* may go out with a message.
LocalOrSend(n, pt) ==
    Record(n, pt, Upto(EventsAt(n)), lTime[n] + 1,
           [lVector[n] EXCEPT ![n] = @ + 1], HybridNow(lHybrid[n], pt))

\* A message may be late, overtaken and delivered more than once.
Receive(n, i, pt) ==
    LET m == lEvents[i]
    IN /\ m.node # n
       /\ Record(n, pt, Upto(EventsAt(n) \cup {i}), Later(lTime[n], m.lamport) + 1,
                 VectorReceive(lVector[n], m.vector, n),
                 HybridReceive(lHybrid[n], m.hybrid, pt))

LInit ==
    /\ lTime = [n \in LNodes |-> 0]
    /\ lVector = [n \in LNodes |-> [k \in LNodes |-> 0]]
    /\ lHybrid = [n \in LNodes |-> <<0, 0>>]
    /\ lEvents = << >>

LNext ==
    \E n \in LNodes, pt \in LTimes :
        \/ LocalOrSend(n, pt)
        \/ \E i \in 1 .. Len(lEvents) : Receive(n, i, pt)

LSpec == LInit /\ [][LNext]_lVars

-----------------------------------------------------------------------------
(* CausalityAnalyzer.                                                       *)

VectorBefore(v, w) ==
    (\A k \in LNodes : v[k] <= w[k]) /\ \E k \in LNodes : v[k] < w[k]

\* VectorClock.concurrent_with
VectorConcurrent(v, w) == ~ VectorBefore(v, w) /\ ~ VectorBefore(w, v)

\* LamportTimestamp.__lt__
LamportLess(e, f) ==
    e.lamport < f.lamport \/ (e.lamport = f.lamport /\ e.node < f.node)

\* An event that may have caused another has the lesser Lamport and the
\* lesser hybrid timestamp, however the physical clocks run; the vectors say
\* exactly which events may have caused which, and which are concurrent
\* (happens_before and concurrent of CausalityAnalyzer; lamport_clock.py:18,
\* hybrid_clock.py:53, vector_clock.py:17).  The physical part of a hybrid
\* timestamp is the latest reading among those causes, and its counter is
\* bounded by their number (hybrid_clock.py:52, :54).
TimestampsFollowCausality ==
    \A i, j \in 1 .. Len(lEvents) :
        LET e == lEvents[i]
            f == lEvents[j]
        IN /\ i \in f.past => /\ e.lamport < f.lamport
                              /\ HybridLess(e.hybrid, f.hybrid)
           /\ VectorBefore(e.vector, f.vector) <=> i \in f.past
           /\ VectorConcurrent(e.vector, f.vector) <=> i \notin f.past /\ j \notin e.past
           /\ i # j => LamportLess(e, f) \/ LamportLess(f, e)
           /\ i \in f.past \cup {j} => e.pt <= f.hybrid[1]
           /\ \E k \in f.past \cup {j} : f.hybrid[1] = lEvents[k].pt
           /\ f.hybrid[2] <= Cardinality(f.past)

=============================================================================
