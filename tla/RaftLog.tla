------------------------------- MODULE RaftLog -------------------------------
(***************************************************************************)
(* The replicated log of raft-from-scratch (src/log.py) as a value: the    *)
(* entries after the last snapshot, and the index and term of the last     *)
(* entry the snapshot covers.  Positions are absolute and 1-based.  The    *)
(* file behind the log is rewritten by every mutator before the node's     *)
(* lock is released, so the value in memory is also the value on disk.     *)
(***************************************************************************)
EXTENDS Naturals, SequencesExt

EmptyLog == [entries |-> <<>>, lastIncludedIndex |-> 0, lastIncludedTerm |-> 0]

\* __len__: the index of the last entry, the snapshot's entries included.
LogLen(log) == log.lastIncludedIndex + Len(log.entries)

\* __getitem__, for an index the snapshot does not cover.
EntryAt(log, i) == log.entries[i - log.lastIncludedIndex]

\* get_term: any index inside the snapshot answers with the term of its last
\* entry ("Approximation or Error?" asks the source).
GetTerm(log, i) ==
    IF i = 0 THEN 0
    ELSE IF i <= log.lastIncludedIndex THEN log.lastIncludedTerm
    ELSE EntryAt(log, i).term

LastTerm(log) == GetTerm(log, LogLen(log))

AppendEntry(log, entry) == [log EXCEPT !.entries = Append(@, entry)]

\* get_entries: the suffix from an index, less what the snapshot swallowed.
GetEntries(log, start) ==
    SubSeq(log.entries,
           Max({start, log.lastIncludedIndex + 1}) - log.lastIncludedIndex,
           Len(log.entries))

\* truncate: drops an index and all that follows, and does nothing at all
\* for an index the snapshot covers.
TruncateLog(log, i) ==
    IF i <= log.lastIncludedIndex THEN log
    ELSE [log EXCEPT !.entries = SubSeq(@, 1, Min({Len(@), i - log.lastIncludedIndex - 1}))]

\* match_log: the consistency check of AppendEntries.
MatchLog(log, prevIndex, prevTerm) ==
    \/ prevIndex = 0
    \/ /\ prevIndex <= LogLen(log)
       /\ GetTerm(log, prevIndex) = prevTerm

\* Variant: compact keeps the last entry its snapshot covers.
CompactOneShort(log, lastIndex, lastTerm) ==
    IF lastIndex <= log.lastIncludedIndex THEN log
    ELSE [entries           |-> SubSeq(log.entries, lastIndex - log.lastIncludedIndex,
                                       Len(log.entries)),
          lastIncludedIndex |-> lastIndex,
          lastIncludedTerm  |-> lastTerm]

\* compact: forgets the entries up to an index in favour of a snapshot.
Compact(log, lastIndex, lastTerm) ==
    IF lastIndex <= log.lastIncludedIndex THEN log
    ELSE [entries           |-> SubSeq(log.entries, lastIndex - log.lastIncludedIndex + 1,
                                       Len(log.entries)),
          lastIncludedIndex |-> lastIndex,
          lastIncludedTerm  |-> lastTerm]

\* Variant: an entry is appended whatever the log holds at its index.
MergeEntryBlindly(log, i, entry) == AppendEntry(log, entry)

\* The body of handle_append_entries' loop, for the entry meant for index i.
MergeEntry(log, i, entry) ==
    IF i > LogLen(log) THEN AppendEntry(log, entry)
    ELSE IF GetTerm(log, i) # entry.term THEN AppendEntry(TruncateLog(log, i), entry)
    ELSE log

\* The loop itself: the log after each of the entries that follow prevIndex
\* has been merged in turn, and at its end.
MergeSteps(log, prevIndex, entries) ==
    LET merged[k \in 0 .. Len(entries)] ==
            IF k = 0 THEN log ELSE MergeEntry(merged[k - 1], prevIndex + k, entries[k])
    IN merged

MergeEntries(log, prevIndex, entries) == MergeSteps(log, prevIndex, entries)[Len(entries)]

\* Variants: only the terms compared, or nothing at all.
NewerTerm(termA, lenA, termB, lenB) == termA >= termB
AnyLog(termA, lenA, termB, lenB) == TRUE

\* a >= b in the order of handle_request_vote's log completeness check.
AtLeastAsFresh(termA, lenA, termB, lenB) ==
    \/ termA > termB
    \/ termA = termB /\ lenA >= lenB
==============================================================================
