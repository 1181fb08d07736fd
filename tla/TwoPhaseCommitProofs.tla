------------------------- MODULE TwoPhaseCommitProofs -------------------------
(***************************************************************************)
(* A transaction run by execute_transaction is atomic: the coordinator     *)
(* with its failing sends, lost answers and timeouts implements            *)
(* AtomicCommit, for any operations and participants.                      *)
(*                                                                         *)
(* The invariant says, for each place the one thread can be at, how far    *)
(* the participants can have come; Shape is the part of TypeOK it needs.   *)
(***************************************************************************)
EXTENDS TwoPhaseCommit, TLAPS

Shape ==
    /\ votes \in [Involved -> {"YES", "NO", "none"}]
    /\ undo = [p \in Involved |-> undo[p]]
    /\ outcome \in [Involved -> {"working", "committed", "aborted"}]
    /\ call \in [Thread -> Call]

\* Before and during prepare nobody has settled; a participant still to be
\* asked has reserved nothing; a YES, recorded or on its way, has left an
\* undo log behind.
Asking(t) ==
    /\ \A p \in Involved : outcome[p] = "working"
    /\ \A p \in Involved : votes[p] = "YES" => undo[p] # {}
    /\ \A p \in call[t].left : undo[p] = {}
    /\ call[t].at \notin call[t].left
    /\ call[t].reply = "YES" => undo[call[t].at] # {}

\* Before and during commit everyone has reserved, and nobody rolled back.
Committing == \A p \in Involved : Fate[p] \in {"prepared", "committed"} /\ outcome[p] # "aborted"

\* Before and during abort nobody has committed.
Aborting == \A p \in Involved : outcome[p] # "committed"

At(t, op) == call[t].op = op \/ call[t].may = {op}

Inv ==
    /\ Shape
    /\ Atomicity
    /\ \A t \in Thread :
          /\ call[t].may \in {{}, {"prepare"}, {"commit"}, {"abort"}}
          /\ call[t].may # {} => call[t].op = "none"
          /\ call[t].may = {"prepare"} => \A p \in Involved : undo[p] = {} /\ votes[p] = "none"
          /\ At(t, "prepare") => Asking(t)
          /\ At(t, "commit") => Committing
          /\ At(t, "abort") => Aborting

\* A step of the transaction is a step of the promise, or none.
Steps == Promise!Next \/ UNCHANGED Fate

\* The one thread there is.
LEMMA OneThread ==
    ASSUME Executed, NEW t \in Thread
    PROVE  \A u \in Thread : u = t
BY TwoPhaseAssumption

\* A coordinator without transactions, participants without state.
LEMMA InitInv ==
    ASSUME Executed, Init
    PROVE  Inv /\ Promise!Init
<1>1. Shape
  BY DEF Init, Shape, Call, Idle, Phase
<1>2. Atomicity
  BY DEF Init, Atomicity
<1>3. ASSUME NEW t \in Thread
      PROVE  /\ call[t].may = {"prepare"}
             /\ call[t].op = "none"
             /\ Asking(t)
             /\ \A p \in Involved : undo[p] = {} /\ votes[p] = "none"
  BY Executed DEF Init, Idle, Asking
<1>4. Promise!Init
  BY DEF Init, Promise!Init, Fate
<1> QED BY <1>1, <1>2, <1>3, <1>4 DEF Inv, At

\* The invariant after a step, for the thread that made it.
LEMMA InvAfter ==
    ASSUME Executed, NEW t \in Thread,
           Shape', Atomicity',
           call'[t].may \in {{}, {"prepare"}, {"commit"}, {"abort"}},
           call'[t].may # {} => call'[t].op = "none",
           call'[t].may # {"prepare"},
           (At(t, "prepare") => Asking(t))',
           (At(t, "commit") => Committing)',
           (At(t, "abort") => Aborting)'
    PROVE  Inv'
BY OneThread DEF Inv

\* A step that only moves the thread leaves every participant where it was.
LEMMA Unmoved ==
    ASSUME Atomicity, UNCHANGED <<undo, outcome>>
    PROVE  Atomicity' /\ UNCHANGED Fate
BY DEF Atomicity, Fate

\* prepare starts with nobody asked.
LEMMA BeginPrepareStep ==
    ASSUME Executed, Inv, NEW t \in Thread, BeginPrepare(t)
    PROVE  Inv' /\ Steps
<1>1. Shape'
  BY DEF BeginPrepare, Inv, Shape, Call, Start, Idle, Phase
<1>2. call[t].may = {"prepare"}
  BY DEF BeginPrepare, Inv
<1>3. /\ call'[t].op = "prepare" /\ call'[t].may = {}
      /\ call'[t].left = Involved /\ call'[t].at = "none" /\ call'[t].reply = "none"
  BY DEF BeginPrepare, Inv, Shape, Start, Idle
<1>4. "none" \notin Involved
  BY TwoPhaseAssumption DEF Involved
<1>5. Asking(t)'
  BY <1>2, <1>3, <1>4 DEF BeginPrepare, Inv, At, Asking
<1>6. Atomicity' /\ UNCHANGED Fate
  BY Unmoved DEF BeginPrepare, Inv
<1> QED BY <1>1, <1>3, <1>5, <1>6, InvAfter DEF At, Steps

\* A recorded YES has its undo log; a NO sends the thread to abort, with
\* nobody committed.
LEMMA RecordVoteStep ==
    ASSUME Executed, Inv, NEW t \in Thread, RecordVote(t)
    PROVE  Inv' /\ Steps
<1> DEFINE p == call[t].at
<1>1. p \in Involved /\ call[t].op = "prepare" /\ Asking(t) /\ call[t].may = {}
  BY DEF RecordVote, Inv, Shape, Call, At
<1>2. Atomicity' /\ UNCHANGED Fate
  BY Unmoved DEF RecordVote, Inv
<1>3. CASE call[t].reply = "NO"
  <2>1. call' = [call EXCEPT ![t] = Idle({"abort"})]
    BY <1>1, <1>3 DEF RecordVote, Return, Following
  <2>2. call'[t].op = "none" /\ call'[t].may = {"abort"}
    BY <2>1 DEF Inv, Shape, Idle
  <2>3. Shape'
    BY <1>1, <1>3, <2>1 DEF RecordVote, Inv, Shape, Call, Idle, Phase
  <2>4. Aborting'
    BY <1>1 DEF RecordVote, Asking, Aborting
  <2> QED BY <1>2, <2>2, <2>3, <2>4, InvAfter DEF At, Steps
<1>4. CASE call[t].reply # "NO"
  <2>1. call' = [call EXCEPT ![t].at = "none", ![t].reply = "none"]
    BY <1>4 DEF RecordVote
  <2>2. /\ call'[t].op = "prepare" /\ call'[t].may = {}
        /\ call'[t].left = call[t].left
        /\ call'[t].at = "none" /\ call'[t].reply = "none"
    BY <1>1, <2>1 DEF Inv, Shape, Call
  <2>3. Shape'
    <3>1. call' \in [Thread -> Call]
      <4>1. call \in [Thread -> Call]
        BY DEF Inv, Shape
      <4>2. [call[t] EXCEPT !.at = "none", !.reply = "none"] \in Call
        BY <4>1 DEF Call
      <4>3. call' = [call EXCEPT ![t] = [call[t] EXCEPT !.at = "none", !.reply = "none"]]
        BY <2>1, <4>1 DEF Call
      <4> QED BY <4>1, <4>2, <4>3
    <3>2. votes' \in [Involved -> {"YES", "NO", "none"}]
      BY <1>1 DEF RecordVote, Inv, Shape, Call
    <3> QED BY <3>1, <3>2 DEF RecordVote, Inv, Shape
  <2>4. "none" \notin Involved
    BY TwoPhaseAssumption DEF Involved
  <2>5. Asking(t)'
    <3>1. \A q \in Involved : votes'[q] = "YES" => undo'[q] # {}
      <4>1. votes' = [votes EXCEPT ![p] = call[t].reply]
        BY DEF RecordVote
      <4> QED BY <1>1, <4>1 DEF RecordVote, Asking, Inv, Shape
    <3>2. UNCHANGED <<undo, outcome>>
      BY DEF RecordVote
    <3>3. call'[t].left \subseteq Involved
      BY <2>2 DEF Inv, Shape, Call
    <3> QED BY <1>1, <2>2, <2>4, <3>1, <3>2, <3>3 DEF Asking
  <2> QED BY <1>2, <2>2, <2>3, <2>5, InvAfter DEF At, Steps
<1> QED BY <1>3, <1>4

\* A timeout sends the thread to abort, with nobody committed.
LEMMA PrepareExpiredStep ==
    ASSUME Executed, Inv, NEW t \in Thread, PrepareExpired(t)
    PROVE  Inv' /\ Steps
<1>1. Asking(t)
  BY DEF PrepareExpired, Inv, At
<1>2. call' = [call EXCEPT ![t] = Idle({"abort"})]
  BY DEF PrepareExpired, Return, Following
<1>3. call'[t].op = "none" /\ call'[t].may = {"abort"}
  BY <1>2 DEF Inv, Shape, Idle
<1>4. Shape'
  BY <1>2 DEF PrepareExpired, Inv, Shape, Call, Idle, Phase
<1>5. Aborting'
  BY <1>1 DEF PrepareExpired, Asking, Aborting
<1>6. Atomicity' /\ UNCHANGED Fate
  BY Unmoved DEF PrepareExpired, Inv
<1> QED BY <1>3, <1>4, <1>5, <1>6, InvAfter DEF At, Steps

\* With every vote a YES every participant is prepared; otherwise nobody has
\* committed.
LEMMA EndPrepareStep ==
    ASSUME Executed, Inv, NEW t \in Thread, EndPrepare(t)
    PROVE  Inv' /\ Steps
<1>1. Asking(t) /\ call[t].op = "prepare"
  BY DEF EndPrepare, Inv, At
<1>2. Atomicity' /\ UNCHANGED Fate
  BY Unmoved DEF EndPrepare, Inv
<1>3. CASE CanCommit
  <2>1. call' = [call EXCEPT ![t] = Idle({"commit"})]
    BY <1>1, <1>3 DEF EndPrepare, Return, Following
  <2>2. call'[t].op = "none" /\ call'[t].may = {"commit"}
    BY <2>1 DEF Inv, Shape, Idle
  <2>3. Shape'
    BY <2>1 DEF EndPrepare, Inv, Shape, Call, Idle, Phase
  <2>4. Committing
    BY <1>1, <1>3 DEF CanCommit, Asking, Committing, Fate
  <2>5. Committing'
    BY <2>4, <1>2 DEF EndPrepare, Committing
  <2> QED BY <1>2, <2>2, <2>3, <2>5, InvAfter DEF At, Steps
<1>4. CASE ~CanCommit
  <2>1. call' = [call EXCEPT ![t] = Idle({"abort"})]
    BY <1>1, <1>4 DEF EndPrepare, Return, Following
  <2>2. call'[t].op = "none" /\ call'[t].may = {"abort"}
    BY <2>1 DEF Inv, Shape, Idle
  <2>3. Shape'
    BY <2>1 DEF EndPrepare, Inv, Shape, Call, Idle, Phase
  <2>4. Aborting'
    BY <1>1 DEF EndPrepare, Asking, Aborting
  <2> QED BY <1>2, <2>2, <2>3, <2>4, InvAfter DEF At, Steps
<1> QED BY <1>3, <1>4

\* A thread that has nothing left to call.
LEMMA ThreadOver ==
    ASSUME Executed, Inv, NEW t \in Thread,
           call' = [call EXCEPT ![t] = Idle({})],
           UNCHANGED <<votes, undo, outcome>>
    PROVE  Inv' /\ Steps
<1>1. call'[t].op = "none" /\ call'[t].may = {}
  BY DEF Inv, Shape, Idle
<1>2. Shape'
  BY DEF Inv, Shape, Call, Idle, Phase
<1>3. Atomicity' /\ UNCHANGED Fate
  BY Unmoved DEF Inv
<1> QED BY <1>1, <1>2, <1>3, InvAfter DEF At, Steps

\* commit starts with everyone prepared, abort with nobody committed, and
\* both may be refused at once.
LEMMA BeginCommitStep ==
    ASSUME Executed, Inv, NEW t \in Thread, BeginCommit(t)
    PROVE  Inv' /\ Steps
<1>1. call[t].may = {"commit"} /\ Committing
  BY DEF BeginCommit, Inv, At
<1>2. Atomicity' /\ UNCHANGED Fate
  BY Unmoved DEF BeginCommit, Inv
<1>3. CASE CanCommit
  <2>1. call' = [call EXCEPT ![t] = Start("commit", Involved)]
    BY <1>3 DEF BeginCommit
  <2>2. call'[t].op = "commit" /\ call'[t].may = {}
    BY <2>1 DEF Inv, Shape, Start, Idle
  <2>3. Shape'
    BY <2>1 DEF BeginCommit, Inv, Shape, Call, Start, Idle, Phase
  <2>4. Committing'
    BY <1>1, <1>2 DEF BeginCommit, Committing
  <2> QED BY <1>2, <2>2, <2>3, <2>4, InvAfter DEF At, Steps
<1>4. CASE ~CanCommit
  BY <1>4, ThreadOver DEF BeginCommit, Following
<1> QED BY <1>3, <1>4

\* abort_transaction writes its decision under the conditions of the source.
LEMMA BeginAbortStep ==
    ASSUME Executed, Inv, NEW t \in Thread, BeginAbort(t)
    PROVE  Inv' /\ Steps
<1>1. Aborting
  BY DEF BeginAbort, Inv, At
<1>2. Atomicity' /\ UNCHANGED Fate
  BY Unmoved DEF BeginAbort, Inv
<1>3. CASE state = "COMMITTED"
  BY <1>3, ThreadOver DEF BeginAbort, Following
<1>4. CASE state # "COMMITTED"
  <2>1. call' = [call EXCEPT ![t] = Start("abort", Involved)]
    BY <1>4 DEF BeginAbort, AbortTargets
  <2>2. call'[t].op = "abort" /\ call'[t].may = {}
    BY <2>1 DEF Inv, Shape, Start, Idle
  <2>3. Shape'
    BY <2>1 DEF BeginAbort, Inv, Shape, Call, Start, Idle, Phase
  <2>4. Aborting'
    BY <1>1 DEF BeginAbort, Aborting
  <2> QED BY <1>2, <2>2, <2>3, <2>4, InvAfter DEF At, Steps
<1> QED BY <1>3, <1>4

\* The ends of both phases leave the thread with nothing to do.
LEMMA EndStep ==
    ASSUME Executed, Inv, NEW t \in Thread, EndCommit(t) \/ EndAbort(t)
    PROVE  Inv' /\ Steps
BY ThreadOver DEF EndCommit, EndAbort, Return, Following

\* A participant that reserves its resources had not been asked before.
LEMMA SendPrepareStep ==
    ASSUME Executed, Inv, NEW t \in Thread, NEW p \in Involved, SendPrepare(t, p)
    PROVE  Inv' /\ Steps
<1>1. PICK vote \in {"YES", "NO"}, reserves \in BOOLEAN :
         /\ vote = "YES" => reserves
         /\ undo' = IF reserves THEN [undo EXCEPT ![p] = @ \cup {OperationFor(p)}] ELSE undo
         /\ call' = [call EXCEPT ![t].at = p, ![t].reply = vote, ![t].left = @ \ {p}]
  BY DEF SendPrepare
<1>2. call[t].op = "prepare" /\ call[t].may = {} /\ Asking(t) /\ p \in call[t].left
  BY DEF SendPrepare, Inv, At
<1>3. call \in [Thread -> Call] /\ undo = [q \in Involved |-> undo[q]]
  BY DEF Inv, Shape
<1>4. UNCHANGED <<votes, outcome>>
  BY DEF SendPrepare
<1>5. undo[p] = {} /\ outcome[p] = "working"
  BY <1>2 DEF Asking
<1>6. /\ call'[t].op = "prepare" /\ call'[t].may = {} /\ call'[t].left = call[t].left \ {p}
      /\ call'[t].at = p /\ call'[t].reply = vote
  BY <1>1, <1>2, <1>3 DEF Call
<1>7. call' \in [Thread -> Call]
  <2>1. [call[t] EXCEPT !.at = p, !.reply = vote, !.left = call[t].left \ {p}] \in Call
    BY <1>3 DEF Call
  <2>2. call' = [call EXCEPT ![t] = [call[t] EXCEPT !.at = p, !.reply = vote,
                                                    !.left = call[t].left \ {p}]]
    BY <1>1, <1>3 DEF Call
  <2> QED BY <1>3, <2>1, <2>2
<1>8. /\ undo' = [q \in Involved |-> undo'[q]]
      /\ \A q \in Involved \ {p} : undo'[q] = undo[q]
      /\ reserves => undo'[p] # {}
      /\ ~reserves => undo' = undo
  BY <1>1, <1>3
<1>9. Shape'
  BY <1>4, <1>7, <1>8 DEF Inv, Shape
<1>10. Atomicity'
  BY <1>4 DEF Inv, Atomicity
<1>11. Asking(t)'
  <2>1. call[t].left \subseteq Involved
    BY <1>3 DEF Call
  <2>2. \A q \in Involved : undo[q] # {} => undo'[q] # {}
    BY <1>5, <1>8
  <2> QED BY <1>1, <1>2, <1>4, <1>6, <1>8, <2>1, <2>2 DEF Asking
<1>12. Steps
  <2>1. CASE reserves
    <3>1. Fate[p] = "working" /\ Fate' = [Fate EXCEPT ![p] = "prepared"]
      BY <1>4, <1>5, <1>8, <2>1 DEF Fate
    <3> QED BY <3>1 DEF Steps, Promise!Next, Promise!Reserve
  <2>2. CASE ~reserves
    BY <1>4, <1>8, <2>2 DEF Steps, Fate
  <2> QED BY <2>1, <2>2
<1> QED BY <1>6, <1>9, <1>10, <1>11, <1>12, InvAfter DEF At

\* What a participant's own commit or abort does to where it stands.
LEMMA SettleFate ==
    ASSUME Shape, NEW p \in Involved, NEW fate \in {"committed", "aborted"}, Settle(p, fate)
    PROVE  /\ undo' = [q \in Involved |-> undo'[q]]
           /\ outcome' \in [Involved -> {"working", "committed", "aborted"}]
           /\ \A q \in Involved \ {p} : outcome'[q] = outcome[q]
           /\ undo[p] = {} => outcome'[p] = outcome[p]
           /\ undo[p] # {} => outcome'[p] = fate
           /\ Fate' = IF undo[p] = {} THEN Fate ELSE [Fate EXCEPT ![p] = fate]
BY DEF Shape, Settle, Fate

\* A participant commits where everyone has reserved and nobody rolled back.
LEMMA SendCommitStep ==
    ASSUME Executed, Inv, NEW t \in Thread, NEW p \in Involved, SendCommit(t, p)
    PROVE  Inv' /\ Steps
<1>1. PICK done \in BOOLEAN, answered \in BOOLEAN :
         /\ IF done THEN Settle(p, "committed") ELSE UNCHANGED <<undo, outcome>>
         /\ call' = [call EXCEPT ![t].left = @ \ {p}, ![t].ok = StillAll(@, answered)]
  BY DEF SendCommit
<1>2. Shape /\ Committing /\ call[t].op = "commit" /\ call[t].may = {} /\ UNCHANGED votes
  BY DEF SendCommit, Inv, At
<1>3. call' \in [Thread -> Call] /\ call'[t].op = "commit" /\ call'[t].may = {}
  <2>1. call \in [Thread -> Call]
    BY <1>2 DEF Shape
  <2>2. StillAll(call[t].ok, answered) \in BOOLEAN
    BY DEF StillAll
  <2>3. [call[t] EXCEPT !.left = call[t].left \ {p}, !.ok = StillAll(call[t].ok, answered)] \in Call
    BY <2>1, <2>2 DEF Call
  <2>4. call' = [call EXCEPT ![t] =
                    [call[t] EXCEPT !.left = call[t].left \ {p},
                                    !.ok = StillAll(call[t].ok, answered)]]
    BY <1>1, <2>1 DEF Call
  <2> QED BY <1>2, <2>1, <2>3, <2>4 DEF Call
<1>4. CASE done
  <2>1. Settle(p, "committed")
    BY <1>1, <1>4
  <2>2. /\ undo' = [q \in Involved |-> undo'[q]]
        /\ outcome' \in [Involved -> {"working", "committed", "aborted"}]
        /\ \A q \in Involved \ {p} : outcome'[q] = outcome[q]
        /\ undo[p] = {} => outcome'[p] = outcome[p]
        /\ undo[p] # {} => outcome'[p] = "committed"
        /\ Fate' = IF undo[p] = {} THEN Fate ELSE [Fate EXCEPT ![p] = "committed"]
    BY <1>2, <2>1, SettleFate
  <2>3. Shape'
    BY <1>2, <1>3, <2>2 DEF Shape
  <2>4. Committing'
    BY <1>2, <2>2 DEF Committing, Fate
  <2>5. Atomicity'
    BY <2>4 DEF Committing, Atomicity
  <2>6. undo[p] # {} => Promise!Commit(p)
    BY <1>2, <2>2 DEF Promise!Commit, Committing, Fate
  <2>7. Steps
    BY <2>2, <2>6 DEF Steps, Promise!Next
  <2> QED BY <1>3, <2>3, <2>4, <2>5, <2>7, InvAfter DEF At
<1>5. CASE ~done
  <2>1. UNCHANGED <<undo, outcome>>
    BY <1>1, <1>5
  <2>2. Atomicity' /\ UNCHANGED Fate
    BY <2>1, Unmoved DEF Inv
  <2>3. Shape' /\ Committing'
    BY <1>2, <1>3, <2>1, <2>2 DEF Shape, Committing
  <2> QED BY <1>3, <2>2, <2>3, InvAfter DEF At, Steps
<1> QED BY <1>4, <1>5

\* A participant rolls back where nobody has committed.
LEMMA SendAbortStep ==
    ASSUME Executed, Inv, NEW t \in Thread, NEW p \in Involved, SendAbort(t, p)
    PROVE  Inv' /\ Steps
<1>1. Shape /\ Aborting /\ call[t].op = "abort" /\ call[t].may = {} /\ UNCHANGED votes
  BY DEF SendAbort, Inv, At
<1>2. call' \in [Thread -> Call] /\ call'[t].op = "abort" /\ call'[t].may = {}
  <2>1. call \in [Thread -> Call]
    BY <1>1 DEF Shape
  <2>2. [call[t] EXCEPT !.left = call[t].left \ {p}] \in Call
    BY <2>1 DEF Call
  <2>3. call' = [call EXCEPT ![t] = [call[t] EXCEPT !.left = call[t].left \ {p}]]
    BY <2>1 DEF SendAbort, Call
  <2> QED BY <1>1, <2>1, <2>2, <2>3 DEF Call
<1>3. CASE Settle(p, "aborted")
  <2>1. /\ undo' = [q \in Involved |-> undo'[q]]
        /\ outcome' \in [Involved -> {"working", "committed", "aborted"}]
        /\ \A q \in Involved \ {p} : outcome'[q] = outcome[q]
        /\ undo[p] = {} => outcome'[p] = outcome[p]
        /\ undo[p] # {} => outcome'[p] = "aborted"
        /\ Fate' = IF undo[p] = {} THEN Fate ELSE [Fate EXCEPT ![p] = "aborted"]
    BY <1>1, <1>3, SettleFate
  <2>2. Shape'
    BY <1>1, <1>2, <2>1 DEF Shape
  <2>3. Aborting'
    BY <1>1, <2>1 DEF Aborting
  <2>4. Atomicity'
    BY <2>3 DEF Aborting, Atomicity
  <2>5. undo[p] # {} => Promise!Abort(p)
    BY <1>1, <2>1 DEF Promise!Abort, Promise!Undecided, Aborting, Fate
  <2>6. Steps
    BY <2>1, <2>5 DEF Steps, Promise!Next
  <2> QED BY <1>2, <2>2, <2>3, <2>4, <2>6, InvAfter DEF At
<1>4. CASE UNCHANGED <<undo, outcome>>
  <2>1. Atomicity' /\ UNCHANGED Fate
    BY <1>4, Unmoved DEF Inv
  <2>2. Shape' /\ Aborting'
    BY <1>1, <1>2, <1>4 DEF Shape, Aborting
  <2> QED BY <1>2, <2>1, <2>2, InvAfter DEF At, Steps
<1> QED BY <1>3, <1>4 DEF SendAbort

\* Every step keeps the invariant and is one the promise allows.
LEMMA NextInv ==
    ASSUME Executed, Inv, [Next]_vars
    PROVE  Inv' /\ Steps
<1>1. CASE Expire \/ UNCHANGED vars
  <2>1. UNCHANGED <<votes, undo, outcome, call>>
    BY <1>1 DEF Expire, vars
  <2>2. Atomicity' /\ UNCHANGED Fate
    BY <2>1, Unmoved DEF Inv
  <2>3. Shape'
    BY <2>1 DEF Inv, Shape
  <2> QED BY <2>1, <2>2, <2>3 DEF Inv, At, Asking, Committing, Aborting, Steps
<1>2. CASE \E t \in Thread : ThreadStep(t)
  <2>1. PICK t \in Thread : ThreadStep(t)
    BY <1>2
  <2>2. CASE BeginPrepare(t)
    BY <2>2, BeginPrepareStep
  <2>3. CASE \E p \in Involved : SendPrepare(t, p)
    BY <2>3, SendPrepareStep
  <2>4. CASE RecordVote(t)
    BY <2>4, RecordVoteStep
  <2>5. CASE PrepareExpired(t)
    BY <2>5, PrepareExpiredStep
  <2>6. CASE EndPrepare(t)
    BY <2>6, EndPrepareStep
  <2>7. CASE BeginCommit(t)
    BY <2>7, BeginCommitStep
  <2>8. CASE \E p \in Involved : SendCommit(t, p)
    BY <2>8, SendCommitStep
  <2>9. CASE BeginAbort(t)
    BY <2>9, BeginAbortStep
  <2>10. CASE \E p \in Involved : SendAbort(t, p)
    BY <2>10, SendAbortStep
  <2>11. CASE EndCommit(t) \/ EndAbort(t)
    BY <2>11, EndStep
  <2> QED BY <2>1, <2>2, <2>3, <2>4, <2>5, <2>6, <2>7, <2>8, <2>9, <2>10, <2>11 DEF ThreadStep
<1> QED BY <1>1, <1>2 DEF Next

\* No participant commits where another rolls back, in a transaction run by
\* execute_transaction, whatever fails or times out.
THEOREM ExecutedIsAtomic ==
    ASSUME Executed
    PROVE  Spec => []Atomicity
<1>1. Init => Inv
  BY InitInv
<1>2. Inv /\ [Next]_vars => Inv'
  BY NextInv
<1>3. Inv => Atomicity
  BY DEF Inv
<1> QED BY <1>1, <1>2, <1>3, PTL DEF Spec

\* Such a transaction implements the abstract atomic commit: participants
\* reserve, commit and roll back only when AtomicCommit lets them.
THEOREM ExecutedIsAtomicCommit ==
    ASSUME Executed
    PROVE  Spec => IsAtomicCommit
<1>1. Init => Inv /\ Promise!Init
  BY InitInv
<1>2. Inv /\ [Next]_vars => Inv' /\ [Promise!Next]_Fate
  BY NextInv DEF Steps
<1> QED BY <1>1, <1>2, PTL DEF Spec, IsAtomicCommit, Promise!Spec

-------------------------------------------------------------------------------
(* What the coordinator records.  While the thread is at work the state is no *)
(* final one, and during commit those who answered have committed.            *)

Working(t) == call[t].op # "none" \/ call[t].may # {}

FinalInv ==
    /\ FinalStateIsTrue
    /\ \A t \in Thread : Working(t) =>
          /\ state \notin {"COMMITTED", "ABORTED"}
          /\ call[t].op = "commit" /\ call[t].ok =>
                \A p \in Involved \ call[t].left : Fate[p] = "committed"

\* A step that stays short of the final states.
LEMMA NotYetFinal ==
    ASSUME Executed, NEW t \in Thread, state' \notin {"COMMITTED", "ABORTED"},
           call'[t].op = "commit" /\ call'[t].ok =>
              \A p \in Involved \ call'[t].left : Fate'[p] = "committed"
    PROVE  FinalInv'
BY OneThread DEF FinalInv, FinalStateIsTrue

\* A step outside commit's loop that does not write a final state.
LEMMA QuietFinal ==
    ASSUME Executed, FinalInv, NEW t \in Thread, Working(t),
           state' = state \/ state' \notin {"COMMITTED", "ABORTED"},
           call'[t].op # "commit" \/ call'[t].left = Involved
    PROVE  FinalInv'
BY NotYetFinal DEF FinalInv

LEMMA SendCommitFinal ==
    ASSUME Executed, Inv, FinalInv, NEW t \in Thread, NEW p \in Involved, SendCommit(t, p)
    PROVE  FinalInv'
<1>1. PICK done \in BOOLEAN, answered \in BOOLEAN :
         /\ answered => done
         /\ IF done THEN Settle(p, "committed") ELSE UNCHANGED <<undo, outcome>>
         /\ call' = [call EXCEPT ![t].left = @ \ {p}, ![t].ok = StillAll(@, answered)]
  BY DEF SendCommit
<1>2. Shape /\ Committing /\ call[t].op = "commit" /\ UNCHANGED state
  BY DEF SendCommit, Inv, At
<1>3. call'[t].left = call[t].left \ {p} /\ (call'[t].ok <=> call[t].ok /\ answered)
  BY <1>1, <1>2 DEF Shape, Call, StillAll
<1>4. state \notin {"COMMITTED", "ABORTED"}
      /\ (call[t].ok => \A q \in Involved \ call[t].left : Fate[q] = "committed")
  BY <1>2 DEF FinalInv, Working
<1>5. ASSUME call'[t].ok, NEW q \in Involved \ call'[t].left PROVE Fate'[q] = "committed"
  <2>1. answered /\ call[t].ok /\ Settle(p, "committed")
    BY <1>1, <1>3, <1>5
  <2>2. /\ undo[p] # {} => Fate' = [Fate EXCEPT ![p] = "committed"]
        /\ undo[p] = {} => Fate' = Fate
    BY <1>2, <2>1, SettleFate
  <2>3. undo[p] = {} => Fate[p] = "committed"
    BY <1>2 DEF Committing, Fate, Shape
  <2>4. q # p => Fate[q] = "committed"
    BY <1>3, <1>4, <1>5, <2>1
  <2> QED BY <2>2, <2>3, <2>4 DEF Fate
<1> QED BY <1>2, <1>4, <1>5, NotYetFinal

LEMMA EndCommitFinal ==
    ASSUME Executed, Inv, FinalInv, NEW t \in Thread, EndCommit(t)
    PROVE  FinalInv'
<1>1. call' = [call EXCEPT ![t] = Idle({})] /\ UNCHANGED Fate
  BY DEF EndCommit, Return, Following, Fate
<1>2. ~Working(t)'
  BY <1>1 DEF Working, Idle, Inv, Shape
<1>3. call[t].op = "commit" /\ call[t].left = {}
      /\ state' = IF call[t].ok THEN "COMMITTED" ELSE state
  BY DEF EndCommit
<1>4. state \notin {"COMMITTED", "ABORTED"}
      /\ (call[t].ok => \A p \in Involved : Fate[p] = "committed")
  BY <1>3 DEF FinalInv, Working
<1>5. FinalStateIsTrue'
  BY <1>1, <1>3, <1>4 DEF FinalStateIsTrue
<1> QED BY <1>2, <1>5, OneThread DEF FinalInv

LEMMA EndAbortFinal ==
    ASSUME Executed, Inv, FinalInv, NEW t \in Thread, EndAbort(t)
    PROVE  FinalInv'
<1>1. call' = [call EXCEPT ![t] = Idle({})] /\ UNCHANGED Fate
  BY DEF EndAbort, Return, Following, Fate
<1>2. ~Working(t)'
  BY <1>1 DEF Working, Idle, Inv, Shape
<1>3. Aborting /\ state' = "ABORTED"
  BY DEF EndAbort, Inv, At
<1>4. FinalStateIsTrue'
  BY <1>1, <1>3 DEF FinalStateIsTrue, Aborting, Fate
<1> QED BY <1>2, <1>4, OneThread DEF FinalInv

LEMMA NextFinalInv ==
    ASSUME Executed, Inv, FinalInv, [Next]_vars
    PROVE  FinalInv'
<1>1. CASE Expire \/ UNCHANGED vars
  BY <1>1 DEF Expire, vars, FinalInv, FinalStateIsTrue, Fate, Working
<1>2. CASE \E t \in Thread : ThreadStep(t)
  <2>1. PICK t \in Thread : ThreadStep(t)
    BY <1>2
  <2>2. call \in [Thread -> Call]
    BY DEF Inv, Shape
  <2>3. CASE BeginPrepare(t)
    BY <2>2, <2>3, QuietFinal DEF BeginPrepare, Working, Start, Idle
  <2>4. CASE \E p \in Involved : SendPrepare(t, p)
    BY <2>2, <2>4, QuietFinal DEF SendPrepare, Working, Call
  <2>5. CASE RecordVote(t) \/ PrepareExpired(t) \/ EndPrepare(t)
    <3>1. Working(t) /\ call[t].op = "prepare"
      BY <2>5 DEF RecordVote, PrepareExpired, EndPrepare, Working
    <3>2. state' = state \/ state' = "PREPARED"
      BY <2>5 DEF RecordVote, PrepareExpired, EndPrepare
    <3>3. \A result \in BOOLEAN : Return(t, result) => call'[t].op = "none"
      BY <2>2 DEF Return, Idle
    <3>4. CanCommit \in BOOLEAN
      BY DEF CanCommit
    <3>5. call'[t].op \in {"none", "prepare"}
      <4>1. CASE RecordVote(t)
        BY <2>2, <3>1, <3>3, <4>1 DEF RecordVote, Call
      <4>2. CASE PrepareExpired(t) \/ EndPrepare(t)
        BY <3>3, <3>4, <4>2 DEF PrepareExpired, EndPrepare
      <4> QED BY <2>5, <4>1, <4>2
    <3> QED BY <3>1, <3>2, <3>5, QuietFinal
  <2>6. CASE BeginCommit(t)
    <3>1. Working(t) /\ (state' = state \/ state' = "COMMITTING")
      BY <2>6 DEF BeginCommit, Working
    <3>2. \/ call' = [call EXCEPT ![t] = Start("commit", Involved)]
          \/ call' = [call EXCEPT ![t] = Idle(Following("commit", FALSE))]
      BY <2>6 DEF BeginCommit
    <3>3. call'[t].op # "commit" \/ call'[t].left = Involved
      <4>1. CASE call' = [call EXCEPT ![t] = Start("commit", Involved)]
        BY <2>2, <4>1 DEF Start, Idle
      <4>2. CASE call' = [call EXCEPT ![t] = Idle(Following("commit", FALSE))]
        BY <2>2, <4>2 DEF Idle
      <4> QED BY <3>2, <4>1, <4>2
    <3> QED BY <3>1, <3>3, QuietFinal
  <2>7. CASE \E p \in Involved : SendCommit(t, p)
    BY <2>7, SendCommitFinal
  <2>8. CASE EndCommit(t)
    BY <2>8, EndCommitFinal
  <2>9. CASE BeginAbort(t)
    <3>1. Working(t) /\ (state' = state \/ state' = "ABORTING")
      BY <2>9 DEF BeginAbort, Working
    <3>2. \/ call' = [call EXCEPT ![t] = Start("abort", Involved)]
          \/ call' = [call EXCEPT ![t] = Idle(Following("abort", FALSE))]
      BY <2>9 DEF BeginAbort, AbortTargets
    <3>3. call'[t].op # "commit" \/ call'[t].left = Involved
      <4>1. CASE call' = [call EXCEPT ![t] = Start("abort", Involved)]
        BY <2>2, <4>1 DEF Start, Idle
      <4>2. CASE call' = [call EXCEPT ![t] = Idle(Following("abort", FALSE))]
        BY <2>2, <4>2 DEF Idle
      <4> QED BY <3>2, <4>1, <4>2
    <3> QED BY <3>1, <3>3, QuietFinal
  <2>10. CASE \E p \in Involved : SendAbort(t, p)
    BY <2>2, <2>10, QuietFinal DEF SendAbort, Working, Call
  <2>11. CASE EndAbort(t)
    BY <2>11, EndAbortFinal
  <2> QED BY <2>1, <2>3, <2>4, <2>5, <2>6, <2>7, <2>8, <2>9, <2>10, <2>11 DEF ThreadStep
<1> QED BY <1>1, <1>2 DEF Next

\* What the coordinator records at the end of a transaction run by
\* execute_transaction is what happened, whatever fails or times out: COMMITTED
\* means at every participant, ABORTED at none (commit, abort).
THEOREM ExecutedEndsTruly ==
    ASSUME Executed
    PROVE  Spec => []FinalStateIsTrue
<1>1. Init => Inv /\ FinalInv
  <2> SUFFICES ASSUME Init PROVE FinalInv
    BY InitInv
  <2>1. state = "INIT" /\ \A t \in Thread : call[t].op = "none"
    BY DEF Init, Idle
  <2> QED BY <2>1 DEF FinalInv, FinalStateIsTrue
<1>2. Inv /\ FinalInv /\ [Next]_vars => Inv' /\ FinalInv'
  BY NextInv, NextFinalInv
<1>3. FinalInv => FinalStateIsTrue
  BY DEF FinalInv
<1> QED BY <1>1, <1>2, <1>3, PTL DEF Spec
===============================================================================
