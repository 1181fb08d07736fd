---------------------------- MODULE TwoPhaseCommit ----------------------------
(***************************************************************************)
(* One transaction of distributed-transactions (src/two_phase_commit.py):  *)
(* the coordinator's context, the participants' undo logs, and the threads *)
(* that are inside prepare, commit or abort.  Contexts and undo logs are   *)
(* filed by transaction id and nothing else is shared, so transactions do  *)
(* not touch one another.                                                  *)
(*                                                                         *)
(* The coordinator's lock covers the entry and the end of a phase and the  *)
(* recording of a vote, never the sends in between: each of these is an    *)
(* action, and so is each handler of a participant.                        *)
(***************************************************************************)
EXTENDS Naturals, SequencesExt

CONSTANTS
    Participant,  \* registered participants
    Operations,   \* ctx.operations: operation i is for Operations[i]
    Thread,       \* threads that use this transaction
    Executed,     \* the transaction is run by execute_transaction
    Failing       \* sends that may fail: <<phase, participant>>

ASSUME TwoPhaseAssumption ==
    /\ Operations \in Seq(Participant)
    /\ Operations # <<>>
    /\ Executed \in BOOLEAN
    /\ Executed => \E t \in Thread : Thread = {t}
    /\ "none" \notin Participant
    /\ Failing \subseteq {"commit", "abort"} \X Participant

VARIABLES
    state,    \* ctx.state
    votes,    \* ctx.votes, "none" where there is no vote
    expired,  \* ctx.is_expired()
    undo,     \* operations in each participant's undo_logs[txn_id]
    outcome,  \* how the participant's undo log last went: committed, aborted
    call      \* where each thread is

vars == <<state, votes, expired, undo, outcome, call>>

Phase == {"prepare", "commit", "abort"}
Involved == {Operations[i] : i \in DOMAIN Operations}
TransactionState == {"INIT", "PREPARING", "PREPARED", "COMMITTING", "COMMITTED",
                     "ABORTING", "ABORTED"}

\* A thread between calls, free to make those in may.
Idle(may) == [op |-> "none", may |-> may, left |-> {}, at |-> "none", reply |-> "none",
              ok |-> TRUE]
Start(op, targets) == [Idle({}) EXCEPT !.op = op, !.left = targets]

\* Variant: execute_transaction aborts after a failed commit too.
FollowingRetreat(op, result) ==
    IF ~Executed THEN Phase
    ELSE IF op = "prepare" /\ result THEN {"commit"}
    ELSE IF ~result THEN {"abort"} ELSE {}

\* What a thread may call once op has returned result: execute_transaction
\* commits after a successful prepare, aborts after a failed one, and is over
\* then; other clients call what they like.
Following(op, result) ==
    IF ~Executed THEN Phase
    ELSE IF op = "prepare" THEN IF result THEN {"commit"} ELSE {"abort"}
    ELSE {}

Return(t, result) == call' = [call EXCEPT ![t] = Idle(Following(@.op, result))]

\* begin_transaction has just returned.
Init ==
    /\ state = "INIT"
    /\ votes = [p \in Involved |-> "none"]
    /\ expired = FALSE
    /\ undo = [p \in Involved |-> {}]
    /\ outcome = [p \in Involved |-> "working"]
    /\ call = [t \in Thread |-> Idle(IF Executed THEN {"prepare"} ELSE Phase)]

\* The transaction outlives its timeout.
Expire ==
    /\ ~expired
    /\ expired' = TRUE
    /\ UNCHANGED <<state, votes, undo, outcome, call>>

\* can_commit: there is a vote of every participant involved, all of them YES.
CanCommit == \A p \in Involved : votes[p] = "YES"

-------------------------------------------------------------------------------
(* Prepare.                                                                  *)

BeginPrepare(t) ==
    /\ "prepare" \in call[t].may
    /\ state' = "PREPARING"
    /\ call' = [call EXCEPT ![t] = Start("prepare", Involved)]
    /\ UNCHANGED <<votes, expired, undo, outcome>>

\* Variant: the last operation of the transaction, whosever it is.
LastOperation(p) == Len(Operations)

\* participant_ops: the operation a participant is asked to prepare is the
\* last one listed for it.
OperationFor(p) == Max({i \in DOMAIN Operations : Operations[i] = p})

\* _send_prepare and the participant's prepare.  A refusal leaves no trace; an
\* exception on the way back turns a YES into a NO after the undo log has been
\* written.
SendPrepare(t, p) ==
    /\ call[t].op = "prepare" /\ call[t].at = "none"
    /\ p \in call[t].left
    /\ ~expired
    /\ \E vote \in {"YES", "NO"}, reserves \in BOOLEAN :
          /\ vote = "YES" => reserves
          /\ undo' = IF reserves THEN [undo EXCEPT ![p] = @ \cup {OperationFor(p)}] ELSE undo
          /\ call' = [call EXCEPT ![t].at = p, ![t].reply = vote, ![t].left = @ \ {p}]
    /\ UNCHANGED <<state, votes, expired, outcome>>

\* The vote is recorded; a NO ends the phase.
RecordVote(t) ==
    LET p == call[t].at IN
    /\ call[t].op = "prepare" /\ p # "none"
    /\ votes' = [votes EXCEPT ![p] = call[t].reply]
    /\ IF call[t].reply = "NO"
       THEN Return(t, FALSE)
       ELSE call' = [call EXCEPT ![t].at = "none", ![t].reply = "none"]
    /\ UNCHANGED <<state, expired, undo, outcome>>

\* Out of time, between two sends or after the last.
PrepareExpired(t) ==
    /\ call[t].op = "prepare" /\ call[t].at = "none"
    /\ expired
    /\ Return(t, FALSE)
    /\ UNCHANGED <<state, votes, expired, undo, outcome>>

EndPrepare(t) ==
    /\ call[t].op = "prepare" /\ call[t].at = "none" /\ call[t].left = {}
    /\ ~expired
    /\ state' = IF CanCommit THEN "PREPARED" ELSE state
    /\ Return(t, CanCommit)
    /\ UNCHANGED <<votes, expired, undo, outcome>>

-------------------------------------------------------------------------------
(* Commit.                                                                   *)

BeginCommit(t) ==
    /\ "commit" \in call[t].may
    /\ IF CanCommit
       THEN /\ state' = "COMMITTING"
            /\ call' = [call EXCEPT ![t] = Start("commit", Involved)]
       ELSE /\ call' = [call EXCEPT ![t] = Idle(Following("commit", FALSE))]
            /\ UNCHANGED state
    /\ UNCHANGED <<votes, expired, undo, outcome>>

\* The participant's commit or abort: the undo log, if there is one, goes.
Settle(p, fate) ==
    /\ undo' = [undo EXCEPT ![p] = {}]
    /\ outcome' = [outcome EXCEPT ![p] = IF undo[p] = {} THEN @ ELSE fate]

\* Variant: the last send decides.
StillAllLast(sofar, sent) == sent

\* all_committed after one more send.
StillAll(sofar, sent) == sofar /\ sent

\* _send_commit and the participant's commit: done, failed without effect, or
\* failed on the way back.
SendCommit(t, p) ==
    /\ call[t].op = "commit"
    /\ p \in call[t].left
    /\ \E done, answered \in BOOLEAN :
          /\ answered => done
          /\ <<"commit", p>> \notin Failing => answered
          /\ IF done THEN Settle(p, "committed") ELSE UNCHANGED <<undo, outcome>>
          /\ call' = [call EXCEPT ![t].left = @ \ {p}, ![t].ok = StillAll(@, answered)]
    /\ UNCHANGED <<state, votes, expired>>

\* A commit that is not complete leaves the transaction COMMITTING.
EndCommit(t) ==
    /\ call[t].op = "commit" /\ call[t].left = {}
    /\ state' = IF call[t].ok THEN "COMMITTED" ELSE state
    /\ Return(t, call[t].ok)
    /\ UNCHANGED <<votes, expired, undo, outcome>>

-------------------------------------------------------------------------------
(* Abort.                                                                    *)

\* Variant: only those whose YES is recorded are told to abort.
AbortTargetsYes == {p \in Involved : votes[p] = "YES"}

\* involved_participants
AbortTargets == Involved

BeginAbort(t) ==
    /\ "abort" \in call[t].may
    /\ IF state = "COMMITTED"
       THEN /\ call' = [call EXCEPT ![t] = Idle(Following("abort", FALSE))]
            /\ UNCHANGED state
       ELSE /\ state' = "ABORTING"
            /\ call' = [call EXCEPT ![t] = Start("abort", AbortTargets)]
    /\ UNCHANGED <<votes, expired, undo, outcome>>

\* _send_abort and the participant's abort; nobody looks at the answer.
SendAbort(t, p) ==
    /\ call[t].op = "abort"
    /\ p \in call[t].left
    /\ \/ Settle(p, "aborted")
       \/ <<"abort", p>> \in Failing /\ UNCHANGED <<undo, outcome>>
    /\ call' = [call EXCEPT ![t].left = @ \ {p}]
    /\ UNCHANGED <<state, votes, expired>>

EndAbort(t) ==
    /\ call[t].op = "abort" /\ call[t].left = {}
    /\ state' = "ABORTED"
    /\ Return(t, TRUE)
    /\ UNCHANGED <<votes, expired, undo, outcome>>

-------------------------------------------------------------------------------
ThreadStep(t) ==
    \/ BeginPrepare(t)
    \/ \E p \in Involved : SendPrepare(t, p)
    \/ RecordVote(t)
    \/ PrepareExpired(t)
    \/ EndPrepare(t)
    \/ BeginCommit(t)
    \/ \E p \in Involved : SendCommit(t, p)
    \/ EndCommit(t)
    \/ BeginAbort(t)
    \/ \E p \in Involved : SendAbort(t, p)
    \/ EndAbort(t)

Next == Expire \/ \E t \in Thread : ThreadStep(t)

Spec == Init /\ [][Next]_vars

\* A thread inside a call goes on: every send returns.
FairSpec == Spec /\ \A t \in Thread : WF_vars(ThreadStep(t))

-------------------------------------------------------------------------------
(* Properties.                                                               *)

Call == [op : Phase \cup {"none"}, may : SUBSET Phase, left : SUBSET Involved,
         at : Involved \cup {"none"}, reply : {"YES", "NO", "none"}, ok : BOOLEAN]

\* Every variable keeps its shape, and an undo log holds only operations of
\* its own participant (TransactionContext, undo_logs).
TypeOK ==
    /\ state \in TransactionState
    /\ votes \in [Involved -> {"YES", "NO", "none"}]
    /\ expired \in BOOLEAN
    /\ undo \in [Involved -> SUBSET DOMAIN Operations]
    /\ outcome \in [Involved -> {"working", "committed", "aborted"}]
    /\ call \in [Thread -> Call]
    /\ \A p \in Involved : \A i \in undo[p] : Operations[i] = p

\* Where a participant stands: prepared for as long as it keeps an undo log.
Fate == [p \in Involved |-> IF undo[p] # {} THEN "prepared" ELSE outcome[p]]

Promise == INSTANCE AtomicCommit WITH Participant <- Involved, fate <- Fate

\* A transaction run by execute_transaction is an atomic commit, whatever
\* fails or times out (execute_transaction, prepare, commit, abort).
IsAtomicCommit == Promise!Spec

\* "Atomic commit protocol": no participant has committed where another has
\* rolled back (commit and abort of one transaction).
Atomicity ==
    \A p, q \in Involved : ~(outcome[p] = "committed" /\ outcome[q] = "aborted")

\* What the coordinator records at the end is what happened: "fully
\* committed" means at every participant, ABORTED means at none (the final
\* assignments to ctx.state in commit and abort).
FinalStateIsTrue ==
    /\ state = "COMMITTED" => \A p \in Involved : Fate[p] = "committed"
    /\ state = "ABORTED" => \A p \in Involved : Fate[p] # "committed"

\* "Prevent indefinite blocking": a participant that holds an undo log gets
\* rid of it if it can be reached itself, whatever its vote and whatever
\* happens to the sends to others (the loops of commit and abort go on after
\* a failure, and the abort after a failed prepare reaches everybody).
PreparedIsSettled ==
    \A p \in Involved :
        {<<"commit", p>>, <<"abort", p>>} \cap Failing = {} =>
            (undo[p] # {} ~> undo[p] = {})
===============================================================================
