------------------------------ MODULE Redlock ------------------------------
(***************************************************************************)
(* src/distributed-locks/src/redlock.py: a lock held on a majority of      *)
(* independent Redis servers.  The servers are external: a key set with    *)
(* NX and PX, and a script that compares and deletes; a call that raises   *)
(* may have taken effect.                                                  *)
(*                                                                         *)
(* Time is one flag per client: its window is open from the start of an    *)
(* attempt until ttl - 200 ms later.  A key was set after the start of its *)
(* attempt and lives for ttl: assuming that no server's clock is off by    *)
(* the 200 ms, it outlives the window.                                     *)
(***************************************************************************)
EXTENDS Naturals, FiniteSets

CONSTANTS
  RedClients,
  ServerCount,     \* len(servers)
  RetryCount,      \* retry_count
  RedMaxAcquires,  \* bound: calls of acquire() by a client
  NoKey            \* None, and the value of a key that does not exist

RedServers == 1..ServerCount   \* in the order of the list
RedTokens == RedClients \X (1..RedMaxAcquires)

ASSUME RedlockAssumption ==
  /\ ServerCount \in Nat
  /\ RetryCount \in Nat
  /\ RedMaxAcquires \in Nat
  /\ NoKey \notin RedTokens

VARIABLES
  kKey,      \* the resource's key on each server
  kPc,       \* "idle", "setting", "undoing", "waiting", "held", "releasing"
  kToken,    \* token
  kCalls,    \* calls of acquire() so far
  kAttempt,  \* attempt
  kNext,     \* the server the loop comes to next
  kGot,      \* servers that answered the set: n_acquired
  kOpen      \* less than ttl - 200 ms since start_time

redVars == <<kKey, kPc, kToken, kCalls, kAttempt, kNext, kGot, kOpen>>

RedTypeOK ==
  /\ kKey \in [RedServers -> RedTokens \cup {NoKey}]
  /\ kPc \in [RedClients -> {"idle", "setting", "undoing", "waiting", "held", "releasing"}]
  /\ kToken \in [RedClients -> RedTokens \cup {NoKey}]
  /\ kCalls \in [RedClients -> 0..RedMaxAcquires]
  /\ kAttempt \in [RedClients -> 0..RetryCount]
  /\ kNext \in [RedClients -> 1..(ServerCount + 1)]
  /\ kGot \in [RedClients -> SUBSET RedServers]
  /\ kOpen \in [RedClients -> BOOLEAN]

RedInit ==
  /\ kKey = [s \in RedServers |-> NoKey]
  /\ kPc = [c \in RedClients |-> "idle"]
  /\ kToken = [c \in RedClients |-> NoKey]
  /\ kCalls = [c \in RedClients |-> 0]
  /\ kAttempt = [c \in RedClients |-> 0]
  /\ kNext = [c \in RedClients |-> ServerCount + 1]
  /\ kGot = [c \in RedClients |-> {}]
  /\ kOpen = [c \in RedClients |-> FALSE]

\* Variant: half of the servers are taken for a majority
RedQuorumHalf(servers) == Cardinality(servers) >= Cardinality(RedServers) \div 2

RedQuorum(servers) == Cardinality(servers) >= Cardinality(RedServers) \div 2 + 1

\* The body of the loop over attempts begins
BeginAttempt(c, k) ==
  /\ kPc' = [kPc EXCEPT ![c] = "setting"]
  /\ kAttempt' = [kAttempt EXCEPT ![c] = k]
  /\ kNext' = [kNext EXCEPT ![c] = 1]
  /\ kGot' = [kGot EXCEPT ![c] = {}]
  /\ kOpen' = [kOpen EXCEPT ![c] = TRUE]

\* acquire is called, with a token of its own
RedAcquire(c) ==
  /\ kPc[c] = "idle"
  /\ kCalls[c] < RedMaxAcquires
  /\ RetryCount > 0
  /\ kCalls' = [kCalls EXCEPT ![c] = @ + 1]
  /\ kToken' = [kToken EXCEPT ![c] = <<c, kCalls[c] + 1>>]
  /\ BeginAttempt(c, 1)
  /\ UNCHANGED kKey

\* server.set(resource, token, nx, px): without a token it raises at once
SetKey(c, s) ==
  /\ kPc[c] = "setting" /\ s = kNext[c]
  /\ kNext' = [kNext EXCEPT ![c] = @ + 1]
  /\ \/ UNCHANGED <<kKey, kGot>>   \* taken, or the server was not reached
     \/ /\ kKey[s] = NoKey /\ kToken[c] # NoKey
        /\ kKey' = [kKey EXCEPT ![s] = kToken[c]]
        /\ kGot' \in {kGot, [kGot EXCEPT ![c] = @ \cup {s}]}   \* the answer may be lost
  /\ UNCHANGED <<kPc, kToken, kCalls, kAttempt, kOpen>>

\* Enough servers, in time
Won(c) == RedQuorum(kGot[c]) /\ kOpen[c]

\* The end of the loop over servers; n_acquired is forgotten with the attempt
Decide(c) ==
  /\ kPc[c] = "setting" /\ kNext[c] > ServerCount
  /\ IF Won(c)
     THEN kPc' = [kPc EXCEPT ![c] = "held"] /\ UNCHANGED <<kNext, kGot>>
     ELSE /\ kPc' = [kPc EXCEPT ![c] = "undoing"]
          /\ kNext' = [kNext EXCEPT ![c] = 1]
          /\ kGot' = [kGot EXCEPT ![c] = {}]
  /\ UNCHANGED <<kKey, kToken, kCalls, kAttempt, kOpen>>

\* The holder calls release
RedRelease(c) ==
  /\ kPc[c] = "held"
  /\ kPc' = [kPc EXCEPT ![c] = "releasing"]
  /\ kNext' = [kNext EXCEPT ![c] = 1]
  /\ kGot' = [kGot EXCEPT ![c] = {}]
  /\ UNCHANGED <<kKey, kToken, kCalls, kAttempt, kOpen>>

\* What the script leaves of the key
AfterScript(c, s) == IF kKey[s] = kToken[c] THEN NoKey ELSE kKey[s]

\* server.eval of release
DeleteKey(c, s) ==
  /\ kPc[c] \in {"undoing", "releasing"} /\ s = kNext[c]
  /\ kNext' = [kNext EXCEPT ![c] = @ + 1]
  /\ \/ UNCHANGED kKey
     \/ kKey' = [kKey EXCEPT ![s] = AfterScript(c, s)]
  /\ UNCHANGED <<kPc, kToken, kCalls, kAttempt, kGot, kOpen>>

\* The end of release: the token is forgotten, also when acquire() is to try again
Released(c) ==
  /\ kPc[c] \in {"undoing", "releasing"} /\ kNext[c] > ServerCount
  /\ kToken' = [kToken EXCEPT ![c] = NoKey]
  /\ kPc' = [kPc EXCEPT ![c] =
               IF @ = "undoing" /\ kAttempt[c] < RetryCount THEN "waiting" ELSE "idle"]
  /\ UNCHANGED <<kKey, kCalls, kAttempt, kNext, kGot, kOpen>>

\* The next attempt, after the delay
RetryAcquire(c) ==
  /\ kPc[c] = "waiting"
  /\ BeginAttempt(c, kAttempt[c] + 1)
  /\ UNCHANGED <<kKey, kToken, kCalls>>

\* Nobody looks at the window of a client without a token
WindowCloses(c) ==
  /\ kOpen[c] /\ kToken[c] # NoKey
  /\ kOpen' = [kOpen EXCEPT ![c] = FALSE]
  /\ UNCHANGED <<kKey, kPc, kToken, kCalls, kAttempt, kNext, kGot>>

\* Within its window a token's keys do not expire
Alive(t) == \E c \in RedClients : kToken[c] = t /\ kOpen[c]

KeyExpires(s) ==
  /\ kKey[s] # NoKey
  /\ ~Alive(kKey[s])
  /\ kKey' = [kKey EXCEPT ![s] = NoKey]
  /\ UNCHANGED <<kPc, kToken, kCalls, kAttempt, kNext, kGot, kOpen>>

RedNext ==
  \/ \E c \in RedClients :
       \/ RedAcquire(c) \/ Decide(c) \/ RedRelease(c) \/ Released(c) \/ RetryAcquire(c)
       \/ WindowCloses(c)
       \/ \E s \in RedServers : SetKey(c, s) \/ DeleteKey(c, s)
  \/ \E s \in RedServers : KeyExpires(s)

RedSpec == RedInit /\ [][RedNext]_redVars

(***************************************************************************)
(* Properties                                                              *)
(***************************************************************************)
\* The client may rely on the lock: acquire() has returned True, and what it
\* computed as validity has not passed
RedHolds(c) == kPc[c] = "held" /\ kOpen[c]

\* Two clients never both hold the lock, although sets take effect without
\* an answer, keys outlive their holders and a late holder still releases
\* (redlock.py:83, :100).
RedlockExclusion == \A a, b \in RedClients : RedHolds(a) /\ RedHolds(b) => a = b
=============================================================================
