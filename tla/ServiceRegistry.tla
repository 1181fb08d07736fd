--------------------------- MODULE ServiceRegistry ---------------------------
(***************************************************************************)
(* src/service-discovery/src/service_registry.py: the instances of one     *)
(* service, the rounds of health checks over them, and a load balancer     *)
(* with its callers.                                                       *)
(*                                                                         *)
(* A check reads the status and the heartbeat of its instance, probes it   *)
(* and writes the status, without the registry's lock in between;          *)
(* heartbeats, deregistrations and other checks of the round go on         *)
(* meanwhile.  Time is the step HeartbeatLapses.  discover() asks for the  *)
(* same 60 s as a check.                                                   *)
(***************************************************************************)
EXTENDS Naturals, SequencesExt, Selection

CONSTANTS
  SMaxInstances,  \* bound: registrations
  SProbed,        \* the instances with a health_check_url
  SFlaky,         \* the instances whose heartbeats may stop for more than 60 s
  SLeaving,       \* the instances that deregister
  SCallers        \* threads that call get_instance

SInstances == 1..SMaxInstances

ASSUME RegistryAssumption ==
  /\ SMaxInstances \in Nat
  /\ SProbed \cup SFlaky \cup SLeaving \subseteq SInstances

VARIABLES
  sList,     \* services[name], in its order
  sNext,     \* the next instance_id
  sStatus,   \* status, also of instances no longer listed
  sFresh,    \* is_heartbeat_valid
  sHealthy,  \* what a probe would find
  sCheck,    \* the check of an instance: what is left to do, and the status it has read
  sTold,     \* status last told to an observer; UP at first
  sCalm,     \* history: nothing has happened to it since the last round began
  sIndex,    \* current_index[name]
  sSeen,     \* what discover() has returned to each caller of get_instance
  sPicks     \* history: the last picks made from one list, that list first

registryVars == <<sList, sNext, sStatus, sFresh, sHealthy, sCheck, sTold, sCalm>>
balancerVars == <<sIndex, sSeen, sPicks>>
serviceVars == <<registryVars, balancerVars>>

NoCheck == [stage |-> "none", read |-> "UP"]

RegistryTypeOK ==
  /\ IsInjective(sList) /\ Range(sList) \subseteq SInstances
  /\ sNext \in 1..(SMaxInstances + 1)
  /\ sStatus \in [SInstances -> {"UP", "DOWN"}]   \* UNKNOWN is never assigned
  /\ sFresh \in [SInstances -> BOOLEAN]
  /\ sHealthy \in [SInstances -> BOOLEAN]
  /\ sCheck \in [SInstances -> [stage : {"none", "todo", "probe", "UP", "DOWN"}, read : {"UP", "DOWN"}]]
  /\ sTold \in [SInstances -> {"UP", "DOWN"}]
  /\ sCalm \in [SInstances -> BOOLEAN]
  /\ sIndex \in 0..SMaxInstances
  /\ \A c \in SCallers : Range(sSeen[c]) \subseteq SInstances
  /\ Range(sPicks.picks) \subseteq Range(sPicks.list)

RegistryInit ==
  /\ sList = <<>> /\ sNext = 1
  /\ sStatus = [i \in SInstances |-> "UP"]
  /\ sFresh = [i \in SInstances |-> TRUE]
  /\ sHealthy = [i \in SInstances |-> TRUE]
  /\ sCheck = [i \in SInstances |-> NoCheck]
  /\ sTold = [i \in SInstances |-> "UP"]
  /\ sCalm = [i \in SInstances |-> FALSE]
  /\ sIndex = 0
  /\ sSeen = [c \in SCallers |-> <<>>]
  /\ sPicks = [list |-> <<>>, picks |-> <<>>]

Registered(i) == i \in Range(sList)

Disturb(i) == sCalm' = [sCalm EXCEPT ![i] = FALSE]

(***************************************************************************)
(* Services                                                                *)
(***************************************************************************)
\* register
Register ==
  /\ sNext <= SMaxInstances
  /\ sList' = Append(sList, sNext)
  /\ sNext' = sNext + 1
  /\ UNCHANGED <<sStatus, sFresh, sHealthy, sCheck, sTold, sCalm, balancerVars>>

\* deregister
Deregister(i) ==
  /\ i \in SLeaving
  /\ Registered(i)
  /\ sList' = KeepOnly(sList, SInstances \ {i})
  /\ UNCHANGED <<sNext, sStatus, sFresh, sHealthy, sCheck, sTold, sCalm, balancerVars>>

\* heartbeat
Heartbeat(i) ==
  /\ Registered(i)
  /\ ~sFresh[i] \/ sStatus[i] = "DOWN"
  /\ sFresh' = [sFresh EXCEPT ![i] = TRUE]
  /\ sStatus' = [sStatus EXCEPT ![i] = IF i \in SProbed THEN @ ELSE "UP"]
  /\ Disturb(i)
  /\ UNCHANGED <<sList, sNext, sHealthy, sCheck, sTold, balancerVars>>

HeartbeatLapses(i) ==
  /\ i \in SFlaky
  /\ Registered(i) /\ sFresh[i]
  /\ sFresh' = [sFresh EXCEPT ![i] = FALSE]
  /\ Disturb(i)
  /\ UNCHANGED <<sList, sNext, sStatus, sHealthy, sCheck, sTold, balancerVars>>

HealthChanges(i) ==
  /\ i \in SProbed /\ Registered(i)
  /\ sHealthy' = [sHealthy EXCEPT ![i] = ~@]
  /\ Disturb(i)
  /\ UNCHANGED <<sList, sNext, sStatus, sFresh, sCheck, sTold, balancerVars>>

(***************************************************************************)
(* The health-check thread and its pool                                    *)
(***************************************************************************)
\* _run_health_checks: the instances listed now are to be checked
BeginRound ==
  /\ sList # <<>>
  /\ \A i \in SInstances : sCheck[i].stage = "none"
  /\ sCheck' = [i \in SInstances |-> IF Registered(i) THEN [NoCheck EXCEPT !.stage = "todo"] ELSE NoCheck]
  /\ sCalm' = [i \in SInstances |-> TRUE]
  /\ UNCHANGED <<sList, sNext, sStatus, sFresh, sHealthy, sTold, balancerVars>>

\* _check_single_instance up to the probe
StartCheck(i) ==
  /\ sCheck[i].stage = "todo"
  /\ sCheck' = [sCheck EXCEPT ![i] =
       [read |-> sStatus[i],
        stage |-> IF ~sFresh[i] THEN "DOWN" ELSE IF i \in SProbed THEN "probe" ELSE "UP"]]
  /\ UNCHANGED <<sList, sNext, sStatus, sFresh, sHealthy, sTold, sCalm, balancerVars>>

\* _probe_health
Probe(i) ==
  /\ sCheck[i].stage = "probe"
  /\ sCheck' = [sCheck EXCEPT ![i].stage = IF sHealthy[i] THEN "UP" ELSE "DOWN"]
  /\ UNCHANGED <<sList, sNext, sStatus, sFresh, sHealthy, sTold, sCalm, balancerVars>>

\* Variant: only the way down is written
ChecksOutDown(i) == sCheck[i].stage = "DOWN" /\ sCheck[i].read = "UP"

\* The check has found another status than it read
ChecksOut(i) == sCheck[i].stage # sCheck[i].read

\* The rest of _check_single_instance, with _notify_observers
FinishCheck(i) ==
  /\ sCheck[i].stage \in {"UP", "DOWN"}
  /\ IF ChecksOut(i)
     THEN /\ sStatus' = [sStatus EXCEPT ![i] = sCheck[i].stage]
          /\ sTold' = [sTold EXCEPT ![i] = sCheck[i].stage]
     ELSE UNCHANGED <<sStatus, sTold>>
  /\ sCheck' = [sCheck EXCEPT ![i] = NoCheck]
  /\ UNCHANGED <<sList, sNext, sFresh, sHealthy, sCalm, balancerVars>>

(***************************************************************************)
(* The load balancer                                                       *)
(***************************************************************************)
\* discover
Discover == KeepOnly(sList, {i \in SInstances : sStatus[i] = "UP" /\ sFresh[i]})

\* get_instance asks the registry
AskRegistry(c) ==
  /\ sSeen[c] = <<>> /\ Discover # <<>>
  /\ sSeen' = [sSeen EXCEPT ![c] = Discover]
  /\ UNCHANGED <<registryVars, sIndex, sPicks>>

\* Variant: the index stays where it is
NextIndexStays(list) == sIndex

\* The index for the next call
NextIndex(list) == (sIndex + 1) % Len(list)

\* get_instance takes its turn
Pick(c) ==
  /\ sSeen[c] # <<>>
  /\ LET list == sSeen[c]
         one == list[(sIndex % Len(list)) + 1]
         earlier == IF sPicks.list = list THEN sPicks.picks ELSE <<>>
     IN  /\ sIndex' = NextIndex(list)
         /\ sPicks' = [list |-> list,
                       picks |-> Append(IF Len(earlier) = Len(list) THEN Tail(earlier) ELSE earlier, one)]
  /\ sSeen' = [sSeen EXCEPT ![c] = <<>>]
  /\ UNCHANGED registryVars

RegistryNext ==
  \/ Register \/ BeginRound
  \/ \E i \in SInstances :
       \/ Deregister(i) \/ Heartbeat(i) \/ HeartbeatLapses(i) \/ HealthChanges(i)
       \/ StartCheck(i) \/ Probe(i) \/ FinishCheck(i)
  \/ \E c \in SCallers : AskRegistry(c) \/ Pick(c)

RegistrySpec == RegistryInit /\ [][RegistryNext]_serviceVars

(***************************************************************************)
(* Properties                                                              *)
(***************************************************************************)
Well(i) == sFresh[i] /\ (i \in SProbed => sHealthy[i])

\* A round of checks sets every status right: an instance to which nothing has
\* happened since the round began is UP when its check is over if it is well, and
\* DOWN if it has gone quiet or is sick, whatever checks of the round before wrote on
\* what they had read before a heartbeat or a probe (service_registry.py:326, :347).
RoundSetsStatus ==
  \A i \in SInstances :
    Registered(i) /\ sCalm[i] /\ sCheck[i].stage = "none"
      => (sStatus[i] = "UP" <=> Well(i))

\* Callers that find the same list get its instances in turn, whatever other lists
\* were served before: no instance twice before all the others (service_registry.py:420).
RoundRobin == IsInjective(sPicks.picks)
=============================================================================
