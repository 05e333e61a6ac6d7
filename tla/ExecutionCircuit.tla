-------------------------- MODULE ExecutionCircuit --------------------------
(* The circuit breaker before the runs of the Agent, as                     *)
(* server/assistant/agentos-execution-circuit.ts keeps it: consecutive      *)
(* counted failures open it, after a while one call is let through as a     *)
(* probe, and a call whose generation is over no longer counts, whatever it *)
(* ends with.                                                               *)
EXTENDS Naturals, FiniteSets

CONSTANTS
  Calls,             \* requests that may run the Agent
  failureThreshold   \* consecutive counted failures that open the circuit

ASSUME ThresholdAssumption == failureThreshold \in Nat \ {0}

VARIABLES
  consecutiveFailures,
  openedAt,     \* "closed", or open and "waiting" for the reset, or "elapsed"
  halfOpen,
  generation,   \* the running calls that carry the current generation symbol
  probes,       \* the running calls that were let through as probes
  running       \* the calls whose operation has not ended

circuitVars ==
  <<consecutiveFailures, openedAt, halfOpen, generation, probes, running>>

CircuitTypeOK ==
  /\ consecutiveFailures \in 0..failureThreshold
  /\ openedAt \in {"closed", "waiting", "elapsed"}
  /\ halfOpen \in BOOLEAN
  /\ running \subseteq Calls
  /\ generation \subseteq running
  /\ probes \subseteq running

CircuitInit ==
  /\ consecutiveFailures = 0
  /\ openedAt = "closed"
  /\ halfOpen = FALSE
  /\ generation = {}
  /\ probes = {}
  /\ running = {}

\* The first half of execute: a call is let through when the circuit is
\* closed, and as the only probe when the reset time has passed.
LetsThrough == openedAt = "closed" \/ (openedAt = "elapsed" /\ ~halfOpen)

Execute(c) ==
  /\ c \notin running
  /\ LetsThrough
  /\ running' = running \cup {c}
  /\ IF openedAt = "elapsed"
       THEN /\ halfOpen' = TRUE
            /\ generation' = {c}
            /\ probes' = probes \cup {c}
       ELSE /\ generation' = generation \cup {c}
            /\ UNCHANGED <<halfOpen, probes>>
  /\ UNCHANGED <<consecutiveFailures, openedAt>>

OneMoreFailure ==
  IF consecutiveFailures < failureThreshold
    THEN consecutiveFailures + 1 ELSE failureThreshold

\* The second half, by the way the operation ended.  A success closes; the
\* success of a probe starts a new generation.
Success(c) ==
  /\ consecutiveFailures' = 0
  /\ openedAt' = "closed"
  /\ halfOpen' = FALSE
  /\ generation' = IF c \in probes THEN {} ELSE generation \ {c}

\* A failure that countedFailure counts opens when the threshold is reached,
\* and always when it is the probe's.
CountedFailure(c) ==
  /\ consecutiveFailures' = OneMoreFailure
  /\ IF c \in probes \/ OneMoreFailure >= failureThreshold
       THEN openedAt' = "waiting" /\ generation' = {}
       ELSE generation' = generation \ {c} /\ UNCHANGED openedAt
  /\ halfOpen' = IF c \in probes THEN FALSE ELSE halfOpen

\* Any other error, as of a visitor who left, decides nothing: a probe that
\* ends so leaves the circuit open, and the next call is the next probe.
OtherError(c) ==
  /\ halfOpen' = IF c \in probes THEN FALSE ELSE halfOpen
  /\ generation' = generation \ {c}
  /\ UNCHANGED <<consecutiveFailures, openedAt>>

Outcomes == {"success", "counted", "other"}

\* A defect the checks must find: the generation of the call is not compared.
SettleLate(c, outcome) ==
  /\ c \in running
  /\ running' = running \ {c}
  /\ probes' = probes \ {c}
  /\ \/ outcome = "success" /\ Success(c)
     \/ outcome = "counted" /\ CountedFailure(c)
     \/ outcome = "other" /\ OtherError(c)

Settle(c, outcome) ==
  /\ c \in running
  /\ running' = running \ {c}
  /\ probes' = probes \ {c}
  /\ \/ /\ c \notin generation
        /\ UNCHANGED <<consecutiveFailures, openedAt, halfOpen, generation>>
     \/ c \in generation /\ outcome = "success" /\ Success(c)
     \/ c \in generation /\ outcome = "counted" /\ CountedFailure(c)
     \/ c \in generation /\ outcome = "other" /\ OtherError(c)

\* The reset time of the open circuit has passed.
ResetElapses ==
  /\ openedAt = "waiting"
  /\ openedAt' = "elapsed"
  /\ UNCHANGED <<consecutiveFailures, halfOpen, generation, probes, running>>

CircuitNext ==
  \/ \E c \in Calls : Execute(c)
  \/ \E c \in Calls, outcome \in Outcomes : Settle(c, outcome)
  \/ ResetElapses

CircuitSpec == CircuitInit /\ [][CircuitNext]_circuitVars

-----------------------------------------------------------------------------
\* While the circuit is open, the Agent is tried by one call at a time, and
\* the circuit is half open exactly while that call runs: a late end of a
\* call from before neither lets a second probe in nor leaves the circuit
\* half open with no probe that could ever close it.
OneProbeAtATime ==
  /\ IF halfOpen THEN Cardinality(probes) = 1 ELSE probes = {}
  /\ halfOpen => openedAt = "elapsed" /\ generation = probes
  /\ openedAt = "closed" <=> consecutiveFailures < failureThreshold
=============================================================================
