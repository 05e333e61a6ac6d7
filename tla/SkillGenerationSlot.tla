------------------------ MODULE SkillGenerationSlot ------------------------
(***************************************************************************)
(* The slot that serves the materialized Skill generations of one Agent    *)
(* process: one current generation, at most one retired generation that    *)
(* still has runs, a token for the one replacement in progress, the leases *)
(* of the runs, and the task that removes retired directories.             *)
(*                                                                         *)
(* A generation is named by its set (its directory is generation-<set>);   *)
(* NoSet is RuntimeGeneration.unconfigured().  Each slot method takes one  *)
(* lock and is one action; the reaper's removal runs in a thread outside   *)
(* the lock and is two.                                                    *)
(***************************************************************************)
EXTENDS Naturals, FiniteSets

CONSTANTS
  SetIds,   \* sets a generation can be materialized from
  Runs,     \* concurrent run requests
  NoSet     \* the unconfigured generation, or no generation

ASSUME SlotNoSetAssumption == NoSet \notin SetIds
ASSUME RunsAssumption == IsFiniteSet(Runs)

VARIABLES
  current,      \* the entry new runs are given: [set, references]
  retired,      \* the replaced entry; set = NoSet and ~present when empty
  reservation,  \* whether a replacement token is outstanding
  prepared,     \* the generation the holder of the token has materialized
  accepting,    \* _accepting_runs
  leases,       \* pairs <<run, set>>: leases captured and not yet released
  directories,  \* generation directories on disk
  reaper,       \* the reaper task: "off", "waiting", "cleaning", "stopped"
  wakeup,       \* the reaper's asyncio.Event
  phase         \* the manager: "serving", "draining", "drained", "closing"

slotVars == <<current, retired, reservation, prepared, accepting, leases,
              directories, reaper, wakeup, phase>>

Generations == SetIds \cup {NoSet}

NoEntry == [present |-> FALSE, set |-> NoSet, references |-> 0]

SlotTypeOK ==
  /\ current \in [set: Generations, references: Nat]
  /\ retired \in [present: BOOLEAN, set: Generations, references: Nat]
  /\ reservation \in BOOLEAN
  /\ prepared \in Generations
  /\ accepting \in BOOLEAN
  /\ leases \in SUBSET (Runs \X Generations)
  /\ directories \in SUBSET SetIds
  /\ reaper \in {"off", "waiting", "cleaning", "stopped"}
  /\ wakeup \in BOOLEAN
  /\ phase \in {"serving", "draining", "drained", "closing"}

\* The slot of a process that has just started: SkillRuntimeManager.start
\* has removed every stale directory and started the reaper.
SlotInit ==
  /\ current = [set |-> NoSet, references |-> 0]
  /\ retired = NoEntry
  /\ reservation = FALSE
  /\ prepared = NoSet
  /\ accepting = FALSE
  /\ leases = {}
  /\ directories = {}
  /\ reaper = "waiting"
  /\ wakeup = TRUE
  /\ phase = "serving"

\* A process takes the place of one that was killed: its runs are gone, and
\* clean_stale_runtime_root empties the directory before the slot starts.
ProcessStarts ==
  /\ current' = [set |-> NoSet, references |-> 0]
  /\ retired' = NoEntry
  /\ reservation' = FALSE
  /\ prepared' = NoSet
  /\ accepting' = FALSE
  /\ leases' = {}
  /\ directories' = {}
  /\ reaper' = "waiting"
  /\ wakeup' = TRUE
  /\ phase' = "serving"

LeasesOn(s) == {l \in leases : l[2] = s}
HasLease(r) == \E s \in Generations : <<r, s>> \in leases

-----------------------------------------------------------------------------
(* Runs: SkillRuntimeMiddleware captures a lease before the run and        *)
(* releases it when the whole response has been sent.                      *)

Capture(r) ==
  /\ accepting
  /\ ~HasLease(r)
  /\ leases' = leases \cup {<<r, current.set>>}
  /\ current' = [current EXCEPT !.references = @ + 1]
  /\ UNCHANGED <<retired, reservation, prepared, accepting, directories,
                 reaper, wakeup, phase>>

\* Variant: releasing wakes the reaper only from the current entry.
ReleaseWithoutNotify(r, s) ==
  /\ <<r, s>> \in leases
  /\ leases' = leases \ {<<r, s>>}
  /\ IF current.set = s
     THEN /\ current' = [current EXCEPT !.references = @ - 1]
          /\ UNCHANGED retired
     ELSE /\ retired' = [retired EXCEPT !.references = @ - 1]
          /\ UNCHANGED current
  /\ UNCHANGED <<wakeup, reservation, prepared, accepting, directories,
                 reaper, phase>>

\* Variant: a lease may be released twice, and the counter has no floor.
ReleaseTwice(r, s) ==
  /\ leases' = leases \ {<<r, s>>}
  /\ IF current.set = s
     THEN /\ current' = [current EXCEPT !.references = @ - 1]
          /\ UNCHANGED retired
     ELSE /\ retired' = [retired EXCEPT !.references = @ - 1]
          /\ UNCHANGED current
  /\ UNCHANGED <<wakeup, reservation, prepared, accepting, directories,
                 reaper, phase>>

\* Variant: a lease is counted down on the entry that is current now, not on
\* the one it was taken from.
ReleaseFromCurrent(r, s) ==
  /\ <<r, s>> \in leases
  /\ leases' = leases \ {<<r, s>>}
  /\ current.references > 0
  /\ current' = [current EXCEPT !.references = @ - 1]
  /\ UNCHANGED <<retired, wakeup, reservation, prepared, accepting,
                 directories, reaper, phase>>

\* GenerationLease.release and SkillGenerationSlot._release: the lease keeps
\* the entry it was taken from, whether that is still current or retired.
Release(r, s) ==
  /\ <<r, s>> \in leases
  /\ leases' = leases \ {<<r, s>>}
  /\ IF current.set = s
     THEN /\ current' = [current EXCEPT !.references = @ - 1]
          /\ UNCHANGED <<retired, wakeup>>
     ELSE /\ retired' = [retired EXCEPT !.references = @ - 1]
          /\ wakeup' = (wakeup \/ retired.references = 1)
          /\ UNCHANGED current
  /\ UNCHANGED <<reservation, prepared, accepting, directories, reaper, phase>>

-----------------------------------------------------------------------------
(* Replacement: reserve, materialize, then commit or discard and cancel.   *)

ReserveReplacement ==
  /\ ~reservation
  /\ ~retired.present
  /\ reservation' = TRUE
  /\ UNCHANGED <<current, retired, prepared, accepting, leases, directories,
                 reaper, wakeup, phase>>

\* SkillGenerationMaterializer.prepare refuses a directory that exists.
Prepare(s) ==
  /\ reservation
  /\ prepared = NoSet
  /\ s \notin directories
  /\ prepared' = s
  /\ directories' = directories \cup {s}
  /\ UNCHANGED <<current, retired, reservation, accepting, leases, reaper,
                 wakeup, phase>>

\* discard_generation: a failed removal is only logged.
Discard(removed) ==
  /\ prepared # NoSet
  /\ directories' = IF removed THEN directories \ {prepared} ELSE directories
  /\ prepared' = NoSet
  /\ UNCHANGED <<current, retired, reservation, accepting, leases, reaper,
                 wakeup, phase>>

\* GenerationReservation.cancel.  The reconciliation also reopens the slot it
\* closed, set_accepting_runs(not self._draining), before it yields.
CancelReservation(reopen) ==
  /\ reservation
  /\ prepared = NoSet
  /\ reservation' = FALSE
  /\ accepting' = IF reopen THEN phase = "serving" ELSE accepting
  /\ UNCHANGED <<current, retired, prepared, leases, directories, reaper,
                 wakeup, phase>>

\* GenerationReservation.commit and _commit_reservation: the old entry retires
\* unless it is the unconfigured one without runs; with no runs left the
\* reaper is told at once.  Each caller then opens the slot unless it drains,
\* before it yields.
CommitReservation ==
  /\ reservation
  /\ ~retired.present
  /\ prepared # NoSet
  /\ current' = [set |-> prepared, references |-> 0]
  /\ reservation' = FALSE
  /\ prepared' = NoSet
  /\ accepting' = (phase = "serving")
  /\ IF current.references > 0 \/ current.set # NoSet
     THEN /\ retired' = [present |-> TRUE, set |-> current.set,
                         references |-> current.references]
          /\ wakeup' = (wakeup \/ current.references = 0)
     ELSE UNCHANGED <<retired, wakeup>>
  /\ UNCHANGED <<leases, directories, reaper, phase>>

SetAcceptingRuns(value) ==
  /\ accepting' = value
  /\ UNCHANGED <<current, retired, reservation, prepared, leases, directories,
                 reaper, wakeup, phase>>

-----------------------------------------------------------------------------
(* The reaper: _run_reaper                                                 *)

Reapable == retired.present /\ retired.references = 0

\* Variant: the directory is removed on the first pass, runs or no runs.
ReaperWakesEagerly ==
  /\ reaper = "waiting"
  /\ wakeup
  /\ wakeup' = FALSE
  /\ reaper' = IF retired.present THEN "cleaning"
               ELSE IF phase = "closing" THEN "stopped" ELSE "waiting"
  /\ UNCHANGED <<current, retired, reservation, prepared, accepting, leases,
                 directories, phase>>

\* One pass: wait for the event, clear it, take the retired entry if it is
\* free, else stop when the slot is closing, else wait again.
ReaperWakes ==
  /\ reaper = "waiting"
  /\ wakeup
  /\ wakeup' = FALSE
  /\ reaper' = IF Reapable THEN "cleaning"
               ELSE IF phase = "closing" THEN "stopped" ELSE "waiting"
  /\ UNCHANGED <<current, retired, reservation, prepared, accepting, leases,
                 directories, phase>>

\* The thread has removed the directory, or failed to; either way the entry
\* is dropped and the loop looks again before it waits.
ReaperCleaned(removed) ==
  /\ reaper = "cleaning"
  /\ directories' = IF removed THEN directories \ {retired.set}
                    ELSE directories
  /\ retired' = NoEntry
  /\ reaper' = IF phase = "closing" THEN "stopped" ELSE "waiting"
  /\ UNCHANGED <<current, reservation, prepared, accepting, leases, wakeup,
                 phase>>

-----------------------------------------------------------------------------
(* Shutdown: SkillRuntimeManager.shutdown                                  *)

\* Variant: draining does not stop new runs.
BeginDrainingOpen ==
  /\ phase = "serving"
  /\ phase' = "draining"
  /\ UNCHANGED <<current, retired, reservation, prepared, accepting, leases,
                 directories, reaper, wakeup>>

BeginDraining ==
  /\ phase = "serving"
  /\ phase' = "draining"
  /\ accepting' = FALSE
  /\ UNCHANGED <<current, retired, reservation, prepared, leases, directories,
                 reaper, wakeup>>

\* wait_leases_drained, wait_reaped and cleanup_current, which refuses while
\* the current entry is referenced.
CleanupCurrent(removed) ==
  /\ phase = "draining"
  /\ current.references = 0
  /\ ~retired.present
  /\ directories' = IF removed THEN directories \ {current.set}
                    ELSE directories
  /\ phase' = "drained"
  /\ UNCHANGED <<current, retired, reservation, prepared, accepting, leases,
                 reaper, wakeup>>

\* Variant: closing forgets to wake the reaper.
CloseUnnoticed ==
  /\ phase \in {"draining", "drained"}
  /\ phase' = "closing"
  /\ accepting' = FALSE
  /\ UNCHANGED <<current, retired, reservation, prepared, leases, directories,
                 reaper, wakeup>>

\* aclose, after the drain or after its timeout.
Close ==
  /\ phase \in {"draining", "drained"}
  /\ phase' = "closing"
  /\ accepting' = FALSE
  /\ wakeup' = TRUE
  /\ UNCHANGED <<current, retired, reservation, prepared, leases, directories,
                 reaper>>

-----------------------------------------------------------------------------

\* What the one user of the slot, the activation coordinator, calls and when:
\* it admits nothing once it is draining, its shutdown waits for the operation
\* in progress (SkillActivationCoordinator.wait_idle) before the manager goes
\* on, and a reconciliation that is told to stop leaves its token behind.
CoordinatorCalls ==
  \/ /\ phase \in {"serving", "draining"}
     /\ \/ ReserveReplacement
        \/ \E s \in SetIds : Prepare(s)
        \/ \E removed \in BOOLEAN : Discard(removed)
        \/ \E reopen \in BOOLEAN : CancelReservation(reopen)
        \/ CommitReservation
  \/ \E value \in BOOLEAN :
       phase = "serving" /\ value # accepting /\ SetAcceptingRuns(value)

RunCalls ==
  \/ \E r \in Runs : Capture(r)
  \/ \E r \in Runs, s \in Generations : Release(r, s)

ReaperSteps ==
  \/ ReaperWakes
  \/ \E removed \in BOOLEAN : ReaperCleaned(removed)

ManagerShutdown ==
  \/ BeginDraining
  \/ \E removed \in BOOLEAN : CleanupCurrent(removed)
  \/ Close

SlotNext ==
  CoordinatorCalls \/ RunCalls \/ ReaperSteps \/ ManagerShutdown \/ ProcessStarts

\* The reaper is a task of a running loop, a cleaning thread returns, and
\* every run's response ends (the proxy closes idle streams).
SlotFairness ==
  /\ WF_slotVars(ReaperWakes)
  /\ WF_slotVars(\E removed \in BOOLEAN : ReaperCleaned(removed))
  /\ \A r \in Runs : WF_slotVars(\E s \in Generations : Release(r, s))

SlotSafety == SlotInit /\ [][SlotNext]_slotVars

SlotSpec == SlotSafety /\ SlotFairness

-----------------------------------------------------------------------------
(* Properties                                                              *)

\* The counters the reaper decides on are the leases the runs hold: each
\* lease is on the current or on the retired entry, and each entry's
\* references are exactly the leases on it.
ReferencesAreLeases ==
  /\ current.references = Cardinality(LeasesOn(current.set))
  /\ retired.present => retired.references = Cardinality(LeasesOn(retired.set))
  /\ ~retired.present => retired = NoEntry
  /\ \A l \in leases : l[2] = current.set \/ (retired.present /\ l[2] = retired.set)

\* No run ever loses the files of the generation it was given: neither the
\* reaper, nor a discard, nor the shutdown removes a directory under lease.
LeasedDirectoryPresent ==
  \A l \in leases : l[2] # NoSet => l[2] \in directories

\* The generation new runs are given is on disk whenever runs are accepted,
\* and the generation being prepared shares no directory with one in use.
AcceptedGenerationPresent ==
  /\ accepting /\ current.set # NoSet => current.set \in directories
  /\ prepared # NoSet => /\ prepared \in directories
                         /\ prepared # current.set
                         /\ retired.present => prepared # retired.set
  /\ retired.present => retired.set # current.set

\* What makes the three invariants above inductive: the counters count a
\* finite set, only a token holder prepares and it waits for the retired
\* entry to go, the reaper works on a free entry, runs are let in only while
\* serving, and every entry in use is on disk until the shutdown removes it.
SlotInv ==
  /\ SlotTypeOK
  /\ ReferencesAreLeases
  /\ LeasedDirectoryPresent
  /\ AcceptedGenerationPresent
  /\ IsFiniteSet(leases)
  /\ reservation => ~retired.present
  /\ prepared # NoSet => reservation
  /\ reaper = "cleaning" => Reapable
  /\ accepting => phase = "serving"
  /\ phase \in {"serving", "draining"} /\ current.set # NoSet =>
       current.set \in directories

\* A replaced generation does not stay on disk for ever: once its runs end
\* the reaper drops it, unless the slot was closed over it on a timeout.
RetiredIsReaped == retired.present ~> (~retired.present \/ phase = "closing")

\* Closing the slot ends the reaper task, so that shutdown returns (unless the
\* process is killed and another one serves).
CloseStopsReaper ==
  phase = "closing" ~> (reaper = "stopped" \/ phase = "serving")
=============================================================================
