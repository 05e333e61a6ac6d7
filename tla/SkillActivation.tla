-------------------------- MODULE SkillActivation --------------------------
(***************************************************************************)
(* SkillActivationCoordinator of the Agent, between the registry database  *)
(* (SkillRegistry) and the slot that serves runs (SkillGenerationSlot).    *)
(*                                                                         *)
(* An activation reads the pointer and the candidate, materializes the     *)
(* candidate, moves the pointer in the database and then swaps the slot.   *)
(* Between two awaits anything may happen: runs start and end, the         *)
(* administrator discards the candidate or archives its Skill, the caller  *)
(* gives up, the process drains or is killed.  A database call may fail    *)
(* before or after its effect, and a COMMIT that was sent may take effect  *)
(* after the caller has seen the error (inFlight).                         *)
(*                                                                         *)
(* Each set is activated by one command at most: the caller makes a new    *)
(* set for every change, and the command's assertion may be used once.     *)
(***************************************************************************)
EXTENDS SkillRegistry

CONSTANTS
  Runs,         \* run requests the Agent may serve at once
  MaxRestarts   \* BOUND: process deaths

ASSUME ActivationRunsAssumption == IsFiniteSet(Runs)
ASSUME RestartsAssumption == MaxRestarts \in Nat
ASSUME RequestsAssumption == Requests = SetIds \X {"create", "discard", "activate"}

VARIABLES
  current, retired, reservation, prepared, accepting, leases, directories,
  reaper, wakeup, phase,   \* the slot
  op,         \* the one operation that holds _activation_lock
  status,     \* SkillRuntimeStatus, without the failure code
  answer,     \* what the caller of the activation of a set was told
  inFlight,   \* the set whose COMMIT was sent and is not yet decided
  restarts    \* process deaths so far

slotVars == <<current, retired, reservation, prepared, accepting, leases,
              directories, reaper, wakeup, phase>>
activationVars == <<op, status, answer, inFlight, restarts>>
vars == <<registryVars, slotVars, activationVars>>

Slot == INSTANCE SkillGenerationSlot

Snapshot == Pointer   \* load_active; active = NoSet stands for None

Steps == {"idle",           \* the lock is free
          "restoring",      \* restore: about to read the pointer
          "restorePrepare", \* restore: token held, materializing
          "restoreCommit",  \* restore: materialized
          "loading",        \* activate: reading the pointer
          "candidate",      \* activate: reading the candidate
          "preparing",      \* activate: materializing in a thread
          "abandoned",      \* the caller left; the thread still materializes
          "marking",        \* candidate refused, mark_failed in progress
          "committing",     \* activate_agent_skill_set sent
          "applied",        \* the transaction committed, answer on its way
          "reconciling",    \* _reconcile_unknown: reading the outcome
          "failing",        \* _reconcile_unknown: mark_failed in progress
          "cleanup"}        \* discard what was prepared, return the token

Answers == {"none", "waiting", "ok", "degraded", "conflict", "busy",
            "invalid", "storage", "timeout", "unknown"}

NoSnapshot == [active |-> NoSet, previous |-> NoSet, version |-> 0]

\* reopen: the cleanup ends with set_accepting_runs(not self._draining);
\* finish: what it does to the status; code: what the caller is then told.
Idle == [step |-> "idle", set |-> NoSet, version |-> 0, active |-> NoSnapshot,
         reopen |-> FALSE, finish |-> "keep", code |-> "none"]

StatusWith(capability, snapshot, loaded) ==
  [capability |-> capability, active |-> snapshot.active, loaded |-> loaded,
   previous |-> snapshot.previous, version |-> snapshot.version]

ActivationTypeOK ==
  /\ RegistryTypeOK
  /\ Slot!SlotTypeOK
  /\ op \in [step: Steps, set: Slot!Generations, version: Nat, active: Snapshot,
             reopen: BOOLEAN, finish: {"keep", "restore", "degrade"},
             code: Answers]
  /\ status \in [capability: {"unconfigured", "preparing", "ready", "degraded"},
                 active: Slot!Generations, loaded: Slot!Generations,
                 previous: Slot!Generations, version: Nat]
  /\ answer \in [SetIds -> Answers]
  /\ inFlight \in Slot!Generations
  /\ restarts \in 0..MaxRestarts

ActivationInit ==
  /\ RegistryInit
  /\ Slot!SlotInit
  /\ op = [Idle EXCEPT !.step = "restoring"]
  /\ status = StatusWith("unconfigured", NoSnapshot, NoSet)
  /\ answer = [s \in SetIds |-> "none"]
  /\ inFlight = NoSet
  /\ restarts = 0

-----------------------------------------------------------------------------
(* Helpers                                                                 *)

Command(s) == <<s, "activate">>

\* _restore_status and _degrade leave the loaded set as the slot has it.
RestoreStatus(snapshot) ==
  status' = StatusWith(IF current.set # NoSet THEN "ready" ELSE "unconfigured",
                       snapshot, current.set)
Degrade(snapshot) ==
  /\ Slot!SetAcceptingRuns(FALSE)
  /\ status' = StatusWith("degraded", snapshot, current.set)

IsConsistent(snapshot) == current.set = snapshot.active

IsReady ==
  /\ status.capability # "degraded"
  /\ IF status.loaded = NoSet THEN status.active = NoSet
     ELSE status.active = status.loaded /\ status.version >= 1

\* The caller still waits: a deadline or a closed connection ends that.
Tell(s, code) ==
  answer' = IF answer[s] = "waiting" THEN [answer EXCEPT ![s] = code] ELSE answer

Release == op' = Idle
Goto(step) == op' = [op EXCEPT !.step = step]

\* Enter the cleanup.  Its order is the code's: remove what was prepared,
\* return the token, and only then free the lock.
CleanUp(reopen, finish, code) ==
  op' = [op EXCEPT !.step = "cleanup", !.reopen = reopen, !.finish = finish,
                   !.code = code]

\* The advisory lock of the registry: a transaction that is committing holds
\* it, so nothing else changes a set until that is decided.
RegistryFree == inFlight = NoSet

-----------------------------------------------------------------------------
(* restore: the pointer decides what a started process serves              *)

\* load_active.  A COMMIT of the dead process reached the database before the
\* new one opened its pool.
RestoreLoads ==
  /\ op.step = "restoring"
  /\ RegistryFree
  /\ IF pointer.active = NoSet
     THEN /\ Slot!SetAcceptingRuns(TRUE)
          /\ RestoreStatus(pointer)
          /\ Release
     ELSE /\ Slot!ReserveReplacement
          /\ op' = [op EXCEPT !.step = "restorePrepare", !.active = pointer,
                              !.set = pointer.active]
          /\ UNCHANGED status
  /\ UNCHANGED <<registryVars, answer, inFlight, restarts>>

RestorePrepares ==
  /\ op.step = "restorePrepare"
  /\ Slot!Prepare(op.set)
  /\ Goto("restoreCommit")
  /\ UNCHANGED <<registryVars, status, answer, inFlight, restarts>>

RestoreCommits ==
  /\ op.step = "restoreCommit"
  /\ Slot!CommitReservation
  /\ status' = StatusWith("ready", op.active, op.set)
  /\ Release
  /\ UNCHANGED <<registryVars, answer, inFlight, restarts>>

\* The read, the materialization or the validation fails: runs stay refused
\* until the process is restarted.
RestoreFails ==
  /\ op.step \in {"restoring", "restorePrepare", "restoreCommit"}
  /\ IF reservation
     THEN /\ CleanUp(FALSE, "degrade", "none")
          /\ UNCHANGED <<slotVars, status>>
     ELSE Degrade(op.active) /\ Release
  /\ UNCHANGED <<registryVars, answer, inFlight, restarts>>

-----------------------------------------------------------------------------
(* activate: up to the materialized candidate                              *)

\* The command is refused while draining, degraded or busy, and that changes
\* nothing; otherwise it takes the lock.
Admit(s, version) ==
  /\ op.step = "idle"
  /\ phase = "serving"
  /\ status.capability # "degraded"
  /\ setState[s] # "absent"
  /\ answer[s] = "none"
  /\ answer' = [answer EXCEPT ![s] = "waiting"]
  /\ op' = [Idle EXCEPT !.step = "loading", !.set = s, !.version = version]
  /\ UNCHANGED <<registryVars, slotVars, status, inFlight, restarts>>

\* load_active, the consistency check and the version check.
ActivateLoads ==
  /\ op.step = "loading"
  /\ CASE ~IsConsistent(pointer) ->
            /\ Degrade(pointer)
            /\ Tell(op.set, "degraded")
            /\ Release
       [] IsConsistent(pointer) /\ pointer.version # op.version ->
            /\ Tell(op.set, "conflict")
            /\ Release
            /\ UNCHANGED <<slotVars, status>>
       [] OTHER ->
            /\ op' = [op EXCEPT !.step = "candidate", !.active = pointer]
            /\ UNCHANGED <<slotVars, status, answer>>
  /\ UNCHANGED <<registryVars, inFlight, restarts>>

\* A read fails.  Before the pointer was read, active is still None.
ActivateLoadFails ==
  /\ op.step \in {"loading", "candidate"}
  /\ RestoreStatus(op.active)
  /\ Tell(op.set, "storage")
  /\ Release
  /\ UNCHANGED <<registryVars, slotVars, inFlight, restarts>>

\* load_candidate and reserve_replacement.
CandidateInvalid ==
  /\ op.step = "candidate"
  /\ setState[op.set] # "candidate"
  /\ RestoreStatus(op.active)
  /\ Tell(op.set, "invalid")
  /\ Release
  /\ UNCHANGED <<registryVars, slotVars, inFlight, restarts>>

SlotBusy ==
  /\ op.step = "candidate"
  /\ setState[op.set] = "candidate"
  /\ reservation \/ retired.present
  /\ Tell(op.set, "busy")
  /\ Release
  /\ UNCHANGED <<registryVars, slotVars, status, inFlight, restarts>>

Reserve ==
  /\ op.step = "candidate"
  /\ setState[op.set] = "candidate"
  /\ Slot!ReserveReplacement
  /\ status' = StatusWith("preparing", op.active, current.set)
  /\ Goto("preparing")
  /\ UNCHANGED <<registryVars, answer, inFlight, restarts>>

\* The materialized generation is valid, or the validator refuses it.
Materialize(valid) ==
  /\ op.step = "preparing"
  /\ Slot!Prepare(op.set)
  /\ Goto(IF valid THEN "committing" ELSE "marking")
  /\ UNCHANGED <<registryVars, status, answer, inFlight, restarts>>

\* prepare removes what it wrote before it raises.
MaterializeFails ==
  /\ op.step = "preparing"
  /\ Goto("marking")
  /\ UNCHANGED <<registryVars, slotVars, status, answer, inFlight, restarts>>

\* _mark_failed is best effort; the status is restored whatever it did.
MarkRefusedCandidate(applied) ==
  /\ op.step = "marking"
  /\ IF applied
     THEN RegistryFree /\ MarkFailed(op.set, op.version, Command(op.set))
     ELSE UNCHANGED registryVars
  /\ RestoreStatus(op.active)
  /\ CleanUp(FALSE, "keep", "invalid")
  /\ UNCHANGED <<slotVars, answer, inFlight, restarts>>

\* The deadline passes or the caller is gone, at an await before the commit
\* task exists.  Outside the materialization the finally block cleans up and
\* leaves the status as it is; the materialization is finished by a task.
GiveUp ==
  /\ op.step \in {"loading", "candidate", "preparing", "marking"}
  /\ Tell(op.set, "timeout")
  /\ CASE op.step = "preparing" -> Goto("abandoned")
       [] op.step = "marking" -> CleanUp(FALSE, "keep", "timeout")
       [] OTHER -> Release
  /\ UNCHANGED <<registryVars, slotVars, status, inFlight, restarts>>

\* _finish_abandoned_prepare
AbandonedPrepares ==
  /\ op.step = "abandoned"
  /\ Slot!Prepare(op.set)
  /\ CleanUp(FALSE, "restore", "timeout")
  /\ UNCHANGED <<registryVars, status, answer, inFlight, restarts>>

AbandonedFails ==
  /\ op.step = "abandoned"
  /\ CleanUp(FALSE, "restore", "timeout")
  /\ UNCHANGED <<registryVars, slotVars, status, answer, inFlight, restarts>>

\* discard_generation, then the token, the slot, the status and the lock.
CleanupDiscards(removed) ==
  /\ op.step = "cleanup"
  /\ Slot!Discard(removed)
  /\ UNCHANGED <<registryVars, activationVars>>

CleanupEnds ==
  /\ op.step = "cleanup"
  /\ Slot!CancelReservation(op.reopen)
  /\ CASE op.finish = "restore" -> RestoreStatus(op.active)
       [] op.finish = "degrade" ->
            status' = StatusWith("degraded", op.active, current.set)
       [] OTHER -> UNCHANGED status
  /\ IF op.code = "none" THEN UNCHANGED answer ELSE Tell(op.set, op.code)
  /\ Release
  /\ UNCHANGED <<registryVars, inFlight, restarts>>

-----------------------------------------------------------------------------
(* activate: _commit_phase, a task the caller cannot cancel                *)

CommitApplies ==
  /\ op.step = "committing"
  /\ RegistryFree
  /\ Activate(op.set, op.version, Command(op.set))
  /\ Goto("applied")
  /\ UNCHANGED <<slotVars, status, answer, inFlight, restarts>>

\* A guard of activate_agent_skill_set or of its triggers refuses.
CommitRejected ==
  /\ op.step = "committing"
  /\ RegistryFree
  /\ \/ /\ ActivateConflict(op.set, op.version, Command(op.set))
        /\ CleanUp(FALSE, "restore", "conflict")
     \/ /\ ~ActivateConflict(op.set, op.version, Command(op.set))
        /\ ActivateInvalid(op.set)
        /\ CleanUp(FALSE, "restore", "invalid")
  /\ UNCHANGED <<registryVars, slotVars, status, answer, inFlight, restarts>>

\* The server cancels the statement after five seconds.
CommitTimesOut ==
  /\ op.step = "committing"
  /\ CleanUp(FALSE, "restore", "timeout")
  /\ UNCHANGED <<registryVars, slotVars, status, answer, inFlight, restarts>>

\* The connection is lost before the transaction, or after COMMIT was sent;
\* runs are refused and the caller is told the code.
LoseCommit(sent, code) ==
  /\ op.step = "committing"
  /\ IF sent
     THEN /\ RegistryFree
          /\ ~ActivateConflict(op.set, op.version, Command(op.set))
          /\ ~ActivateInvalid(op.set)
          /\ inFlight' = op.set
     ELSE UNCHANGED inFlight
  /\ Degrade(op.active)
  /\ Tell(op.set, code)
  /\ Goto("reconciling")
  /\ UNCHANGED <<registryVars, restarts>>

\* Variant: an unknown commit is answered as a plain storage failure.
CommitUnknownIsFailure(sent) == LoseCommit(sent, "storage")

CommitUnknown(sent) == LoseCommit(sent, "unknown")

\* Variant: runs go on while the outcome of the commit is unknown.
AnswerLostServing ==
  /\ op.step = "applied"
  /\ Tell(op.set, "unknown")
  /\ Goto("reconciling")
  /\ UNCHANGED <<registryVars, slotVars, status, inFlight, restarts>>

\* The answer of a committed transaction is lost.
AnswerLost ==
  /\ op.step = "applied"
  /\ Degrade(op.active)
  /\ Tell(op.set, "unknown")
  /\ Goto("reconciling")
  /\ UNCHANGED <<registryVars, inFlight, restarts>>

\* The slot and the status follow the database.
Install ==
  /\ Slot!CommitReservation
  /\ status' = StatusWith("ready",
                 [active |-> op.set, previous |-> op.active.active,
                  version |-> op.version + 1], op.set)
  /\ Tell(op.set, "ok")
  /\ Release

AnswerArrives ==
  /\ op.step = "applied"
  /\ Install
  /\ UNCHANGED <<registryVars, inFlight, restarts>>

\* The deadline of the command passes while the task goes on.
CallerLeaves ==
  /\ op.step \in {"committing", "applied"}
  /\ answer[op.set] = "waiting"
  /\ Tell(op.set, "timeout")
  /\ UNCHANGED <<registryVars, slotVars, op, status, inFlight, restarts>>

-----------------------------------------------------------------------------
(* _reconcile_unknown: read the registry until it tells the outcome        *)

PointerUnchanged == pointer = op.active

\* Variant: the set is installed whatever state the registry reports.
ReconcileInstalls ==
  /\ op.step = "reconciling"
  /\ phase = "serving"
  /\ Install
  /\ UNCHANGED <<registryVars, inFlight, restarts>>

ReconcileSeesActive ==
  /\ op.step = "reconciling"
  /\ phase = "serving"
  /\ setState[op.set] = "active"
  /\ pointer = [active |-> op.set, previous |-> op.active.active,
                version |-> op.version + 1]
  /\ Install
  /\ UNCHANGED <<registryVars, inFlight, restarts>>

ReconcileSeesCandidate ==
  /\ op.step = "reconciling"
  /\ phase = "serving"
  /\ setState[op.set] = "candidate"
  /\ PointerUnchanged
  /\ Goto("failing")
  /\ UNCHANGED <<registryVars, slotVars, status, answer, inFlight, restarts>>

\* The set has ended otherwise: the old generation goes on.
ReconcileEnds(states) ==
  /\ op.step = "reconciling"
  /\ phase = "serving"
  /\ setState[op.set] \in states
  /\ PointerUnchanged
  /\ CleanUp(TRUE, "restore", "unknown")
  /\ UNCHANGED <<registryVars, slotVars, status, answer, inFlight, restarts>>

\* Variant: only "failed" ends the loop, a discarded candidate does not.
ReconcileSeesFailed == ReconcileEnds({"failed"})

ReconcileSeesEnded == ReconcileEnds({"failed", "discarded"})

\* Variant: a set that is still a candidate is given up without marking it.
ReconcileForgets ==
  /\ op.step = "failing"
  /\ CleanUp(TRUE, "restore", "unknown")
  /\ UNCHANGED <<registryVars, slotVars, status, answer, inFlight, restarts>>

\* mark_failed is the fence: it waits for the advisory lock, so it decides
\* against a COMMIT that is still on its way.
FenceCandidate(reopen) ==
  /\ op.step = "failing"
  /\ RegistryFree
  /\ MarkFailed(op.set, op.version, Command(op.set))
  /\ CleanUp(reopen, "restore", "unknown")
  /\ UNCHANGED <<slotVars, status, answer, inFlight, restarts>>

\* Variant: the slot stays closed after the outcome is known.
ReconcileFailsClosed == FenceCandidate(FALSE)

ReconcileFails == FenceCandidate(TRUE)

\* mark_failed raises, finds the set no longer a candidate, or its answer is
\* lost after it took effect.
ReconcileRetries(applied) ==
  /\ op.step = "failing"
  /\ IF applied
     THEN RegistryFree /\ MarkFailed(op.set, op.version, Command(op.set))
     ELSE UNCHANGED registryVars
  /\ Goto("reconciling")
  /\ UNCHANGED <<slotVars, status, answer, inFlight, restarts>>

\* The loop ends when the coordinator drains; the token is never returned.
ReconcileStops ==
  /\ op.step = "reconciling"
  /\ phase # "serving"
  /\ Release
  /\ UNCHANGED <<registryVars, slotVars, status, answer, inFlight, restarts>>

\* The registry decides the COMMIT that was on its way.
InFlightDecided(applied) ==
  /\ inFlight # NoSet
  /\ IF applied
     THEN Activate(inFlight, pointer.version, Command(inFlight))
     ELSE UNCHANGED registryVars
  /\ inFlight' = NoSet
  /\ UNCHANGED <<slotVars, op, status, answer, restarts>>

-----------------------------------------------------------------------------
(* The rest of the process and of the platform                             *)

\* Uploading, archiving, creating and discarding, by the Web and Registry.
Administrator ==
  /\ RegistryFree
  /\ \/ \E r \in Revisions : UploadSkill(r)
     \/ \E k \in Skills, expected \in Revisions : ArchiveSkill(k, expected)
     \/ \E s \in SetIds, revisions \in SUBSET Revisions :
          CreateSet(s, revisions, <<s, "create">>)
     \/ \E s \in SetIds : DiscardSet(s, <<s, "discard">>)
  /\ UNCHANGED <<slotVars, activationVars>>

RunsAndReaper ==
  /\ Slot!RunCalls \/ Slot!ReaperSteps
  /\ UNCHANGED <<registryVars, activationVars>>

\* The lifespan of the server awaits the restore before it serves, and lets
\* the manager shut down only after that.
Restoring ==
  \/ op.step \in {"restoring", "restorePrepare", "restoreCommit"}
  \/ op.step = "cleanup" /\ op.finish = "degrade"

\* The server has ended its requests before the manager shuts down, and
\* wait_idle ends the operation in progress before the slot is closed.
Shutdown ==
  /\ \/ ~Restoring /\ Slot!BeginDraining
     \/ /\ op.step = "idle"
        /\ \/ \E removed \in BOOLEAN : Slot!CleanupCurrent(removed)
           \/ Slot!Close
  /\ UNCHANGED <<registryVars, activationVars>>

\* The process is killed, or has shut down, and another one starts.
Restart ==
  /\ restarts < MaxRestarts
  /\ restarts' = restarts + 1
  /\ Slot!ProcessStarts
  /\ op' = [Idle EXCEPT !.step = "restoring"]
  /\ status' = StatusWith("unconfigured", NoSnapshot, NoSet)
  /\ answer' = [s \in SetIds |->
                  IF answer[s] = "waiting" THEN "timeout" ELSE answer[s]]
  /\ inFlight' \in {inFlight} \cup
       (IF /\ op.step = "committing" /\ RegistryFree
           /\ ~ActivateConflict(op.set, op.version, Command(op.set))
           /\ ~ActivateInvalid(op.set)
        THEN {op.set} ELSE {})
  /\ UNCHANGED registryVars

RestoreNext == RestoreLoads \/ RestorePrepares \/ RestoreCommits \/ RestoreFails

PrepareNext ==
  \/ ActivateLoads \/ ActivateLoadFails \/ CandidateInvalid \/ SlotBusy
  \/ Reserve
  \/ \E valid \in BOOLEAN : Materialize(valid)
  \/ MaterializeFails
  \/ \E applied \in BOOLEAN : MarkRefusedCandidate(applied)
  \/ GiveUp
  \/ AbandonedPrepares \/ AbandonedFails

CleanupNext ==
  \/ \E removed \in BOOLEAN : CleanupDiscards(removed)
  \/ CleanupEnds

CommitNext ==
  \/ CommitApplies \/ CommitRejected \/ CommitTimesOut
  \/ \E sent \in BOOLEAN : CommitUnknown(sent)
  \/ AnswerArrives \/ AnswerLost

ReconcileNext ==
  \/ ReconcileSeesActive \/ ReconcileSeesCandidate \/ ReconcileSeesEnded
  \/ ReconcileFails
  \/ \E applied \in BOOLEAN : ReconcileRetries(applied)
  \/ ReconcileStops

ActivationNext ==
  \/ \E s \in SetIds : \E version \in 0..pointer.version : Admit(s, version)
  \/ RestoreNext \/ PrepareNext \/ CleanupNext \/ CommitNext \/ ReconcileNext
  \/ CallerLeaves
  \/ \E applied \in BOOLEAN : InFlightDecided(applied)
  \/ Administrator \/ RunsAndReaper \/ Shutdown \/ Restart

ActivationSpec == ActivationInit /\ [][ActivationNext]_vars

\* The operation in progress goes on: each of its awaits ends with an answer,
\* an error or its deadline, and the reconciliation, which has none, retries.
\* The database decides what was sent to it and at last accepts a mark_failed
\* that is retried for ever.
ActivationFairness ==
  /\ WF_vars(RestoreNext \/ PrepareNext \/ CleanupNext \/ CommitNext
             \/ ReconcileNext)
  /\ WF_vars(\E applied \in BOOLEAN : InFlightDecided(applied))
  /\ SF_vars(ReconcileFails)

FairActivationSpec == ActivationSpec /\ ActivationFairness

-----------------------------------------------------------------------------
(* Properties                                                              *)

\* When no operation is in progress, a process that calls itself ready has
\* loaded exactly the set the database points at and shows its version,
\* whatever was lost, late, discarded or restarted on the way.
ReadyMeansLoaded ==
  op.step = "idle" /\ IsReady =>
    current.set = pointer.active /\ status.version = pointer.version

\* While runs are let in, the generation they are given is the one the
\* database points at; only between the commit in the database and the swap
\* in the slot may it be the set that was active before.
AcceptedRunsAreCurrent ==
  accepting =>
    \/ current.set = pointer.active
    \/ op.step = "applied" /\ current.set = op.active.active

\* No run is ever served by a set that was not activated: not by one that is
\* still a candidate, was marked failed or was discarded.
ServedSetsWereActivated ==
  \A s \in {current.set} \cup {l[2] : l \in leases} :
    s # NoSet => setState[s] \in {"active", "superseded"}

WasActivated(s) == \E e \in events : e.action = "activate" /\ e.target = s

\* The answers are final: a set whose activation was answered "ok" went
\* live, one answered with a refusal never does.  ("timeout" and "unknown"
\* promise nothing; a refusal is not among what reconciliation may reverse.)
AnswersAreFinal ==
  \A s \in SetIds :
    /\ answer[s] = "ok" => WasActivated(s)
    /\ answer[s] \in {"degraded", "conflict", "busy", "invalid", "storage"} =>
         ~WasActivated(s) /\ inFlight # s

\* Every operation gives the activation lock back, also when its caller has
\* left, its candidate is discarded under it or its commit is unknown: an
\* Agent that never is free again could only be restarted.
LockIsReleased == op.step # "idle" ~> op.step = "idle"

\* Runs, refused while the outcome of a commit is unknown, are let in again.
UnknownIsResolved ==
  op.step = "reconciling" ~>
    (accepting \/ phase # "serving" \/ op.step = "restoring")

\* What the Registry design (13.2) says of the swap: "数据库提交与内存引用替换之间
\* 不执行任何可失败操作，也不放行新 run": a run that starts is given the set the
\* database points at.
RunsStartOnActiveSet ==
  [][\A l \in leases' \ leases : l[2] = pointer.active]_vars

\* What the same section says of a candidate whose preparation, wait or CAS
\* failed: "candidate set 标记 `failed` 并写脱敏错误类别".
RefusedCandidatesAreMarked ==
  [][op.step = "cleanup" /\ op.finish = "restore" /\ op'.step = "idle" =>
       setState[op.set] \in {"failed", "discarded"}]_vars

\* What the Skill management design says: "启用和停用失败时必须保留操作前的运行状态":
\* an activation that failed leaves a process that serves runs ready.
FailureKeepsReady == op.step = "idle" /\ accepting => IsReady
=============================================================================
