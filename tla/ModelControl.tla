---------------------------- MODULE ModelControl ----------------------------
(***************************************************************************)
(* ModelControlService of the Agent, between the configuration store       *)
(* (model_configs, active_model_config, control_events) and the slot       *)
(* through which runs call their model (ModelRuntimeSlot).                 *)
(*                                                                         *)
(* test_and_activate builds a client, tests it, takes the activation lock, *)
(* reads the pointer, commits the next version and installs the client.    *)
(* Commands test side by side; between two awaits a draft may be saved, a  *)
(* command cancelled, the process killed.  A database call may fail before *)
(* or after its effect, and a COMMIT that was sent may take effect after   *)
(* the command has seen the error (lost).                                  *)
(***************************************************************************)
EXTENDS Integers, FiniteSets

CONSTANTS
  Providers,    \* model providers
  Commands,     \* test_and_activate commands; each builds one client
  Calls,        \* calls of runs that may be open at once
  Boot,         \* the client that a starting process builds
  NoModel,      \* no client, no command
  MaxRevision,  \* BOUND: saves per provider
  MaxRestarts   \* BOUND: process deaths

ASSUME ControlAssumption ==
  /\ IsFiniteSet(Commands)
  /\ Boot \notin Commands
  /\ NoModel \notin Commands \cup {Boot}
  /\ MaxRevision \in Nat
  /\ MaxRestarts \in Nat

Models == Commands \cup {Boot}
Configs == Providers \X (1..MaxRevision)

VARIABLES
  active, lastVersion, capability, using, inFlight, retired, pending, posted,
  queued, closing, closed, broken, drained, reaper, shutdown,   \* the slot
  head,       \* the current revision of each provider; 0: never saved
  tested,     \* test_status of each saved revision
  pointer,    \* active_model_config
  event,      \* the control event of each command; its nonce is unique
  lost,       \* the command whose COMMIT was sent and is not yet decided
  entry,      \* the configuration and version each client was installed with
  command,    \* each command in the service
  answer,     \* what the caller of each command was told
  process,    \* "starting" until the slot has been reconciled
  restarts    \* process deaths so far

slotVars == <<active, lastVersion, capability, using, inFlight, retired,
              pending, posted, queued, closing, closed, broken, drained,
              reaper, shutdown>>
storeVars == <<head, tested, pointer, event, lost>>
serviceVars == <<entry, command, answer, process, restarts>>
controlVars == <<slotVars, storeVars, serviceVars>>

Slot == INSTANCE ModelRuntimeSlot

NoConfig == <<NoModel, 0>>
NoPointer == [config |-> NoConfig, version |-> 0]
Pointers == [config: Configs \cup {NoConfig}, version: Nat]

Steps == {"new", "testing", "recording", "waiting", "reading", "committing",
          "applied", "closing", "ended"}
LockedSteps == {"reading", "committing", "applied"}

Answers == {"none", "waiting", "activated", "conflict", "rejected", "storage",
            "assistant", "cancelled"}

ControlTypeOK ==
  /\ Slot!ModelSlotTypeOK
  /\ head \in [Providers -> 0..MaxRevision]
  /\ tested \in [Configs -> {"untested", "passed", "failed"}]
  /\ pointer \in Pointers
  /\ event \in [Commands -> {"none", "success", "conflict", "rejected"}]
  /\ lost \in Commands \cup {NoModel}
  /\ entry \in [Models -> Pointers]
  /\ command \in [Commands -> [step: Steps, config: Configs \cup {NoConfig},
                               expected: Nat, told: Answers]]
  /\ answer \in [Commands -> Answers]
  /\ process \in {"starting", "serving"}
  /\ restarts \in 0..MaxRestarts

ControlInit ==
  /\ Slot!ModelSlotInit
  /\ head = [p \in Providers |-> 0]
  /\ tested = [g \in Configs |-> "untested"]
  /\ pointer = NoPointer
  /\ event = [o \in Commands |-> "none"]
  /\ lost = NoModel
  /\ entry = [m \in Models |-> NoPointer]
  /\ command = [o \in Commands |-> [step |-> "new", config |-> NoConfig,
                                    expected |-> 0, told |-> "none"]]
  /\ answer = [o \in Commands |-> "none"]
  /\ process = "starting"
  /\ restarts = 0

-----------------------------------------------------------------------------
(* Helpers                                                                 *)

Step(o) == command[o].step
Config(o) == command[o].config

Goto(o, step) == command' = [command EXCEPT ![o].step = step]

\* Leave the try block: the finally clause closes a client that was not
\* installed, and only then is the caller told.
Close(o, told) ==
  command' = [command EXCEPT ![o].step = "closing", ![o].told = told]

\* A cancelled caller is told nothing else.
Tell(o, told) ==
  answer' = [answer EXCEPT ![o] = IF @ = "waiting" THEN told ELSE @]

LockFree == \A o \in Commands : Step(o) \notin LockedSteps

\* A transaction that is committing holds the row of its configuration and
\* the advisory lock of activations.
RowFree(p) == IF lost = NoModel THEN TRUE ELSE Config(lost)[1] # p
ActivationsFree == lost = NoModel

IsHead(config) == config # NoConfig /\ head[config[1]] = config[2]

Degrade == Slot!Deactivate("degraded")

-----------------------------------------------------------------------------
(* Start: reconcile_runtime_model                                          *)

\* The pointer is read; a COMMIT of the dead process was decided before.  The
\* client is built from it, or from the deployment if there is no pointer.
Reconcile ==
  /\ process = "starting"
  /\ lost = NoModel
  /\ Slot!ActivateModel(Boot, pointer.version)
  /\ entry' = [entry EXCEPT ![Boot] = pointer]
  /\ process' = "serving"
  /\ UNCHANGED <<storeVars, command, answer, restarts>>

\* There is neither, or the read, the key or the client fails: never is
\* another model served instead.
ReconcileFails(shown) ==
  /\ process = "starting"
  /\ shown = "placeholder" => pointer = NoPointer /\ lost = NoModel
  /\ Slot!Deactivate(shown)
  /\ process' = "serving"
  /\ UNCHANGED <<storeVars, entry, command, answer, restarts>>

-----------------------------------------------------------------------------
(* save_draft                                                              *)

\* The new revision is the head; a save that expected another is refused and
\* changes nothing.
SaveDraft(p, expected) ==
  /\ process = "serving"
  /\ RowFree(p)
  /\ expected = head[p]
  /\ head[p] < MaxRevision
  /\ head' = [head EXCEPT ![p] = @ + 1]
  /\ UNCHANGED <<slotVars, tested, pointer, event, lost, serviceVars>>

-----------------------------------------------------------------------------
(* test_and_activate: test                                                 *)

\* load_sealed, then the client is built.  A revision that is not the head,
\* a failed read or build is answered at once and changes nothing.
Begin(o, p) ==
  /\ process = "serving"
  /\ Step(o) = "new"
  /\ head[p] > 0
  /\ command' = [command EXCEPT ![o].step = "testing",
                                ![o].config = <<p, head[p]>>]
  /\ answer' = [answer EXCEPT ![o] = "waiting"]
  /\ UNCHANGED <<slotVars, storeVars, entry, process, restarts>>

TestEnds(o, ok) ==
  /\ Step(o) = "testing"
  /\ Goto(o, IF ok THEN "waiting" ELSE "recording")
  /\ UNCHANGED <<slotVars, storeVars, entry, answer, process, restarts>>

\* record_failed_test, committed.
RecordFailure(o, heard) ==
  /\ Step(o) = "recording"
  /\ RowFree(Config(o)[1])
  /\ event' = [event EXCEPT ![o] = IF IsHead(Config(o)) THEN "rejected"
                                   ELSE "conflict"]
  /\ tested' = IF IsHead(Config(o))
               THEN [tested EXCEPT ![Config(o)] = "failed"] ELSE tested
  /\ Close(o, IF ~heard THEN "storage"
              ELSE IF IsHead(Config(o)) THEN "rejected" ELSE "conflict")
  /\ UNCHANGED <<slotVars, head, pointer, lost, entry, answer, process, restarts>>

RecordFails(o) ==
  /\ Step(o) = "recording"
  /\ Close(o, "storage")
  /\ UNCHANGED <<slotVars, storeVars, entry, answer, process, restarts>>

-----------------------------------------------------------------------------
(* test_and_activate: activate, under the activation lock                  *)

TakeLock(o) ==
  /\ Step(o) = "waiting"
  /\ LockFree
  /\ Goto(o, "reading")
  /\ UNCHANGED <<slotVars, storeVars, entry, answer, process, restarts>>

\* Variant: what is read is taken for the next version.
ReadPointerAsNext(o) ==
  /\ Step(o) = "reading"
  /\ command' = [command EXCEPT ![o].step = "committing",
                                ![o].expected = pointer.version - 1]
  /\ UNCHANGED <<slotVars, storeVars, entry, answer, process, restarts>>

\* load_active
ReadPointer(o) ==
  /\ Step(o) = "reading"
  /\ command' = [command EXCEPT ![o].step = "committing",
                                ![o].expected = pointer.version]
  /\ UNCHANGED <<slotVars, storeVars, entry, answer, process, restarts>>

\* Nothing was sent: the model in the slot stays.
ReadFails(o) ==
  /\ Step(o) = "reading"
  /\ Close(o, "storage")
  /\ UNCHANGED <<slotVars, storeVars, entry, answer, process, restarts>>

CanCommit(o) ==
  /\ IsHead(Config(o))
  /\ pointer.version = command[o].expected

\* commit_test_and_activation, committed: test status, pointer and event.
Apply(o) ==
  /\ pointer' = [config |-> Config(o), version |-> pointer.version + 1]
  /\ tested' = [tested EXCEPT ![Config(o)] = "passed"]
  /\ event' = [event EXCEPT ![o] = "success"]

CommitApplies(o) ==
  /\ Step(o) = "committing"
  /\ ActivationsFree
  /\ CanCommit(o)
  /\ Apply(o)
  /\ Goto(o, "applied")
  /\ UNCHANGED <<slotVars, head, lost, entry, answer, process, restarts>>

\* Variant: the model in the slot stays when the outcome is not known.
FailUnknownServing(o) ==
  /\ Close(o, "storage")
  /\ UNCHANGED slotVars

\* Variant: the failure is taken for a refusal.
FailUnknownAsConflict(o) ==
  /\ Close(o, "conflict")
  /\ Degrade

\* Any failure of the commit that is not a conflict may hide an effect.
FailUnknown(o) ==
  /\ Close(o, "storage")
  /\ Degrade

\* The event of the conflict is committed.
CommitConflicts(o, heard) ==
  /\ Step(o) = "committing"
  /\ ActivationsFree
  /\ ~CanCommit(o)
  /\ event' = [event EXCEPT ![o] = "conflict"]
  /\ IF heard THEN Close(o, "conflict") /\ UNCHANGED slotVars
     ELSE FailUnknown(o)
  /\ UNCHANGED <<head, tested, pointer, lost, entry, answer, process, restarts>>

\* The call fails; its COMMIT may have been sent.
CommitFails(o, sent) ==
  /\ Step(o) = "committing"
  /\ sent => ActivationsFree /\ CanCommit(o)
  /\ lost' = IF sent THEN o ELSE lost
  /\ FailUnknown(o)
  /\ UNCHANGED <<head, tested, pointer, event, entry, answer, process, restarts>>

AnswerLost(o) ==
  /\ Step(o) = "applied"
  /\ FailUnknown(o)
  /\ UNCHANGED <<storeVars, entry, answer, process, restarts>>

\* The pointer that was committed is returned; nobody else moves it while the
\* activation lock is held.  The client that was tested is installed, also if
\* the caller has left.
AnswerArrives(o) ==
  /\ Step(o) = "applied"
  /\ IF /\ pointer = [config |-> Config(o), version |-> command[o].expected + 1]
        /\ Slot!CanActivate(pointer.version)
     THEN /\ Slot!ActivateModel(o, pointer.version)
          /\ entry' = [entry EXCEPT ![o] = pointer]
          /\ Goto(o, "ended")
          /\ Tell(o, "activated")
     ELSE /\ Degrade
          /\ Close(o, "assistant")
          /\ UNCHANGED <<entry, answer>>
  /\ UNCHANGED <<storeVars, process, restarts>>

-----------------------------------------------------------------------------
(* test_and_activate: its end                                              *)

\* _finish_candidate_close
CloseEnds(o, ok) ==
  /\ Step(o) = "closing"
  /\ Goto(o, "ended")
  /\ Tell(o, IF ok THEN command[o].told ELSE "assistant")
  /\ UNCHANGED <<slotVars, storeVars, entry, process, restarts>>

\* The request is cancelled: at once where it may be, but a commit that was
\* begun is awaited and a client is closed first.
Cancel(o) ==
  /\ answer[o] = "waiting"
  /\ Tell(o, "cancelled")
  /\ IF Step(o) \in {"testing", "recording", "waiting", "reading"}
     THEN Close(o, "cancelled") ELSE UNCHANGED command
  /\ UNCHANGED <<slotVars, storeVars, entry, process, restarts>>

\* The database decides the COMMIT that was on its way.
LostDecided(applied) ==
  /\ lost # NoModel
  /\ IF applied THEN Apply(lost) ELSE UNCHANGED <<tested, pointer, event>>
  /\ lost' = NoModel
  /\ UNCHANGED <<slotVars, head, serviceVars>>

\* The process is killed and another one starts.
Restart ==
  /\ restarts < MaxRestarts
  /\ restarts' = restarts + 1
  /\ Slot!SlotStarts
  /\ entry' = [m \in Models |-> NoPointer]
  /\ process' = "starting"
  /\ command' = [o \in Commands |-> [command[o] EXCEPT !.step =
                    IF @ = "new" THEN "new" ELSE "ended"]]
  /\ answer' = [o \in Commands |->
                  IF answer[o] = "waiting" THEN "cancelled" ELSE answer[o]]
  /\ lost' \in {lost} \cup {o \in Commands :
       Step(o) = "committing" /\ ActivationsFree /\ CanCommit(o)}
  /\ UNCHANGED <<head, tested, pointer, event>>

-----------------------------------------------------------------------------
StartNext ==
  \/ Reconcile
  \/ \E shown \in {"placeholder", "degraded"} : ReconcileFails(shown)

TestNext(o) ==
  \/ \E p \in Providers : Begin(o, p)
  \/ \E ok \in BOOLEAN : TestEnds(o, ok) \/ RecordFailure(o, ok)
  \/ RecordFails(o)

ActivateNext(o) ==
  \/ TakeLock(o) \/ ReadPointer(o) \/ ReadFails(o)
  \/ CommitApplies(o) \/ AnswerLost(o) \/ AnswerArrives(o)
  \/ \E ok \in BOOLEAN : CommitConflicts(o, ok) \/ CommitFails(o, ok)

EndNext(o) ==
  \/ \E ok \in BOOLEAN : CloseEnds(o, ok)
  \/ Cancel(o)

RunsAndReaper ==
  /\ Slot!CallSteps \/ Slot!ReaperSteps
  /\ UNCHANGED <<storeVars, serviceVars>>

ControlNext ==
  \/ StartNext
  \/ \E p \in Providers : \E expected \in 0..MaxRevision : SaveDraft(p, expected)
  \/ \E o \in Commands : TestNext(o) \/ ActivateNext(o) \/ EndNext(o)
  \/ \E applied \in BOOLEAN : LostDecided(applied)
  \/ RunsAndReaper
  \/ Restart

ControlSpec == ControlInit /\ [][ControlNext]_controlVars

-----------------------------------------------------------------------------
(* Properties                                                              *)

\* The model that runs are given is the one the database points at, with its
\* version, or the one of the deployment as long as there is no pointer; only
\* while the answer of a commit is on its way may it be one version older.
\* So no commit whose outcome was lost leaves the former model serving.
ServedModelIsActive ==
  active # NoModel =>
    \/ entry[active] = pointer
    \/ \E o \in Commands :
         /\ Step(o) = "applied"
         /\ entry[active].version = command[o].expected
         /\ pointer = [config |-> Config(o), version |-> command[o].expected + 1]

\* A command answered "activated" took effect; one answered with a conflict
\* or a failed test did not and never will; and the version of the pointer is
\* the number of activations in the audit log, whatever was lost, late or
\* restarted: none is missing and none is counted that did not take effect.
ControlAnswersAreFinal ==
  /\ \A o \in Commands :
       /\ answer[o] = "activated" => event[o] = "success"
       /\ answer[o] \in {"conflict", "rejected"} =>
            event[o] # "success" /\ lost # o
  /\ pointer.version = Cardinality({o \in Commands : event[o] = "success"})
=============================================================================
