-------------------------- MODULE ModelControl_proofs --------------------------
(***************************************************************************)
(* Safety of ModelControl, for any number of commands, providers, calls    *)
(* and process deaths: the model that serves is the one of the pointer,    *)
(* and what a command was told is what became of it.  After it the pages   *)
(* in front of it, which share no variable with it: the console and the    *)
(* input policy; and at the end the three together, as MCModelControl      *)
(* composes them.                                                          *)
(***************************************************************************)
EXTENDS MCModelControl, FiniteSetTheorems, SequenceTheorems, TLAPS

SlotProofs == INSTANCE ModelRuntimeSlot_proofs

-----------------------------------------------------------------------------
(* The inductive invariant                                                 *)

Command ==
  [step: Steps, config: Configs \cup {NoConfig}, expected: Nat, told: Answers]

\* ControlTypeOK without the slot.
ServiceTypeOK ==
  /\ head \in [Providers -> 0..MaxRevision]
  /\ tested \in [Configs -> {"untested", "passed", "failed"}]
  /\ pointer \in Pointers
  /\ event \in [Commands -> {"none", "success", "conflict", "rejected"}]
  /\ lost \in Commands \cup {NoModel}
  /\ entry \in [Models -> Pointers]
  /\ command \in [Commands -> Command]
  /\ answer \in [Commands -> Answers]
  /\ process \in {"starting", "serving"}
  /\ restarts \in 0..MaxRestarts

\* The activation lock and the COMMIT that is on its way: while there is one,
\* no model serves and no commit waits for its answer.
LockInv ==
  /\ \A o, p \in Commands :
       Step(o) \in LockedSteps /\ Step(p) \in LockedSteps => o = p
  /\ process = "starting" => \A o \in Commands : Step(o) \in {"new", "ended"}
  /\ lost # NoModel => active = NoModel /\ \A o \in Commands : Step(o) # "applied"

\* The steps of a command before anything was decided, and before it is told.
Undecided == {"new", "testing", "recording", "waiting", "reading", "committing"}
Untold == {"none", "waiting", "cancelled"}

\* What is known of a command, what it is told and what its event says.
OutcomeInv ==
  \A o \in Commands :
    /\ Step(o) \in Undecided => event[o] = "none" /\ lost # o
    /\ Step(o) \in Undecided \cup {"applied", "closing"} => answer[o] \in Untold
    /\ Step(o) = "applied" => event[o] = "success"
    /\ Step(o) = "closing" =>
         /\ command[o].told \in {"storage", "rejected", "conflict", "cancelled", "assistant"}
         /\ command[o].told \in {"conflict", "rejected"} =>
              event[o] # "success" /\ lost # o
    /\ lost = o => event[o] = "none"
    /\ answer[o] = "activated" => event[o] = "success"
    /\ answer[o] \in {"conflict", "rejected"} => event[o] # "success" /\ lost # o

Succeeded == {o \in Commands : event[o] = "success"}
VersionCounts == pointer.version = Cardinality(Succeeded)

\* ServedModelIsActive and ControlAnswersAreFinal are not inductive: that
\* the pointer never moves under a served model is the activation lock and the
\* deactivation before a COMMIT is forgotten, and that a refusal is final is
\* that a command whose COMMIT may still apply is never told one.
ServiceInv ==
  /\ ServiceTypeOK
  /\ shutdown = "none"
  /\ LockInv
  /\ OutcomeInv
  /\ VersionCounts
  /\ ServedModelIsActive

ControlInv == ServiceInv /\ SlotProofs!ModelSlotInv

-----------------------------------------------------------------------------
(* What the parts of a step change                                         *)

\* A command goes on, and the others stay.
LEMMA GotoEffect ==
  ASSUME ServiceTypeOK, NEW o \in Commands, NEW step \in Steps, Goto(o, step)
  PROVE  /\ command' \in [Commands -> Command]
         /\ command'[o].step = step
         /\ command'[o].config = command[o].config
         /\ command'[o].expected = command[o].expected
         /\ command'[o].told = command[o].told
         /\ \A p \in Commands : p # o => command'[p] = command[p]
BY DEF ServiceTypeOK, Goto, Command

\* A command leaves its try block.
LEMMA CloseEffect ==
  ASSUME ServiceTypeOK, NEW o \in Commands, NEW told \in Answers, Close(o, told)
  PROVE  /\ command' \in [Commands -> Command]
         /\ command'[o].step = "closing"
         /\ command'[o].told = told
         /\ \A p \in Commands : p # o => command'[p] = command[p]
BY DEF ServiceTypeOK, Close, Command, Steps

\* Only a caller that waits is told.
LEMMA TellEffect ==
  ASSUME ServiceTypeOK, NEW o \in Commands, NEW told \in Answers, Tell(o, told)
  PROVE  /\ answer' \in [Commands -> Answers]
         /\ answer'[o] = IF answer[o] = "waiting" THEN told ELSE answer[o]
         /\ \A p \in Commands : p # o => answer'[p] = answer[p]
BY DEF ServiceTypeOK, Tell

\* What an activation writes to the store.
LEMMA ApplyEffect ==
  ASSUME ServiceTypeOK, VersionCounts, NEW o \in Commands, event[o] # "success", Apply(o)
  PROVE  /\ pointer' \in Pointers
         /\ tested' \in [Configs -> {"untested", "passed", "failed"}]
         /\ event' \in [Commands -> {"none", "success", "conflict", "rejected"}]
         /\ event'[o] = "success"
         /\ \A p \in Commands : p # o => event'[p] = event[p]
         /\ VersionCounts'
<1>1. /\ event'[o] = "success"
      /\ \A p \in Commands : p # o => event'[p] = event[p]
      /\ event' \in [Commands -> {"none", "success", "conflict", "rejected"}]
  BY DEF Apply, ServiceTypeOK
<1>2. /\ pointer' \in Pointers
      /\ pointer'.version = pointer.version + 1
  BY DEF Apply, ServiceTypeOK, Pointers, Command, Config
<1>3. tested' \in [Configs -> {"untested", "passed", "failed"}]
  BY DEF Apply, ServiceTypeOK
<1>4. Succeeded' = Succeeded \cup {o} /\ o \notin Succeeded
  BY <1>1 DEF Succeeded
<1>5. IsFiniteSet(Succeeded)
  BY ControlAssumption, FS_Subset DEF Succeeded
<1>6. Cardinality(Succeeded') = Cardinality(Succeeded) + 1
  BY <1>4, <1>5, FS_AddElement
<1> QED  BY <1>1, <1>2, <1>3, <1>6 DEF VersionCounts

\* Events that are no success leave the count alone.
LEMMA VersionStays ==
  ASSUME VersionCounts, UNCHANGED pointer,
         \A p \in Commands : event'[p] = "success" <=> event[p] = "success"
  PROVE  VersionCounts'
<1>1. Succeeded' = Succeeded
  BY DEF Succeeded
<1> QED  BY <1>1 DEF VersionCounts

\* Degrading the slot takes the model away.
LEMMA DegradeEffect ==
  ASSUME Degrade, shutdown = "none"
  PROVE  active' = NoModel /\ shutdown' = "none" /\ ServedModelIsActive'
BY DEF Degrade, Slot!Deactivate, ServedModelIsActive

\* A model that serves the pointer goes on doing so.
LEMMA ServedStays ==
  ASSUME ServedModelIsActive, UNCHANGED <<active, entry, pointer>>,
         \A p \in Commands : Step(p) = "applied" => command'[p] = command[p]
  PROVE  ServedModelIsActive'
BY DEF ServedModelIsActive, Step, Config

-----------------------------------------------------------------------------
(* The steps of the service                                                *)

\* A start builds the model of the pointer, or none.
LEMMA StartKeeps ==
  ASSUME ServiceInv, StartNext
  PROVE  ServiceInv'
<1> USE DEF ServiceInv, ServiceTypeOK
<1>1. UNCHANGED <<storeVars, command, answer, restarts>> /\ process' = "serving"
  BY DEF StartNext, Reconcile, ReconcileFails
<1>2. shutdown' = "none" /\ entry' \in [Models -> Pointers] /\ ServedModelIsActive'
      /\ (lost # NoModel => active' = NoModel)
  <2>1. CASE Reconcile
    <3>1. entry'[Boot] = pointer /\ active' = Boot /\ lost = NoModel
      BY <2>1 DEF Reconcile, Slot!ActivateModel, Models
    <3> QED
      BY <1>1, <2>1, <3>1
         DEF Reconcile, Slot!ActivateModel, ServedModelIsActive, storeVars
  <2>2. CASE \E shown \in {"placeholder", "degraded"} : ReconcileFails(shown)
    BY <2>2 DEF ReconcileFails, Slot!Deactivate, ServedModelIsActive
  <2> QED  BY <2>1, <2>2 DEF StartNext
<1>3. LockInv'
  BY <1>1, <1>2 DEF LockInv, Step, storeVars
<1>4. OutcomeInv'
  BY <1>1 DEF OutcomeInv, Step, storeVars
<1>5. VersionCounts'
  BY <1>1, VersionStays DEF storeVars
<1> QED  BY <1>1, <1>2, <1>3, <1>4, <1>5 DEF storeVars

\* A saved draft is nobody's model yet.
LEMMA SaveKeeps ==
  ASSUME ServiceInv, NEW p \in Providers, NEW expected \in 0..MaxRevision,
         SaveDraft(p, expected)
  PROVE  ServiceInv'
<1> USE DEF ServiceInv, ServiceTypeOK
<1>1. UNCHANGED <<slotVars, tested, pointer, event, lost, serviceVars>>
  BY DEF SaveDraft
<1>2. head' \in [Providers -> 0..MaxRevision]
  BY ControlAssumption DEF SaveDraft
<1>3. LockInv' /\ OutcomeInv'
  BY <1>1 DEF LockInv, OutcomeInv, Step, slotVars, serviceVars
<1>4. VersionCounts' /\ ServedModelIsActive'
  BY <1>1, VersionStays, ServedStays DEF slotVars, serviceVars
<1> QED  BY <1>1, <1>2, <1>3, <1>4 DEF slotVars, serviceVars

\* A command begins, its test ends, it takes the lock or reads the pointer.
LEMMA ForwardKeeps ==
  ASSUME ServiceInv, NEW o \in Commands,
         \/ \E p \in Providers : Begin(o, p)
         \/ \E ok \in BOOLEAN : TestEnds(o, ok)
         \/ TakeLock(o) \/ ReadPointer(o)
  PROVE  ServiceInv'
<1> USE DEF ServiceInv, ServiceTypeOK
<1>1. /\ UNCHANGED <<slotVars, storeVars, entry, process, restarts>>
      /\ Step(o) \in {"new", "testing", "waiting", "reading"}
      /\ process = "starting" => Step(o) \in {"new", "ended"}
  BY DEF Begin, TestEnds, TakeLock, ReadPointer, LockInv
<1>2. /\ command' \in [Commands -> Command]
      /\ command'[o].step \in {"testing", "waiting", "recording", "reading", "committing"}
      /\ command'[o].step \in LockedSteps => Step(o) = "reading" \/ LockFree
      /\ \A p \in Commands : p # o => command'[p] = command[p]
  <2>1. CASE \E p \in Providers : Begin(o, p)
    <3>1. PICK p \in Providers : Begin(o, p)
      BY <2>1
    <3>2. <<p, head[p]>> \in Configs
      <4>1. head[p] \in 0..MaxRevision /\ head[p] > 0
        BY <3>1 DEF Begin
      <4>2. head[p] \in 1..MaxRevision
        BY <4>1, ControlAssumption
      <4> QED  BY <4>2 DEF Configs
    <3>3. command' = [command EXCEPT ![o].step = "testing", ![o].config = <<p, head[p]>>]
      BY <3>1 DEF Begin
    <3> QED  BY <3>2, <3>3 DEF Command, Steps, LockedSteps
  <2>2. CASE \/ \E ok \in BOOLEAN : TestEnds(o, ok)
             \/ TakeLock(o)
    <3>1. \/ Goto(o, "waiting") \/ Goto(o, "recording")
          \/ Goto(o, "reading") /\ LockFree
      BY <2>2 DEF TestEnds, TakeLock
    <3> QED  BY <3>1, GotoEffect DEF Steps, LockedSteps
  <2>3. CASE ReadPointer(o)
    <3>1. pointer.version \in Nat
      BY DEF Pointers
    <3>2. /\ command' = [command EXCEPT ![o].step = "committing", ![o].expected = pointer.version]
          /\ Step(o) = "reading"
      BY <2>3 DEF ReadPointer
    <3> QED  BY <3>1, <3>2 DEF Command, Steps
  <2> QED  BY <2>1, <2>2, <2>3
<1>3. /\ answer' \in [Commands -> Answers]
      /\ answer'[o] \in Untold
      /\ \A p \in Commands : p # o => answer'[p] = answer[p]
  <2>1. answer[o] \in Untold
    BY <1>1 DEF OutcomeInv, Undecided
  <2> QED  BY <2>1 DEF Begin, TestEnds, TakeLock, ReadPointer, Answers, Untold
<1>4. process = "serving"
  <2>1. process # "starting"
    BY <1>1 DEF Begin, TestEnds, TakeLock, ReadPointer
  <2> QED  BY <2>1
<1>5. LockInv'
  BY <1>1, <1>2, <1>4 DEF LockInv, LockFree, Step, LockedSteps, slotVars, storeVars
<1>6. OutcomeInv'
  BY <1>1, <1>2, <1>3 DEF OutcomeInv, Step, Undecided, Untold, storeVars
<1>7. VersionCounts' /\ ServedModelIsActive'
  BY <1>1, <1>2, VersionStays, ServedStays DEF slotVars, storeVars, Step
<1> QED  BY <1>1, <1>2, <1>3, <1>5, <1>6, <1>7 DEF slotVars, storeVars

\* A command fails, refused or not knowing: what it will be told is true.
LEMMA FailureKeeps ==
  ASSUME ServiceInv, NEW o \in Commands,
         NEW told \in {"storage", "rejected", "conflict", "cancelled", "assistant"},
         Close(o, told), Step(o) \in Undecided \cup {"applied"}, Step(o) # "new",
         UNCHANGED <<head, pointer, entry, process, restarts>>,
         answer' \in [Commands -> Answers], answer'[o] \in Untold,
         \A p \in Commands : p # o => answer'[p] = answer[p],
         tested' \in [Configs -> {"untested", "passed", "failed"}],
         event' \in [Commands -> {"none", "success", "conflict", "rejected"}],
         \A p \in Commands : p # o => event'[p] = event[p],
         event'[o] = "success" <=> event[o] = "success",
         \/ lost' = lost
         \/ lost' = o /\ Step(o) = "committing" /\ active' = NoModel /\ event'[o] = "none",
         told \in {"conflict", "rejected"} => Step(o) # "applied" /\ lost' = lost,
         active' \in {active, NoModel}, shutdown' = "none", ServedModelIsActive'
  PROVE  ServiceInv'
<1> USE DEF ServiceInv
<1>1. /\ command' \in [Commands -> Command]
      /\ command'[o].step = "closing" /\ command'[o].told = told
      /\ \A p \in Commands : p # o => command'[p] = command[p]
  BY CloseEffect DEF Answers
<1>2. lost # o /\ (Step(o) \in Undecided => event[o] = "none")
  BY ControlAssumption DEF OutcomeInv, LockInv
<1>3. ServiceTypeOK'
  BY <1>1 DEF ServiceTypeOK
<1>4. LockInv'
  BY <1>1 DEF LockInv, Step, LockedSteps, Undecided
<1>5. OutcomeInv'
  BY <1>1, <1>2 DEF OutcomeInv, Step, Undecided, Untold
<1>6. VersionCounts'
  BY VersionStays
<1> QED  BY <1>3, <1>4, <1>5, <1>6

\* The failures that send no COMMIT leave the model that serves alone.
LEMMA EarlyFailureKeeps ==
  ASSUME ServiceInv, NEW o \in Commands,
         \/ \E heard \in BOOLEAN : RecordFailure(o, heard)
         \/ RecordFails(o) \/ ReadFails(o)
  PROVE  ServiceInv'
<1>1. PICK told \in {"storage", "rejected", "conflict"} : Close(o, told)
  BY DEF RecordFailure, RecordFails, ReadFails
<1>2. /\ Step(o) \in {"recording", "reading"}
      /\ UNCHANGED <<slotVars, head, pointer, lost, entry, answer, process, restarts>>
  BY DEF RecordFailure, RecordFails, ReadFails, storeVars
<1>3. answer \in [Commands -> Answers] /\ answer[o] \in Untold /\ event[o] = "none"
  BY <1>2 DEF ServiceInv, ServiceTypeOK, OutcomeInv, Undecided
<1>4. /\ tested' \in [Configs -> {"untested", "passed", "failed"}]
      /\ event' \in [Commands -> {"none", "success", "conflict", "rejected"}]
      /\ \A p \in Commands : p # o => event'[p] = event[p]
      /\ event'[o] # "success"
  BY <1>3 DEF RecordFailure, RecordFails, ReadFails, storeVars, ServiceInv, ServiceTypeOK
<1>5. command' = [command EXCEPT ![o].step = "closing", ![o].told = told]
  BY <1>1 DEF Close
<1>6. \A p \in Commands : Step(p) = "applied" => command'[p] = command[p]
  BY <1>2, <1>5 DEF ServiceInv, ServiceTypeOK, Step
<1>7. ServedModelIsActive'
  BY <1>2, <1>6, ServedStays DEF ServiceInv, slotVars
<1>8. active' = active /\ shutdown' = "none" /\ Step(o) \in Undecided
  BY <1>2 DEF slotVars, ServiceInv, Undecided
<1> QED  BY <1>1, <1>2, <1>3, <1>4, <1>7, <1>8, FailureKeeps

\* The failures of the commit take the model away unless they are known.
LEMMA CommitFailureKeeps ==
  ASSUME ServiceInv, NEW o \in Commands,
         \/ \E ok \in BOOLEAN : CommitConflicts(o, ok) \/ CommitFails(o, ok)
         \/ AnswerLost(o)
  PROVE  ServiceInv'
<1>1. PICK told \in {"storage", "conflict"} :
        /\ Close(o, told)
        /\ told = "conflict" => Step(o) = "committing" /\ UNCHANGED <<slotVars, lost>>
        /\ told = "storage" => Degrade
  BY DEF CommitConflicts, CommitFails, AnswerLost, FailUnknown
<1>2. /\ Step(o) \in {"committing", "applied"}
      /\ UNCHANGED <<head, tested, pointer, entry, answer, process, restarts>>
  BY DEF CommitConflicts, CommitFails, AnswerLost, storeVars
<1>3. answer[o] \in Untold
  BY <1>2 DEF ServiceInv, OutcomeInv, Undecided
<1>4. Step(o) = "committing" => event[o] = "none"
  BY DEF ServiceInv, OutcomeInv, Undecided
<1>5. /\ event' \in [Commands -> {"none", "success", "conflict", "rejected"}]
      /\ \A p \in Commands : p # o => event'[p] = event[p]
      /\ event'[o] = "success" <=> event[o] = "success"
  BY <1>4 DEF CommitConflicts, CommitFails, AnswerLost, storeVars, ServiceInv, ServiceTypeOK
<1>6. \/ lost' = lost
      \/ /\ lost' = o /\ Step(o) = "committing" /\ event'[o] = "none"
         /\ Degrade
  BY <1>4 DEF CommitConflicts, CommitFails, AnswerLost, storeVars, FailUnknown
<1>7. Degrade => active' = NoModel /\ shutdown' = "none" /\ ServedModelIsActive'
  BY DegradeEffect DEF ServiceInv
<1>8. ASSUME told = "conflict"
      PROVE  active' = active /\ shutdown' = "none" /\ ServedModelIsActive'
  <2>1. /\ Step(o) # "applied" /\ UNCHANGED slotVars
        /\ command' = [command EXCEPT ![o].step = "closing", ![o].told = told]
    BY <1>1, <1>8 DEF Close
  <2>2. \A p \in Commands : Step(p) = "applied" => command'[p] = command[p]
    BY <2>1 DEF ServiceInv, ServiceTypeOK, Step
  <2>3. ServedModelIsActive'
    BY <1>2, <2>1, <2>2, ServedStays DEF ServiceInv, slotVars
  <2> QED  BY <2>1, <2>3 DEF ServiceInv, slotVars
<1>9. answer' \in [Commands -> Answers] /\ tested' \in [Configs -> {"untested", "passed", "failed"}]
  BY <1>2 DEF ServiceInv, ServiceTypeOK
<1>10. Step(o) \in Undecided \cup {"applied"} /\ Step(o) # "new"
  BY <1>2 DEF Undecided
<1>11. active' \in {active, NoModel} /\ shutdown' = "none" /\ ServedModelIsActive'
  BY <1>1, <1>7, <1>8
<1>12. \/ lost' = lost
       \/ lost' = o /\ Step(o) = "committing" /\ active' = NoModel /\ event'[o] = "none"
  BY <1>6, <1>7
<1>13. told \in {"conflict", "rejected"} => Step(o) # "applied" /\ lost' = lost
  BY <1>1
<1> QED
  BY <1>1, <1>2, <1>3, <1>5, <1>9, <1>10, <1>11, <1>12, <1>13, FailureKeeps

\* The pointer moves: by a commit that was begun, or by one on its way.
LEMMA ApplyKeeps ==
  ASSUME ServiceInv, NEW o \in Commands,
         CommitApplies(o) \/ (LostDecided(TRUE) /\ lost = o)
  PROVE  ServiceInv'
<1> USE DEF ServiceInv
<1>1. CASE CommitApplies(o)
  <2>1. /\ Step(o) = "committing" /\ lost = NoModel /\ pointer.version = command[o].expected
        /\ Apply(o) /\ Goto(o, "applied")
        /\ UNCHANGED <<slotVars, head, lost, entry, answer, process, restarts>>
    BY <1>1 DEF CommitApplies, ActivationsFree, CanCommit
  <2>2. event[o] = "none" /\ answer[o] \in Untold
    BY <2>1 DEF OutcomeInv, Undecided
  <2>3. /\ pointer' \in Pointers
        /\ tested' \in [Configs -> {"untested", "passed", "failed"}]
        /\ event' \in [Commands -> {"none", "success", "conflict", "rejected"}]
        /\ event'[o] = "success"
        /\ \A p \in Commands : p # o => event'[p] = event[p]
        /\ VersionCounts'
    BY <2>1, <2>2, ApplyEffect
  <2>4. /\ command' \in [Commands -> Command]
        /\ command'[o].step = "applied"
        /\ command'[o].config = command[o].config
        /\ command'[o].expected = command[o].expected
        /\ \A p \in Commands : p # o => command'[p] = command[p]
    BY <2>1, GotoEffect DEF Steps
  <2>5. ServiceTypeOK'
    BY <2>1, <2>3, <2>4 DEF ServiceTypeOK
  <2>6. LockInv'
    BY <2>1, <2>4 DEF LockInv, Step, LockedSteps, slotVars
  <2>7. OutcomeInv'
    BY <2>1, <2>2, <2>3, <2>4, ControlAssumption
       DEF OutcomeInv, Step, Undecided, Untold
  <2>8. ServedModelIsActive'
    <3>1. active # NoModel => entry[active] = pointer
      BY <2>1 DEF ServedModelIsActive, LockInv, Step, LockedSteps
    <3>2. pointer' = [config |-> command[o].config, version |-> command[o].expected + 1]
      BY <2>1 DEF Apply, Config
    <3> QED
      BY <2>1, <2>4, <3>1, <3>2 DEF ServedModelIsActive, Step, Config, slotVars
  <2> QED  BY <2>1, <2>3, <2>5, <2>6, <2>7, <2>8 DEF slotVars
<1>2. CASE LostDecided(TRUE) /\ lost = o
  <2>1. /\ Apply(o) /\ lost' = NoModel /\ lost # NoModel
        /\ UNCHANGED <<slotVars, head, serviceVars>>
    BY <1>2 DEF LostDecided
  <2>2. event[o] = "none" /\ active = NoModel
    BY <1>2, <2>1 DEF OutcomeInv, LockInv
  <2>3. /\ pointer' \in Pointers
        /\ tested' \in [Configs -> {"untested", "passed", "failed"}]
        /\ event' \in [Commands -> {"none", "success", "conflict", "rejected"}]
        /\ event'[o] = "success"
        /\ \A p \in Commands : p # o => event'[p] = event[p]
        /\ VersionCounts'
    BY <2>1, <2>2, ApplyEffect
  <2>4. ServiceTypeOK'
    BY <2>1, <2>3 DEF ServiceTypeOK, serviceVars
  <2>5. LockInv'
    BY <2>1, <2>2 DEF LockInv, Step, slotVars, serviceVars
  <2>6. OutcomeInv'
    BY <1>2, <2>1, <2>3, ControlAssumption DEF OutcomeInv, Step, serviceVars
  <2>7. ServedModelIsActive'
    BY <2>1, <2>2 DEF ServedModelIsActive, slotVars
  <2> QED  BY <2>1, <2>3, <2>4, <2>5, <2>6, <2>7 DEF slotVars
<1> QED  BY <1>1, <1>2

\* The client that was tested is installed with the pointer of its commit.
LEMMA ArrivesKeeps ==
  ASSUME ServiceInv, NEW o \in Commands, AnswerArrives(o)
  PROVE  ServiceInv'
<1> USE DEF ServiceInv
<1>1. Step(o) = "applied" /\ UNCHANGED <<storeVars, process, restarts>>
  BY DEF AnswerArrives
<1>2. event[o] = "success" /\ answer[o] \in Untold /\ lost = NoModel
  BY <1>1 DEF OutcomeInv, LockInv
<1>3. CASE Degrade /\ Close(o, "assistant") /\ UNCHANGED <<entry, answer>>
  <2>1. active' = NoModel /\ shutdown' = "none" /\ ServedModelIsActive'
    BY <1>3, DegradeEffect
  <2>2. /\ answer' \in [Commands -> Answers]
        /\ tested' \in [Configs -> {"untested", "passed", "failed"}]
        /\ event' \in [Commands -> {"none", "success", "conflict", "rejected"}]
    BY <1>1, <1>3 DEF ServiceTypeOK, storeVars
  <2> QED  BY <1>1, <1>2, <1>3, <2>1, <2>2, FailureKeeps DEF storeVars
<1>4. CASE /\ Slot!ActivateModel(o, pointer.version)
           /\ entry' = [entry EXCEPT ![o] = pointer]
           /\ Goto(o, "ended")
           /\ Tell(o, "activated")
  <2>1. /\ command' \in [Commands -> Command]
        /\ command'[o].step = "ended"
        /\ \A p \in Commands : p # o => command'[p] = command[p]
    BY <1>4, GotoEffect DEF Steps
  <2>2. /\ answer' \in [Commands -> Answers]
        /\ answer'[o] = IF answer[o] = "waiting" THEN "activated" ELSE answer[o]
        /\ \A p \in Commands : p # o => answer'[p] = answer[p]
    BY <1>4, TellEffect DEF Answers
  <2>3. active' = o /\ shutdown' = "none"
    BY <1>4 DEF Slot!ActivateModel
  <2>4. entry' \in [Models -> Pointers] /\ entry'[o] = pointer
    BY <1>4 DEF ServiceTypeOK, Models
  <2>5. ServiceTypeOK'
    BY <1>1, <2>1, <2>2, <2>4 DEF ServiceTypeOK, storeVars
  <2>6. LockInv'
    BY <1>1, <1>2, <2>1 DEF LockInv, Step, LockedSteps, storeVars
  <2>7. OutcomeInv'
    BY <1>1, <1>2, <2>1, <2>2 DEF OutcomeInv, Step, Undecided, Untold, storeVars
  <2>8. VersionCounts' /\ ServedModelIsActive'
    BY <1>1, <2>3, <2>4, VersionStays DEF ServedModelIsActive, storeVars
  <2> QED  BY <2>3, <2>5, <2>6, <2>7, <2>8
<1> QED  BY <1>3, <1>4 DEF AnswerArrives

\* The client is closed and the caller told, or the caller leaves.
LEMMA EndKeeps ==
  ASSUME ServiceInv, NEW o \in Commands, EndNext(o)
  PROVE  ServiceInv'
<1> USE DEF ServiceInv
<1>1. UNCHANGED <<slotVars, storeVars, entry, process, restarts>>
  BY DEF EndNext, CloseEnds, Cancel
<1>2. ASSUME NEW ok \in BOOLEAN, CloseEnds(o, ok)
      PROVE  ServiceInv'
  <2> DEFINE told == IF ok THEN command[o].told ELSE "assistant"
  <2>1. Step(o) = "closing" /\ Goto(o, "ended") /\ Tell(o, told)
    BY <1>2 DEF CloseEnds
  <2>2. /\ told \in {"storage", "rejected", "conflict", "cancelled", "assistant"}
        /\ told \in {"conflict", "rejected"} => event[o] # "success" /\ lost # o
    BY <2>1 DEF OutcomeInv
  <2>3. told \in Answers
    BY <2>2 DEF Answers
  <2> HIDE DEF told
  <2>4. /\ command' \in [Commands -> Command]
        /\ command'[o].step = "ended"
        /\ \A p \in Commands : p # o => command'[p] = command[p]
    BY <2>1, GotoEffect DEF Steps
  <2>5. /\ answer' \in [Commands -> Answers]
        /\ answer'[o] = IF answer[o] = "waiting" THEN told ELSE answer[o]
        /\ \A p \in Commands : p # o => answer'[p] = answer[p]
    BY <2>1, <2>3, TellEffect
  <2>6. ServiceTypeOK'
    BY <1>1, <2>4, <2>5 DEF ServiceTypeOK, storeVars
  <2>7. LockInv'
    BY <1>1, <2>4 DEF LockInv, Step, LockedSteps, slotVars, storeVars
  <2>8. OutcomeInv'
    BY <1>1, <2>1, <2>2, <2>4, <2>5 DEF OutcomeInv, Step, Undecided, Untold, storeVars
  <2>9. VersionCounts' /\ ServedModelIsActive'
    BY <1>1, <2>1, <2>4, VersionStays, ServedStays DEF slotVars, storeVars, Step
  <2> QED  BY <1>1, <2>6, <2>7, <2>8, <2>9 DEF slotVars
<1>3. CASE Cancel(o)
  <2>1. answer[o] = "waiting" /\ Tell(o, "cancelled")
    BY <1>3 DEF Cancel
  <2>2. /\ answer' \in [Commands -> Answers]
        /\ answer'[o] = "cancelled"
        /\ \A p \in Commands : p # o => answer'[p] = answer[p]
    BY <2>1, TellEffect DEF Answers
  <2>3. CASE UNCHANGED command
    <3>1. ServiceTypeOK'
      BY <1>1, <2>2, <2>3 DEF ServiceTypeOK, storeVars
    <3>2. LockInv'
      BY <1>1, <2>3 DEF LockInv, Step, slotVars, storeVars
    <3>3. OutcomeInv'
      BY <1>1, <2>1, <2>2, <2>3 DEF OutcomeInv, Step, Undecided, Untold, storeVars
    <3>4. VersionCounts' /\ ServedModelIsActive'
      BY <1>1, <2>3, VersionStays, ServedStays DEF slotVars, storeVars
    <3> QED  BY <1>1, <3>1, <3>2, <3>3, <3>4 DEF slotVars
  <2>4. CASE Step(o) \in {"testing", "recording", "waiting", "reading"} /\ Close(o, "cancelled")
    <3>1. /\ command' \in [Commands -> Command]
          /\ \A p \in Commands : p # o => command'[p] = command[p]
      BY <2>4, CloseEffect DEF Answers
    <3>2. ServedModelIsActive'
      BY <1>1, <2>4, <3>1, ServedStays DEF slotVars, storeVars, Step
    <3>3. /\ tested' \in [Configs -> {"untested", "passed", "failed"}]
          /\ event' \in [Commands -> {"none", "success", "conflict", "rejected"}]
      BY <1>1 DEF ServiceTypeOK, storeVars
    <3>4. Step(o) \in Undecided /\ answer'[o] \in Untold
      BY <2>2, <2>4 DEF Undecided, Untold
    <3> QED
      BY <1>1, <2>2, <2>4, <3>2, <3>3, <3>4, FailureKeeps DEF slotVars, storeVars
  <2> QED  BY <1>3, <2>3, <2>4 DEF Cancel
<1> QED  BY <1>2, <1>3 DEF EndNext

\* A COMMIT that is refused, and what runs and the reaper do.
LEMMA OthersKeep ==
  ASSUME ServiceInv, LostDecided(FALSE) \/ RunsAndReaper \/ UNCHANGED controlVars
  PROVE  ServiceInv'
<1> USE DEF ServiceInv
<1>1. /\ UNCHANGED <<active, shutdown, head, tested, pointer, event, serviceVars>>
      /\ lost' \in {lost, NoModel}
  <2>1. CASE LostDecided(FALSE)
    BY <2>1 DEF LostDecided, slotVars
  <2>2. CASE RunsAndReaper
    <3>1. UNCHANGED <<active, shutdown>>
      BY <2>2
         DEF RunsAndReaper, Slot!CallSteps, Slot!StartCall, Slot!EndOf, Slot!EndCall,
             Slot!ReaperSteps, Slot!EnqueueRetired, Slot!ReaperTakes, Slot!ReaperFinishes,
             Slot!ReaperStops, Slot!frontVars
    <3> QED  BY <2>2, <3>1 DEF RunsAndReaper, storeVars
  <2>3. CASE UNCHANGED controlVars
    BY <2>3 DEF controlVars, slotVars, storeVars
  <2> QED  BY <2>1, <2>2, <2>3
<1>2. ServiceTypeOK'
  BY <1>1 DEF ServiceTypeOK, serviceVars
<1>3. LockInv' /\ OutcomeInv'
  BY <1>1, ControlAssumption DEF LockInv, OutcomeInv, Step, serviceVars
<1>4. VersionCounts' /\ ServedModelIsActive'
  BY <1>1, VersionStays, ServedStays DEF serviceVars
<1> QED  BY <1>1, <1>2, <1>3, <1>4

\* The process is replaced: its slot is empty and its commands are over, but
\* what it had sent may still apply.
LEMMA RestartKeeps ==
  ASSUME ServiceInv, Restart
  PROVE  ServiceInv'
<1> USE DEF ServiceInv
<1>1. /\ active' = NoModel /\ shutdown' = "none" /\ process' = "starting"
      /\ UNCHANGED <<head, tested, pointer, event>>
  BY DEF Restart, Slot!SlotStarts
<1>2. /\ command' \in [Commands -> Command]
      /\ \A o \in Commands : command'[o].step = IF Step(o) = "new" THEN "new" ELSE "ended"
  BY DEF Restart, ServiceTypeOK, Command, Steps, Step
<1>3. /\ answer' \in [Commands -> Answers]
      /\ \A o \in Commands :
           answer'[o] = IF answer[o] = "waiting" THEN "cancelled" ELSE answer[o]
  BY DEF Restart, ServiceTypeOK, Answers
<1>4. lost' = lost \/ \E o \in Commands : lost' = o /\ Step(o) = "committing"
  BY DEF Restart
<1>5. ServiceTypeOK'
  <2>1. NoPointer \in Pointers
    BY DEF NoPointer, Pointers
  <2>2. entry' \in [Models -> Pointers] /\ restarts' \in 0..MaxRestarts
    BY <2>1, ControlAssumption DEF Restart, ServiceTypeOK
  <2> QED  BY <1>1, <1>2, <1>3, <1>4, <2>2 DEF ServiceTypeOK
<1>6. LockInv'
  BY <1>1, <1>2 DEF LockInv, Step, LockedSteps
<1>7. OutcomeInv'
  BY <1>1, <1>2, <1>3, <1>4 DEF OutcomeInv, Step, Undecided, Untold
<1>8. VersionCounts' /\ ServedModelIsActive'
  BY <1>1, VersionStays DEF ServedModelIsActive
<1> QED  BY <1>1, <1>5, <1>6, <1>7, <1>8

\* An empty store, a fresh slot and commands to come.
LEMMA ServiceStarts == ControlInit => ServiceInv
<1> SUFFICES ASSUME ControlInit PROVE ServiceInv
  OBVIOUS
<1>1. ServiceTypeOK
  BY ControlAssumption
     DEF ControlInit, ServiceTypeOK, NoPointer, Pointers, Command, Steps, Answers
<1>2. /\ active = NoModel /\ shutdown = "none" /\ lost = NoModel /\ pointer.version = 0
      /\ \A o \in Commands : Step(o) = "new" /\ event[o] = "none" /\ answer[o] = "none"
  BY DEF ControlInit, Slot!ModelSlotInit, Step, NoPointer
<1>3. LockInv /\ OutcomeInv /\ ServedModelIsActive
  BY <1>2, ControlAssumption
     DEF LockInv, OutcomeInv, ServedModelIsActive, LockedSteps, Untold
<1>4. VersionCounts
  <2>1. Succeeded = {}
    BY <1>2 DEF Succeeded
  <2> QED  BY <1>2, <2>1, FS_EmptySet DEF VersionCounts
<1> QED  BY <1>1, <1>2, <1>3, <1>4 DEF ServiceInv

\* The service keeps its invariant, one case per kind of step.
LEMMA ServiceKept == ServiceInv /\ [ControlNext]_controlVars => ServiceInv'
<1> SUFFICES ASSUME ServiceInv, [ControlNext]_controlVars PROVE ServiceInv'
  OBVIOUS
<1>1. ASSUME NEW p \in Providers, NEW expected \in 0..MaxRevision, SaveDraft(p, expected)
      PROVE  ServiceInv'
  BY <1>1, SaveKeeps
<1>2. ASSUME NEW o \in Commands, TestNext(o) PROVE ServiceInv'
  BY <1>2, ForwardKeeps, EarlyFailureKeeps DEF TestNext
<1>3. ASSUME NEW o \in Commands, ActivateNext(o) PROVE ServiceInv'
  BY <1>3, ForwardKeeps, EarlyFailureKeeps, CommitFailureKeeps, ApplyKeeps, ArrivesKeeps
     DEF ActivateNext
<1>4. ASSUME NEW o \in Commands, EndNext(o) PROVE ServiceInv'
  BY <1>4, EndKeeps
<1>5. ASSUME NEW applied \in BOOLEAN, LostDecided(applied) PROVE ServiceInv'
  <2>1. CASE applied = TRUE
    <3>1. LostDecided(TRUE) /\ lost \in Commands
      BY <1>5, <2>1 DEF LostDecided, ServiceInv, ServiceTypeOK
    <3> QED  BY <3>1, ApplyKeeps
  <2>2. CASE applied = FALSE
    BY <1>5, <2>2, OthersKeep
  <2> QED  BY <2>1, <2>2
<1>6. CASE StartNext
  BY <1>6, StartKeeps
<1>7. CASE Restart
  BY <1>7, RestartKeeps
<1>8. CASE RunsAndReaper \/ UNCHANGED controlVars
  BY <1>8, OthersKeep
<1> QED  BY <1>1, <1>2, <1>3, <1>4, <1>5, <1>6, <1>7, <1>8 DEF ControlNext

-----------------------------------------------------------------------------
(* The slot under the service                                              *)

\* SlotProofs stands on the assumptions of this module.
LEMMA SlotAssumptions == SlotProofs!ModelsAssumption
<1>1. IsFiniteSet(Models)
  BY ControlAssumption, FS_AddElement, FS_Union, FS_Singleton DEF Models
<1> QED
  BY <1>1, ControlAssumption
     DEF SlotProofs!ModelsAssumption, SlotProofs!IsFiniteSet, IsFiniteSet, Models

\* The service, the runs and the reaper use the slot as it may be used.
LEMMA SlotUsed == ServiceInv /\ [ControlNext]_controlVars => [SlotProofs!SlotUse]_slotVars
<1> SUFFICES ASSUME ServiceInv, ControlNext
             PROVE  SlotProofs!SlotUse \/ UNCHANGED slotVars
  BY DEF controlVars
<1>1. ASSUME NEW m \in Models, Slot!ActivateModel(m, pointer.version)
      PROVE  SlotProofs!SlotUse
  <2>1. pointer.version \in Int
    BY DEF ServiceInv, ServiceTypeOK, Pointers
  <2> QED
    BY <1>1, <2>1
       DEF SlotProofs!SlotUse, Slot!ActivateModel, SlotProofs!ActivateModel,
           Slot!CanActivate, SlotProofs!CanActivate, Slot!Installed, SlotProofs!Installed,
           Slot!Retire, SlotProofs!Retire, Slot!retireVars, SlotProofs!retireVars,
           Slot!callVars, SlotProofs!callVars, Slot!reaperVars, SlotProofs!reaperVars
<1>2. ASSUME NEW shown \in {"placeholder", "degraded"}, Slot!Deactivate(shown)
      PROVE  SlotProofs!SlotUse
  BY <1>2
     DEF SlotProofs!SlotUse, SlotProofs!ModelSlotNext, SlotProofs!ControlSteps,
         Slot!Deactivate, SlotProofs!Deactivate, Slot!Retire, SlotProofs!Retire,
         Slot!retireVars, SlotProofs!retireVars, Slot!callVars, SlotProofs!callVars,
         Slot!reaperVars, SlotProofs!reaperVars
<1>3. CASE StartNext
  BY <1>1, <1>2, <1>3 DEF StartNext, Reconcile, ReconcileFails, Models
<1>4. ASSUME NEW o \in Commands, ActivateNext(o)
      PROVE  SlotProofs!SlotUse \/ UNCHANGED slotVars
  <2>1. CASE TakeLock(o) \/ ReadPointer(o) \/ ReadFails(o) \/ CommitApplies(o)
    BY <2>1 DEF TakeLock, ReadPointer, ReadFails, CommitApplies
  <2>2. CASE AnswerArrives(o)
    <3>1. Degrade \/ Slot!ActivateModel(o, pointer.version)
      BY <2>2 DEF AnswerArrives
    <3> QED  BY <1>1, <1>2, <3>1 DEF Degrade, Models
  <2>3. CASE AnswerLost(o) \/ \E ok \in BOOLEAN : CommitConflicts(o, ok) \/ CommitFails(o, ok)
    <3>1. Degrade \/ UNCHANGED slotVars
      BY <2>3 DEF AnswerLost, CommitConflicts, CommitFails, FailUnknown
    <3> QED  BY <1>2, <3>1 DEF Degrade
  <2> QED  BY <1>4, <2>1, <2>2, <2>3 DEF ActivateNext
<1>5. CASE RunsAndReaper
  <2>1. CASE Slot!CallSteps
    BY <2>1
       DEF SlotProofs!SlotUse, SlotProofs!ModelSlotNext, Slot!CallSteps,
           SlotProofs!CallSteps, Slot!StartCall, SlotProofs!StartCall, Slot!EndOf,
           SlotProofs!EndOf, Slot!EndCall, SlotProofs!EndCall, Slot!LastCallOfRetired,
           SlotProofs!LastCallOfRetired, Slot!frontVars, SlotProofs!frontVars,
           Slot!retireVars, SlotProofs!retireVars, Slot!reaperVars, SlotProofs!reaperVars
  <2>2. CASE Slot!ReaperSteps
    <3> USE DEF Slot!frontVars, SlotProofs!frontVars, Slot!callVars, SlotProofs!callVars,
                Slot!retireVars, SlotProofs!retireVars
    <3>1. \A m \in Models : /\ Slot!EnqueueRetired(m) => SlotProofs!EnqueueRetired(m)
                            /\ Slot!ReaperTakes(m) => SlotProofs!ReaperTakes(m)
      BY DEF Slot!EnqueueRetired, SlotProofs!EnqueueRetired, Slot!ReaperTakes,
             SlotProofs!ReaperTakes, Slot!reaperVars, SlotProofs!reaperVars
    <3>2. \A ok \in BOOLEAN : Slot!ReaperFinishes(ok) => SlotProofs!ReaperFinishes(ok)
      BY DEF Slot!ReaperFinishes, SlotProofs!ReaperFinishes, Slot!CountOff,
             SlotProofs!CountOff
    <3>3. Slot!ReaperStops => SlotProofs!ReaperStops
      BY DEF Slot!ReaperStops, SlotProofs!ReaperStops
    <3>4. SlotProofs!ReaperSteps
      BY <2>2, <3>1, <3>2, <3>3 DEF Slot!ReaperSteps, SlotProofs!ReaperSteps
    <3> QED  BY <3>4 DEF SlotProofs!SlotUse, SlotProofs!ModelSlotNext
  <2> QED  BY <1>5, <2>1, <2>2 DEF RunsAndReaper
<1>6. CASE Restart
  BY <1>6 DEF Restart, SlotProofs!SlotUse, Slot!SlotStarts, SlotProofs!SlotStarts
<1>7. CASE \/ \E p \in Providers : \E expected \in 0..MaxRevision : SaveDraft(p, expected)
           \/ \E o \in Commands : TestNext(o) \/ EndNext(o)
           \/ \E applied \in BOOLEAN : LostDecided(applied)
  BY <1>7
     DEF SaveDraft, TestNext, Begin, TestEnds, RecordFailure, RecordFails, EndNext,
         CloseEnds, Cancel, LostDecided
<1> QED  BY <1>3, <1>4, <1>5, <1>6, <1>7 DEF ControlNext

-----------------------------------------------------------------------------
(* The theorems                                                            *)

\* The inductive invariant of the service with its store and its slot, under
\* any interleaving of commands, drafts, runs, lost answers and process deaths.
THEOREM ControlInvariant == ControlSpec => []ControlInv
<1>1. ControlInit => ControlInv
  <2> SUFFICES ASSUME ControlInit PROVE ControlInv
    OBVIOUS
  <2>1. SlotProofs!ModelSlotInit
    BY DEF ControlInit, Slot!ModelSlotInit, SlotProofs!ModelSlotInit
  <2> QED  BY <2>1, ServiceStarts, SlotAssumptions, SlotProofs!FreshSlot DEF ControlInv
<1>2. ControlInv /\ [ControlNext]_controlVars => ControlInv'
  <2> SUFFICES ASSUME ControlInv, [ControlNext]_controlVars PROVE ControlInv'
    OBVIOUS
  <2>1. SlotProofs!SlotUse \/ UNCHANGED SlotProofs!slotVars
    BY SlotUsed
       DEF ControlInv, slotVars, SlotProofs!slotVars, SlotProofs!frontVars,
           SlotProofs!callVars, SlotProofs!retireVars, SlotProofs!reaperVars
  <2> QED  BY <2>1, ServiceKept, SlotAssumptions, SlotProofs!SlotUseKept DEF ControlInv
<1> QED  BY <1>1, <1>2, PTL DEF ControlSpec

\* Type correctness of the service with its store and its slot.
THEOREM ControlTypesCorrect == ControlSpec => []ControlTypeOK
<1>1. SlotProofs!ModelSlotTypeOK => Slot!ModelSlotTypeOK
  BY DEF SlotProofs!ModelSlotTypeOK, Slot!ModelSlotTypeOK
<1>2. ControlInv => SlotProofs!ModelSlotTypeOK /\ ServiceTypeOK
  BY DEF ControlInv, ServiceInv, SlotProofs!ModelSlotInv
<1>3. Slot!ModelSlotTypeOK /\ ServiceTypeOK => ControlTypeOK
  BY DEF ServiceTypeOK, ControlTypeOK, Command
<1> QED  BY <1>1, <1>2, <1>3, ControlInvariant, PTL

\* The model that runs are given is the one of the pointer, or one version
\* older while the answer of a commit is on its way.
THEOREM ServedModelCorrect == ControlSpec => []ServedModelIsActive
<1>1. ControlInv => ServedModelIsActive
  BY DEF ControlInv, ServiceInv
<1> QED  BY <1>1, ControlInvariant, PTL

\* What a command was told is never reversed, and the version of the pointer
\* counts the activations in the log.
THEOREM ControlAnswersCorrect == ControlSpec => []ControlAnswersAreFinal
<1>1. ControlInv => ControlAnswersAreFinal
  BY DEF ControlInv, ServiceInv, OutcomeInv, VersionCounts, Succeeded,
         ControlAnswersAreFinal
<1> QED  BY <1>1, ControlInvariant, PTL

\* No activation, degradation or restart of the service closes a client under
\* a call, nor closes one twice or forgets it.
THEOREM ServiceKeepsClients ==
  ControlSpec => [](Slot!CallsHoldOpenClients /\ Slot!RetiredInOnePlace)
<1>1. ControlInv => SlotProofs!CallsHoldOpenClients /\ SlotProofs!RetiredInOnePlace
  BY SlotAssumptions, SlotProofs!CallsAreSafe, SlotProofs!PlacesAreOne DEF ControlInv
<1>2. SlotProofs!CallsHoldOpenClients /\ SlotProofs!RetiredInOnePlace
      => Slot!CallsHoldOpenClients /\ Slot!RetiredInOnePlace
  BY DEF SlotProofs!CallsHoldOpenClients, SlotProofs!RetiredInOnePlace,
         Slot!CallsHoldOpenClients, Slot!RetiredInOnePlace, SlotProofs!Finished,
         Slot!Finished, SlotProofs!Cardinality, Slot!Cardinality
<1> QED  BY <1>1, <1>2, ControlInvariant, PTL

-----------------------------------------------------------------------------
(* The console                                                              *)

\* A draft that somebody has read is an earlier one, or the very one at the
\* head.
UpTo(heads, v, d) ==
  /\ d.revision <= heads[v].revision
  /\ d.revision = heads[v].revision => d = heads[v]

MadeBy(m) == [revision |-> m.base.revision + 1, content |-> m.content]
ChangeOk(heads, m) ==
  /\ UpTo(heads, m.vendor, m.base)
  /\ m.kind = "save" => m.base.revision < MaxDraft
  /\ m.kind = "save" /\ m.outcome = "applied" => UpTo(heads, m.vendor, MadeBy(m))
  /\ m.stage = "checking" => ~m.asked /\ m.outcome = "undecided"
  /\ m.stage # "ended" => m.heard = "undecided"
  /\ m.heard # "undecided" => m.outcome = m.heard
  /\ m.told = "succeeded" => m.outcome = "applied"
  /\ m.told = "failed" => m.outcome \in {"refused", "failed test"}

\* A page waits for one change, or is locked by one, and believes a clear
\* answer only.
PendingInv ==
  /\ pendingAt # 0 => unknown = 0
  /\ doing = "verifying" => changes[pendingAt].heard # "undecided"
ReadInv ==
  /\ \A v \in Vendors : draft[v].revision = 0 => draft[v] = NoDraft
  /\ \A v \in Vendors : UpTo(draft, v, snapshot[v])
  /\ fetched # NotRead => \A v \in Vendors : UpTo(draft, v, fetched[v])

\* A key that is shown, or for which the page still listens.
KeyInv ==
  /\ key.status = "revealed" \/ reveal # NoReveal =>
       opened /\ visible /\ pendingAt = 0 /\ unknown = 0
  /\ key.status = "revealed" => key.vendor = selected
  /\ reveal # NoReveal => reveal.vendor = selected

ChangesOk == \A i \in DOMAIN changes : ChangeOk(draft, changes[i])
ConsoleInv ==
  /\ ConsoleTypeOK /\ PendingInv /\ ReadInv /\ UnknownStaysLocked /\ KeyInv
  /\ ChangesOk

LEMMA ConsoleShape ==
  ASSUME ConsoleInv
  PROVE  /\ Len(changes) \in Nat /\ DOMAIN changes = 1..Len(changes)
         /\ \A i \in DOMAIN changes : changes[i] \in Changes /\ ChangeOk(draft, changes[i])
                                      /\ i \in Nat /\ i # 0
         /\ pendingAt # 0 => pendingAt \in DOMAIN changes
         /\ unknown # 0 => unknown \in DOMAIN changes
<1>1. changes \in Seq(Changes)
  BY DEF ConsoleInv, ConsoleTypeOK
<1>2. Len(changes) \in Nat /\ DOMAIN changes = 1..Len(changes)
  BY <1>1
<1>3. \A i \in DOMAIN changes : changes[i] \in Changes
  BY <1>1, <1>2, ElementOfSeq
<1> QED BY <1>2, <1>3 DEF ConsoleInv, ConsoleTypeOK, ChangesOk

\* The Agent's heads only move up, one revision at a time.
DraftsRise ==
  /\ draft' \in Snapshots
  /\ \A v \in Vendors :
       draft'[v] = draft[v] \/ draft'[v].revision = draft[v].revision + 1

LEMMA ReadStaysTrue ==
  ASSUME draft \in Snapshots, DraftsRise, NEW v \in Vendors, NEW d, d.revision \in Nat,
         UpTo(draft, v, d)
  PROVE  UpTo(draft', v, d)
<1>1. draft[v].revision \in Nat
  BY DEF Snapshots, Drafts
<1>2. CASE draft'[v] = draft[v]
  BY <1>2 DEF UpTo
<1>3. CASE draft'[v].revision = draft[v].revision + 1
  BY <1>1, <1>3 DEF UpTo
<1> QED BY <1>2, <1>3 DEF DraftsRise

LEMMA ChangeStaysOk ==
  ASSUME draft \in Snapshots, DraftsRise, NEW m \in Changes, ChangeOk(draft, m)
  PROVE  /\ ChangeOk(draft', m)
         /\ StillApplies(m)' => StillApplies(m)
<1>1. m.vendor \in Vendors /\ m.base.revision \in Nat /\ MadeBy(m).revision \in Nat
  BY DEF Changes, Drafts, MadeBy
<1>2. UpTo(draft, m.vendor, m.base) /\ UpTo(draft', m.vendor, m.base)
  BY <1>1, ReadStaysTrue DEF ChangeOk
<1>3. m.kind = "save" /\ m.outcome = "applied" => UpTo(draft', m.vendor, MadeBy(m))
  BY <1>1, ReadStaysTrue DEF ChangeOk
<1>4. ChangeOk(draft', m)
  BY <1>2, <1>3 DEF ChangeOk, MadeBy
<1>5. StillApplies(m)' => StillApplies(m)
  <2>1. draft[m.vendor].revision \in Nat
    BY <1>1 DEF Snapshots, Drafts
  <2>2. m.base.revision <= draft[m.vendor].revision
    BY <1>2 DEF UpTo
  <2> QED BY <1>1, <2>1, <2>2 DEF DraftsRise, StillApplies
<1> QED BY <1>4, <1>5

\* One change takes a step at the web or at the Agent, and no page is touched.
LEMMA OneChange ==
  ASSUME ConsoleInv, NEW i \in DOMAIN changes, NEW q \in Changes,
         changes' = [changes EXCEPT ![i] = q], UNCHANGED <<pageVars, key, reveal>>,
         DraftsRise, ChangeOk(draft', q), ReadInv',
         changes[i].heard # "undecided" => q.heard # "undecided",
         \/ q.own /\ StillApplies(q)' /\ ~q.expired =>
              changes[i].own /\ StillApplies(changes[i]) /\ ~changes[i].expired
         \/ i \in {pendingAt, unknown}
  PROVE  ConsoleInv'
<1> USE ConsoleShape
<1>1. /\ changes' \in Seq(Changes) /\ Len(changes') = Len(changes)
      /\ DOMAIN changes' = DOMAIN changes
      /\ changes'[i] = q /\ \A j \in DOMAIN changes : j # i => changes'[j] = changes[j]
  BY ExceptSeq DEF ConsoleInv, ConsoleTypeOK
<1>2. ConsoleTypeOK'
  BY <1>1 DEF ConsoleInv, ConsoleTypeOK, DraftsRise, pageVars
<1>3. ChangesOk'
  <2> SUFFICES ASSUME NEW j \in DOMAIN changes, NEW m, m = changes'[j] PROVE ChangeOk(draft', m)
    BY <1>1 DEF ChangesOk
  <2>1. CASE j = i
    BY <1>1, <2>1
  <2>2. CASE j # i
    BY <1>1, <2>2, ChangeStaysOk DEF ConsoleInv, ConsoleTypeOK
  <2> QED BY <2>1, <2>2
<1>4. PendingInv'
  <2>1. pendingAt' = pendingAt /\ unknown' = unknown /\ doing' = doing
    BY DEF pageVars
  <2>2. doing = "verifying" => pendingAt \in DOMAIN changes
    BY DEF ConsoleInv, ConsoleTypeOK
  <2> QED BY <1>1, <2>1, <2>2 DEF PendingInv, ConsoleInv
<1>5. UnknownStaysLocked'
  <2> SUFFICES ASSUME NEW j \in DOMAIN changes, NEW m, m = changes'[j],
                      m.own, StillApplies(m)', ~m.expired
               PROVE  j \in {pendingAt, unknown}
    BY <1>1 DEF UnknownStaysLocked, pageVars
  <2>1. CASE j = i
    BY <1>1, <2>1 DEF ConsoleInv, UnknownStaysLocked
  <2>2. CASE j # i
    <3>1. m = changes[j] /\ m \in Changes /\ ChangeOk(draft, m)
      BY <1>1, <2>2
    <3>2. StillApplies(m)
      BY <3>1, ChangeStaysOk DEF ConsoleInv, ConsoleTypeOK
    <3> QED BY <3>1, <3>2 DEF ConsoleInv, UnknownStaysLocked
  <2> QED BY <2>1, <2>2
<1>6. KeyInv'
  BY DEF ConsoleInv, KeyInv, pageVars, NoReveal
<1> QED BY <1>1, <1>2, <1>3, <1>4, <1>5, <1>6 DEF ConsoleInv

LEMMA ReadKept ==
  ASSUME ConsoleInv, DraftsRise, UNCHANGED <<snapshot, fetched>>,
         \A v \in Vendors : draft'[v].revision = 0 => draft'[v] = NoDraft
  PROVE  ReadInv'
<1>1. draft \in Snapshots /\ snapshot \in Snapshots /\ fetched \in Snapshots \cup {NotRead}
  BY DEF ConsoleInv, ConsoleTypeOK
<1>2. \A v \in Vendors : snapshot[v].revision \in Nat
  BY <1>1 DEF Snapshots, Drafts
<1>3. fetched # NotRead => \A v \in Vendors : fetched[v].revision \in Nat
  BY <1>1 DEF Snapshots, Drafts
<1> QED BY <1>1, <1>2, <1>3, ReadStaysTrue DEF ConsoleInv, ReadInv

LEMMA DraftsStay ==
  ASSUME ConsoleInv, draft' = draft
  PROVE  DraftsRise /\ \A v \in Vendors : draft'[v].revision = 0 => draft'[v] = NoDraft
BY DEF ConsoleInv, ConsoleTypeOK, DraftsRise, ReadInv

LEMMA NextRises ==
  ASSUME ConsoleInv, NEW v \in Vendors, NEW content \in Contents \cup {NoContent},
         draft[v].revision < MaxDraft, draft' = NextDraft(v, content)
  PROVE  /\ DraftsRise /\ \A w \in Vendors : draft'[w].revision = 0 => draft'[w] = NoDraft
         /\ draft'[v] = [revision |-> draft[v].revision + 1, content |-> content]
<1>1. draft \in [Vendors -> Drafts] /\ draft[v].revision \in 0..MaxDraft /\ MaxDraft \in Nat
  BY ConsoleAssumption DEF ConsoleInv, ConsoleTypeOK, Snapshots, Drafts
<1>2. PICK d : d = [revision |-> draft[v].revision + 1, content |-> content]
  OBVIOUS
<1>3. draft' = [draft EXCEPT ![v] = d]
  BY <1>2 DEF NextDraft
<1>4. d \in Drafts /\ d.revision = draft[v].revision + 1 /\ d.revision # 0
  BY <1>1, <1>2 DEF Drafts
<1>5. draft' \in Snapshots /\ draft'[v] = d /\ \A w \in Vendors : w # v => draft'[w] = draft[w]
  BY <1>1, <1>3, <1>4 DEF Snapshots
<1> QED BY <1>2, <1>4, <1>5 DEF DraftsRise, ConsoleInv, ReadInv

LEMMA WebAndAgentKeep ==
  ASSUME ConsoleInv, NEW i \in DOMAIN changes, WebNext(i) \/ AgentNext(i) \/ WindowPasses(i)
  PROVE  ConsoleInv'
<1> USE ConsoleShape
<1>0. changes[i] \in Changes /\ ChangeOk(draft, changes[i]) /\ draft \in Snapshots
  BY DEF ConsoleInv, ConsoleTypeOK
<1>1. UNCHANGED <<pageVars, key, reveal>> /\ UNCHANGED <<snapshot, fetched>>
  BY DEF WebNext, AgentNext, WindowPasses, WebAsks, WebRefuses, WebAnswers, AgentApplies,
         AgentRefuses, pageVars
<1>2. ASSUME draft' = draft, NEW q \in Changes, changes' = [changes EXCEPT ![i] = q],
             ChangeOk(draft, q),
             changes[i].heard # "undecided" => q.heard # "undecided",
             q.vendor = changes[i].vendor, q.base = changes[i].base, q.own = changes[i].own,
             q.outcome = "undecided" => changes[i].outcome = "undecided",
             ~q.expired => ~changes[i].expired
      PROVE  ConsoleInv'
  <2>1. DraftsRise /\ ReadInv'
    BY <1>1, <1>2, DraftsStay, ReadKept
  <2>2. ChangeOk(draft', q)
    BY <1>2
  <2>3. StillApplies(q)' => StillApplies(changes[i])
    BY <1>2 DEF StillApplies
  <2> HIDE ConsoleShape
  <2> QED BY <1>1, <1>2, <2>1, <2>2, <2>3, OneChange
<1>3. CASE \E clear \in BOOLEAN : WebRefuses(i, clear)
  <2>1. PICK heard \in {"refused", "undecided"} :
          changes' = [changes EXCEPT ![i].stage = "ended", ![i].outcome = "refused",
                                     ![i].heard = heard]
    BY <1>3 DEF WebRefuses
  <2>2. changes[i].stage = "checking" /\ draft' = draft
    BY <1>3 DEF WebRefuses
  <2>3. PICK q : q = [changes[i] EXCEPT !.stage = "ended", !.outcome = "refused", !.heard = heard]
    OBVIOUS
  <2>4. q \in Changes /\ changes' = [changes EXCEPT ![i] = q]
    BY <1>0, <2>1, <2>3 DEF Changes, Outcomes
  <2>5. /\ q.vendor = changes[i].vendor /\ q.base = changes[i].base /\ q.own = changes[i].own
        /\ q.kind = changes[i].kind /\ q.content = changes[i].content
        /\ q.expired = changes[i].expired /\ q.told = changes[i].told
        /\ q.stage = "ended" /\ q.outcome = "refused" /\ q.heard = heard
    BY <1>0, <2>3 DEF Changes
  <2>6. changes[i].heard = "undecided" /\ changes[i].outcome = "undecided"
    BY <1>0, <2>2 DEF ChangeOk
  <2>7. ChangeOk(draft, q)
    BY <1>0, <2>1, <2>5, <2>6 DEF ChangeOk
  <2> HIDE ConsoleShape
  <2> QED BY <1>2, <2>2, <2>4, <2>5, <2>6, <2>7
<1>4. CASE WebAsks(i)
  <2>1. PICK q : q = [changes[i] EXCEPT !.stage = "calling", !.asked = TRUE]
    OBVIOUS
  <2>2. q \in Changes /\ changes' = [changes EXCEPT ![i] = q]
    BY <1>0, <1>4, <2>1 DEF Changes, WebAsks
  <2>3. changes[i].stage = "checking" /\ draft' = draft
    BY <1>4 DEF WebAsks
  <2>4. /\ q.vendor = changes[i].vendor /\ q.base = changes[i].base /\ q.own = changes[i].own
        /\ q.kind = changes[i].kind /\ q.content = changes[i].content
        /\ q.expired = changes[i].expired /\ q.told = changes[i].told
        /\ q.stage = "calling" /\ q.outcome = changes[i].outcome /\ q.heard = changes[i].heard
    BY <1>0, <2>1 DEF Changes
  <2>5. ChangeOk(draft, q)
    BY <1>0, <2>3, <2>4 DEF ChangeOk, MadeBy
  <2> HIDE ConsoleShape
  <2> QED BY <1>2, <2>2, <2>3, <2>4, <2>5
<1>5. CASE \E clear \in BOOLEAN : WebAnswers(i, clear)
  <2>1. PICK heard \in {changes[i].outcome, "undecided"} :
          changes' = [changes EXCEPT ![i].stage = "ended", ![i].heard = heard]
    BY <1>5 DEF WebAnswers
  <2>2. changes[i].stage = "calling" /\ draft' = draft
    BY <1>5 DEF WebAnswers
  <2>3. PICK q : q = [changes[i] EXCEPT !.stage = "ended", !.heard = heard]
    OBVIOUS
  <2>4. heard \in Outcomes
    BY <1>0, <2>1 DEF Changes, Outcomes
  <2>5. q \in Changes /\ changes' = [changes EXCEPT ![i] = q]
    BY <1>0, <2>1, <2>3, <2>4 DEF Changes
  <2>6. /\ q.vendor = changes[i].vendor /\ q.base = changes[i].base /\ q.own = changes[i].own
        /\ q.kind = changes[i].kind /\ q.content = changes[i].content
        /\ q.expired = changes[i].expired /\ q.told = changes[i].told
        /\ q.stage = "ended" /\ q.outcome = changes[i].outcome /\ q.heard = heard
    BY <1>0, <2>3 DEF Changes
  <2>7. changes[i].heard = "undecided"
    BY <1>0, <2>2 DEF ChangeOk
  <2>8. ChangeOk(draft, q)
    BY <1>0, <2>1, <2>6 DEF ChangeOk, MadeBy
  <2> HIDE ConsoleShape
  <2> QED BY <1>2, <2>2, <2>5, <2>6, <2>7, <2>8
<1>6. CASE \E outcome \in {"refused", "failed test"} : AgentRefuses(i, outcome)
  <2>1. PICK outcome \in {"refused", "failed test"} :
          changes' = [changes EXCEPT ![i].outcome = outcome]
    BY <1>6 DEF AgentRefuses
  <2>2. changes[i].asked /\ changes[i].outcome = "undecided" /\ draft' = draft
    BY <1>6 DEF AgentRefuses
  <2>3. PICK q : q = [changes[i] EXCEPT !.outcome = outcome]
    OBVIOUS
  <2>4. q \in Changes /\ changes' = [changes EXCEPT ![i] = q]
    BY <1>0, <2>1, <2>3 DEF Changes, Outcomes
  <2>5. /\ q.vendor = changes[i].vendor /\ q.base = changes[i].base /\ q.own = changes[i].own
        /\ q.kind = changes[i].kind /\ q.content = changes[i].content
        /\ q.expired = changes[i].expired /\ q.told = changes[i].told /\ q.asked = changes[i].asked
        /\ q.stage = changes[i].stage /\ q.outcome = outcome /\ q.heard = changes[i].heard
    BY <1>0, <2>3 DEF Changes
  <2>6. changes[i].stage # "checking" /\ changes[i].heard = "undecided"
        /\ changes[i].told \notin {"succeeded", "failed"}
    BY <1>0, <2>2 DEF ChangeOk
  <2>7. ChangeOk(draft, q)
    BY <1>0, <2>1, <2>5, <2>6 DEF ChangeOk, MadeBy
  <2> HIDE ConsoleShape
  <2> QED BY <1>2, <2>1, <2>2, <2>4, <2>5, <2>6, <2>7
<1>7. CASE WindowPasses(i)
  <2>1. PICK q : q = [changes[i] EXCEPT !.expired = TRUE]
    OBVIOUS
  <2>2. q \in Changes /\ changes' = [changes EXCEPT ![i] = q] /\ draft' = draft
    BY <1>0, <1>7, <2>1 DEF Changes, WindowPasses
  <2>3. /\ q.vendor = changes[i].vendor /\ q.base = changes[i].base /\ q.own = changes[i].own
        /\ q.kind = changes[i].kind /\ q.content = changes[i].content
        /\ q.expired /\ q.told = changes[i].told /\ q.asked = changes[i].asked
        /\ q.stage = changes[i].stage /\ q.outcome = changes[i].outcome /\ q.heard = changes[i].heard
    BY <1>0, <2>1 DEF Changes
  <2>4. ChangeOk(draft, q)
    BY <1>0, <2>3 DEF ChangeOk, MadeBy
  <2> HIDE ConsoleShape
  <2> QED BY <1>2, <2>2, <2>3, <2>4
<1>8. CASE AgentApplies(i)
  <2>1. PICK q : q = [changes[i] EXCEPT !.outcome = "applied"]
    OBVIOUS
  <2>2. q \in Changes /\ changes' = [changes EXCEPT ![i] = q]
    BY <1>0, <1>8, <2>1 DEF Changes, AgentApplies, Outcomes
  <2>3. /\ q.vendor = changes[i].vendor /\ q.base = changes[i].base /\ q.own = changes[i].own
        /\ q.kind = changes[i].kind /\ q.content = changes[i].content
        /\ q.expired = changes[i].expired /\ q.told = changes[i].told /\ q.asked = changes[i].asked
        /\ q.stage = changes[i].stage /\ q.outcome = "applied" /\ q.heard = changes[i].heard
    BY <1>0, <2>1 DEF Changes
  <2>4. changes[i].asked /\ StillApplies(changes[i])
    BY <1>8 DEF AgentApplies
  <2>5. changes[i].stage # "checking" /\ changes[i].heard = "undecided"
        /\ changes[i].told \notin {"succeeded", "failed"}
    BY <1>0, <2>4 DEF ChangeOk, StillApplies
  <2>6. q.vendor \in Vendors /\ q.base \in Drafts /\ q.content \in Contents \cup {NoContent}
    BY <2>2 DEF Changes
  <2>7. CASE q.kind = "save"
    <3>1. draft' = NextDraft(q.vendor, q.content) /\ draft[q.vendor].revision = q.base.revision
          /\ q.base.revision < MaxDraft
      BY <1>0, <1>8, <2>3, <2>4, <2>7 DEF AgentApplies, StillApplies, ChangeOk
    <3>2. /\ DraftsRise /\ \A w \in Vendors : draft'[w].revision = 0 => draft'[w] = NoDraft
          /\ draft'[q.vendor] = [revision |-> q.base.revision + 1, content |-> q.content]
      BY <2>6, <3>1, NextRises
    <3>3. ReadInv'
      BY <1>1, <3>2, ReadKept
    <3>4. changes[i].base.revision \in Nat /\ q.base.revision \in Nat
      BY <2>3, <2>6 DEF Drafts
    <3>5. UpTo(draft', q.vendor, MadeBy(q))
      BY <3>2, <3>4 DEF UpTo, MadeBy
    <3>6. UpTo(draft', q.vendor, q.base)
      BY <3>2, <3>4 DEF UpTo
    <3>7. ChangeOk(draft', q)
      BY <1>0, <2>3, <2>5, <3>1, <3>5, <3>6 DEF ChangeOk
    <3>8. ~StillApplies(q)'
      BY <2>3 DEF StillApplies
    <3> HIDE ConsoleShape
    <3> QED BY <1>1, <2>2, <2>3, <2>5, <3>2, <3>3, <3>7, <3>8, OneChange
  <2>8. CASE q.kind = "activate"
    <3>1. draft' = draft
      BY <1>8, <2>3, <2>8 DEF AgentApplies
    <3>2. ChangeOk(draft, q)
      BY <1>0, <2>3, <2>5, <2>8 DEF ChangeOk
    <3> HIDE ConsoleShape
    <3>3. DraftsRise /\ ReadInv'
      BY <1>1, <3>1, DraftsStay, ReadKept
    <3> QED BY <1>1, <2>2, <2>3, <2>5, <3>1, <3>2, <3>3, OneChange DEF StillApplies
  <2> QED BY <2>2, <2>7, <2>8 DEF Changes
<1> QED BY <1>3, <1>4, <1>5, <1>6, <1>7, <1>8 DEF WebNext, AgentNext
-----------------------------------------------------------------------------
\* What a page knows of itself.
PageShape ==
  /\ opened \in BOOLEAN /\ visible \in BOOLEAN
  /\ snapshot \in Snapshots /\ selected \in Vendors
  /\ doing \in {"nothing", "submitting", "verifying", "refreshing"}
  /\ pendingAt \in 0..Len(changes) /\ unknown \in 0..Len(changes)
  /\ fetched \in Snapshots \cup {NotRead}
  /\ key \in [status: {"idle", "loading", "revealed"}, vendor: Vendors]
  /\ reveal \in [revision: 0..MaxDraft, vendor: Vendors, served: BOOLEAN]
  /\ doing \in {"submitting", "verifying"} <=> pendingAt # 0

\* The changes stay what they are, up to what is announced and who cares.
Alike ==
  /\ changes' \in Seq(Changes) /\ Len(changes') = Len(changes) /\ ChangesOk'
  /\ DOMAIN changes' = DOMAIN changes
  /\ \A i \in DOMAIN changes :
       /\ changes'[i].vendor = changes[i].vendor /\ changes'[i].base = changes[i].base
       /\ changes'[i].outcome = changes[i].outcome /\ changes'[i].heard = changes[i].heard
       /\ changes'[i].expired = changes[i].expired
       /\ changes'[i].own => changes[i].own

LEMMA SameAlike ==
  ASSUME ConsoleInv, draft' = draft, changes' = changes
  PROVE  Alike
BY DEF Alike, ConsoleInv, ConsoleTypeOK, ChangesOk

LEMMA ToldAlike ==
  ASSUME ConsoleInv, draft' = draft, NEW i \in DOMAIN changes,
         NEW what \in {"succeeded", "failed", "unknown"}, Told(i, what),
         what = "succeeded" => changes[i].outcome = "applied",
         what = "failed" => changes[i].outcome \in {"refused", "failed test"}
  PROVE  Alike
<1> USE ConsoleShape
<1>0. changes[i] \in Changes /\ ChangeOk(draft, changes[i]) /\ changes \in Seq(Changes)
  BY DEF ConsoleInv, ConsoleTypeOK
<1>1. PICK q : q = [changes[i] EXCEPT !.told = what]
  OBVIOUS
<1>2. q \in Changes /\ changes' = [changes EXCEPT ![i] = q]
  BY <1>0, <1>1 DEF Changes, Told
<1>3. /\ q.vendor = changes[i].vendor /\ q.base = changes[i].base /\ q.own = changes[i].own
      /\ q.kind = changes[i].kind /\ q.content = changes[i].content
      /\ q.expired = changes[i].expired /\ q.told = what /\ q.asked = changes[i].asked
      /\ q.stage = changes[i].stage /\ q.outcome = changes[i].outcome /\ q.heard = changes[i].heard
  BY <1>0, <1>1 DEF Changes
<1>4. ChangeOk(draft, q)
  BY <1>0, <1>3 DEF ChangeOk, MadeBy
<1>5. /\ changes' \in Seq(Changes) /\ Len(changes') = Len(changes)
      /\ DOMAIN changes' = DOMAIN changes
      /\ changes'[i] = q /\ \A j \in DOMAIN changes : j # i => changes'[j] = changes[j]
  <2>1. i \in 1..Len(changes) /\ DOMAIN changes = 1..Len(changes)
    OBVIOUS
  <2> HIDE ConsoleShape
  <2> QED BY <1>0, <1>2, <2>1, ExceptSeq
<1>6. ChangesOk'
  BY <1>4, <1>5 DEF ChangesOk, ConsoleInv
<1> HIDE ConsoleShape
<1> QED BY <1>3, <1>5, <1>6 DEF Alike

\* A page that lets go of a change has left it behind, knows its outcome, or has
\* waited for as long as it may take effect.
Released(i) ==
  ~changes'[i].own \/ changes[i].expired \/ ~StillApplies(changes[i])

LEMMA PageMoves ==
  ASSUME ConsoleInv, draft' = draft, Alike, PageShape', PendingInv', ReadInv', KeyInv',
         \A i \in DOMAIN changes :
           i \in {pendingAt, unknown} => i \in {pendingAt', unknown'} \/ Released(i)
  PROVE  ConsoleInv'
<1>1. ConsoleTypeOK'
  BY DEF ConsoleInv, ConsoleTypeOK, PageShape, Alike
<1>2. UnknownStaysLocked'
  <2> SUFFICES ASSUME NEW i \in DOMAIN changes, NEW m, m = changes'[i],
                      m.own, StillApplies(m)', ~m.expired
               PROVE  i \in {pendingAt', unknown'}
    BY DEF UnknownStaysLocked, Alike
  <2>1. changes[i].own /\ StillApplies(changes[i]) /\ ~changes[i].expired
    BY DEF StillApplies, Alike
  <2>2. i \in {pendingAt, unknown}
    BY <2>1 DEF ConsoleInv, UnknownStaysLocked
  <2> QED BY <2>1, <2>2 DEF Released
<1> QED BY <1>1, <1>2 DEF ConsoleInv, Alike

LEMMA PageIs == ASSUME ConsoleInv PROVE PageShape
BY DEF ConsoleInv, ConsoleTypeOK, PageShape

LEMMA ClearedShape ==
  ASSUME ClearKey
  PROVE  /\ key' \in [status: {"idle", "loading", "revealed"}, vendor: Vendors]
         /\ reveal' \in [revision: 0..MaxDraft, vendor: Vendors, served: BOOLEAN]
         /\ KeyInv'
<1>1. NoKey.status = "idle" /\ NoKey \in [status: {"idle", "loading", "revealed"}, vendor: Vendors]
  BY ConsoleAssumption DEF NoKey
<1>2. NoReveal \in [revision: 0..MaxDraft, vendor: Vendors, served: BOOLEAN]
  BY ConsoleAssumption DEF NoReveal
<1>3. NoReveal' = NoReveal
  BY DEF NoReveal
<1> QED BY <1>1, <1>2, <1>3 DEF ClearKey, KeyInv

\* The page is locked by what is pending, or lets go of nothing.
LEMMA AbortKeeps ==
  ASSUME ConsoleInv, draft' = draft, AbortForLifecycle
  PROVE  /\ Alike /\ doing' = "nothing" /\ pendingAt' = 0 /\ fetched' = NotRead
         /\ unknown' \in 0..Len(changes)
         /\ unknown' \in {pendingAt, unknown} /\ (pendingAt = 0 => unknown' = unknown)
         /\ \A i \in DOMAIN changes : i \in {pendingAt, unknown} => i = unknown'
<1> USE ConsoleShape, PageIs
<1>1. CASE pendingAt # 0
  <2>1. Alike
    BY <1>1, ToldAlike DEF AbortForLifecycle, RequireSync
  <2>2. unknown = 0
    BY <1>1 DEF ConsoleInv, PendingInv
  <2> QED BY <1>1, <2>1, <2>2 DEF AbortForLifecycle, RequireSync, Idle, PageShape
<1>2. CASE pendingAt = 0
  <2>1. Alike
    BY <1>2, SameAlike DEF AbortForLifecycle
  <2> QED BY <1>2, <2>1 DEF AbortForLifecycle, Idle, PageShape
<1> QED BY <1>1, <1>2
\* The lifecycle of the page.
LEMMA LifecycleKeeps ==
  ASSUME ConsoleInv, Open \/ Leave \/ Hide \/ Show
  PROVE  ConsoleInv'
<1> USE PageIs
<1>0. draft' = draft /\ draft \in Snapshots /\ ReadInv /\ PendingInv /\ KeyInv
  BY DEF Open, Leave, Hide, Show, ConsoleInv, ConsoleTypeOK
<1>1. CASE Open
  <2>1. Alike
    BY <1>0, <1>1, SameAlike DEF Open
  <2>2. PageShape'
    BY <1>0, <1>1, ConsoleAssumption DEF Open, PageShape
  <2>3. ReadInv'
    BY <1>0, <1>1 DEF Open, ReadInv, UpTo, Snapshots, Drafts
  <2>4. PendingInv'
    BY <1>0, <1>1 DEF Open, PendingInv
  <2>5. KeyInv'
    BY <1>0, <1>1 DEF Open, KeyInv, NoReveal
  <2> HIDE PageIs
  <2> QED BY <1>0, <1>1, <2>1, <2>2, <2>3, <2>4, <2>5, PageMoves DEF Open
<1>2. CASE Leave
  <2>1. /\ changes' \in Seq(Changes) /\ Len(changes') = Len(changes) /\ DOMAIN changes' = DOMAIN changes
        /\ \A i \in DOMAIN changes : changes'[i] = [changes[i] EXCEPT !.own = FALSE]
    <3>1. changes' = [i \in DOMAIN changes |-> [changes[i] EXCEPT !.own = FALSE]]
      BY <1>2 DEF Leave
    <3>2. DOMAIN changes = 1..Len(changes) /\ Len(changes) \in Nat
          /\ \A i \in DOMAIN changes : changes[i] \in Changes
      BY ConsoleShape
    <3>3. \A i \in DOMAIN changes : [changes[i] EXCEPT !.own = FALSE] \in Changes
      BY <3>2 DEF Changes
    <3>4. changes' \in [1..Len(changes) -> Changes]
      BY <3>1, <3>2, <3>3
    <3>5. changes' \in Seq(Changes)
      BY <3>2, <3>4, SeqDef
    <3>6. Len(changes') = Len(changes)
      BY <3>2, <3>4, <3>5, LenProperties
    <3> QED BY <3>1, <3>5, <3>6
  <2>2. ASSUME NEW i \in DOMAIN changes, NEW m, m = changes'[i]
        PROVE  /\ ChangeOk(draft', m) /\ ~m.own
               /\ m.vendor = changes[i].vendor /\ m.base = changes[i].base
               /\ m.outcome = changes[i].outcome /\ m.heard = changes[i].heard
               /\ m.expired = changes[i].expired
    <3>1. changes[i] \in Changes /\ ChangeOk(draft, changes[i])
      BY ConsoleShape
    <3>2. /\ m.vendor = changes[i].vendor /\ m.base = changes[i].base /\ ~m.own
          /\ m.kind = changes[i].kind /\ m.content = changes[i].content
          /\ m.expired = changes[i].expired /\ m.told = changes[i].told /\ m.asked = changes[i].asked
          /\ m.stage = changes[i].stage /\ m.outcome = changes[i].outcome /\ m.heard = changes[i].heard
      BY <2>1, <2>2, <3>1 DEF Changes
    <3>3. ChangeOk(draft', m)
      BY <1>0, <3>1, <3>2 DEF ChangeOk, MadeBy
    <3> QED BY <3>2, <3>3
  <2>3. Alike
    BY <2>1, <2>2 DEF Alike, ChangesOk
  <2>4. key' \in [status: {"idle", "loading", "revealed"}, vendor: Vendors]
        /\ reveal' \in [revision: 0..MaxDraft, vendor: Vendors, served: BOOLEAN] /\ KeyInv'
    BY <1>2, ClearedShape DEF Leave
  <2>5. PICK none : none = [v \in Vendors |-> NoDraft]
    OBVIOUS
  <2>6. snapshot' = none /\ none \in Snapshots /\ \A v \in Vendors : none[v].revision = 0 /\ none[v] = NoDraft
    BY <1>2, <2>5, ConsoleAssumption DEF Leave, NoDraft, Snapshots, Drafts
  <2>7. PageShape'
    <3>1. /\ opened' \in BOOLEAN /\ visible' \in BOOLEAN /\ selected' \in Vendors
          /\ doing' = "nothing" /\ pendingAt' = 0 /\ unknown' = 0 /\ fetched' = NotRead
      BY <1>2, ConsoleAssumption DEF Leave, Idle
    <3>2. Len(changes) \in Nat
      BY ConsoleShape
    <3> QED BY <2>3, <2>4, <2>6, <3>1, <3>2 DEF PageShape, Alike
  <2>8. ReadInv'
    <3>1. \A v \in Vendors : draft[v].revision \in Nat
      BY <1>0 DEF Snapshots, Drafts
    <3>2. \A v \in Vendors : UpTo(draft, v, none[v])
      BY <1>0, <2>6, <3>1 DEF ReadInv, UpTo
    <3> QED BY <1>0, <1>2, <2>6, <3>2 DEF ReadInv, Leave, Idle, NotRead, NoDraft
  <2>9. PendingInv'
    BY <1>2 DEF Leave, Idle, PendingInv
  <2>10. \A i \in DOMAIN changes : Released(i)
    BY <2>2 DEF Released
  <2> HIDE PageIs
  <2> QED BY <1>0, <2>3, <2>4, <2>7, <2>8, <2>9, <2>10, PageMoves
<1>3. CASE Hide
  <2>1. /\ Alike /\ doing' = "nothing" /\ pendingAt' = 0 /\ fetched' = NotRead
        /\ unknown' \in 0..Len(changes)
        /\ \A i \in DOMAIN changes : i \in {pendingAt, unknown} => i = unknown'
    BY <1>0, <1>3, AbortKeeps DEF Hide
  <2>2. key' \in [status: {"idle", "loading", "revealed"}, vendor: Vendors]
        /\ reveal' \in [revision: 0..MaxDraft, vendor: Vendors, served: BOOLEAN] /\ KeyInv'
    BY <1>3, ClearedShape DEF Hide
  <2>3. PageShape'
    <3>1. UNCHANGED <<opened, snapshot, selected>> /\ visible' \in BOOLEAN
      BY <1>3 DEF Hide
    <3> QED BY <2>1, <2>2, <3>1 DEF PageShape, Alike
  <2>4. ReadInv'
    BY <1>0, <1>3, <2>1 DEF ReadInv, Hide, NotRead, NoDraft
  <2>5. PendingInv'
    BY <2>1 DEF PendingInv
  <2> HIDE PageIs
  <2> QED BY <1>0, <2>1, <2>2, <2>3, <2>4, <2>5, PageMoves
<1>4. CASE Show
  <2>1. Alike
    BY <1>0, <1>4, SameAlike DEF Show
  <2>2. UNCHANGED <<draft, changes, opened, snapshot, selected, pendingAt, unknown,
                 fetched, key, reveal>> /\ visible' = TRUE
        /\ doing' \in {doing, "refreshing"} /\ (doing' # doing => unknown # 0)
    BY <1>4 DEF Show
  <2>3. unknown # 0 => pendingAt = 0
    BY <1>0 DEF PendingInv
  <2>4. PageShape'
    BY <2>2, <2>3 DEF PageShape
  <2>5. ReadInv'
    BY <1>0, <2>2 DEF ReadInv, NotRead, NoDraft
  <2>6. PendingInv'
    BY <1>0, <2>2, <2>3 DEF PendingInv
  <2>7. KeyInv'
    BY <1>0, <2>2 DEF KeyInv, NoReveal
  <2> HIDE PageIs
  <2> QED BY <1>0, <2>1, <2>2, <2>4, <2>5, <2>6, <2>7, PageMoves
<1> QED BY <1>1, <1>2, <1>3, <1>4

\* Another provider is selected; the page asks for a snapshot, or fails to get it.
LEMMA SelectionKeeps ==
  ASSUME ConsoleInv,
         (\E v \in Vendors : SelectProvider(v)) \/ Refresh \/ RefreshReads \/ RefreshFails
  PROVE  ConsoleInv'
<1> USE PageIs
<1>0. draft' = draft /\ draft \in Snapshots /\ ReadInv /\ PendingInv /\ KeyInv
  BY DEF SelectProvider, Refresh, RefreshReads, RefreshFails, ConsoleInv, ConsoleTypeOK
<1>1. ASSUME NEW v \in Vendors, SelectProvider(v) PROVE ConsoleInv'
  <2>1. key' \in [status: {"idle", "loading", "revealed"}, vendor: Vendors]
        /\ reveal' \in [revision: 0..MaxDraft, vendor: Vendors, served: BOOLEAN] /\ KeyInv'
    BY <1>1, ClearedShape DEF SelectProvider
  <2>2. UNCHANGED <<draft, opened, visible, snapshot>> /\ selected' = v
    BY <1>1 DEF SelectProvider
  <2>3. CASE pendingAt # 0
    <3>1. /\ Alike /\ doing' = "nothing" /\ pendingAt' = 0 /\ fetched' = NotRead
          /\ unknown' \in 0..Len(changes)
          /\ \A i \in DOMAIN changes : i \in {pendingAt, unknown} => i = unknown'
      BY <1>0, <1>1, <2>3, AbortKeeps DEF SelectProvider
    <3>2. PageShape'
      BY <2>1, <2>2, <3>1 DEF PageShape, Alike
    <3>3. ReadInv'
      BY <1>0, <2>2, <3>1 DEF ReadInv, NotRead, NoDraft
    <3>4. PendingInv'
      BY <3>1 DEF PendingInv
    <3> HIDE PageIs
    <3> QED BY <1>0, <2>1, <3>1, <3>2, <3>3, <3>4, PageMoves
  <2>4. CASE pendingAt = 0
    <3>1. UNCHANGED <<changes, doing, pendingAt, unknown, fetched>>
      BY <1>1, <2>4 DEF SelectProvider
    <3>2. Alike
      BY <1>0, <3>1, SameAlike
    <3>3. PageShape'
      BY <2>1, <2>2, <3>1 DEF PageShape
    <3>4. ReadInv'
      BY <1>0, <2>2, <3>1 DEF ReadInv, NotRead, NoDraft
    <3>5. PendingInv'
      BY <1>0, <3>1 DEF PendingInv
    <3> HIDE PageIs
    <3> QED BY <1>0, <2>1, <3>1, <3>2, <3>3, <3>4, <3>5, PageMoves
  <2> QED BY <2>3, <2>4
<1>2. CASE Refresh \/ RefreshReads
  <2>1. /\ UNCHANGED <<draft, changes, opened, visible, snapshot, selected, pendingAt, unknown,
                       key, reveal>>
        /\ \/ doing = "nothing" /\ doing' = "refreshing" /\ fetched' = fetched
           \/ doing' = doing /\ fetched' = draft
    BY <1>2 DEF Refresh, RefreshReads
  <2>2. Alike
    BY <2>1, SameAlike
  <2>3. PageShape'
    <3>1. doing' \in {"submitting", "verifying"} <=> doing \in {"submitting", "verifying"}
      BY <2>1
    <3>2. fetched' \in Snapshots \cup {NotRead}
      BY <1>0, <2>1 DEF PageShape
    <3>3. doing' \in {"nothing", "submitting", "verifying", "refreshing"}
      BY <2>1 DEF PageShape
    <3>4. UNCHANGED <<changes, opened, visible, snapshot, selected, pendingAt, unknown, key, reveal>>
      BY <2>1
    <3> QED BY <3>1, <3>2, <3>3, <3>4 DEF PageShape, NotRead
  <2>4. \A v \in Vendors : UpTo(draft, v, draft[v])
    BY <1>0 DEF UpTo, Snapshots, Drafts
  <2>5. ReadInv'
    BY <1>0, <2>1, <2>4 DEF ReadInv, NotRead, NoDraft
  <2>6. PendingInv'
    BY <1>0, <2>1 DEF PendingInv
  <2>7. KeyInv'
    BY <1>0, <2>1 DEF KeyInv, NoReveal
  <2> HIDE PageIs
  <2> QED BY <1>0, <2>1, <2>2, <2>3, <2>5, <2>6, <2>7, PageMoves
<1>3. CASE RefreshFails
  <2>1. /\ Alike /\ doing' = "nothing" /\ pendingAt' = 0 /\ fetched' = NotRead
        /\ unknown' \in 0..Len(changes) /\ (pendingAt = 0 => unknown' = unknown)
        /\ \A i \in DOMAIN changes : i \in {pendingAt, unknown} => i = unknown'
    BY <1>0, <1>3, AbortKeeps DEF RefreshFails
  <2>2. UNCHANGED <<draft, opened, visible, snapshot, selected, key, reveal>>
    BY <1>3 DEF RefreshFails
  <2>3. PageShape'
    BY <2>1, <2>2 DEF PageShape, Alike
  <2>4. ReadInv'
    BY <1>0, <2>1, <2>2 DEF ReadInv, NotRead, NoDraft
  <2>5. PendingInv'
    BY <2>1 DEF PendingInv
  <2>6. KeyInv'
    BY <1>0, <2>1, <2>2 DEF KeyInv, NoReveal
  <2> HIDE PageIs
  <2> QED BY <1>0, <2>1, <2>3, <2>4, <2>5, <2>6, PageMoves
<1> QED BY <1>1, <1>2, <1>3
\* The answer of a change, clear or not, and what a snapshot says of it.
LEMMA AnswersKeep ==
  ASSUME ConsoleInv, AnswerUnclear \/ AnswerClear \/ Verified \/ Refreshed
  PROVE  ConsoleInv'
<1> USE PageIs
<1>0. draft' = draft /\ draft \in Snapshots /\ ReadInv /\ PendingInv /\ KeyInv
      /\ UNCHANGED <<opened, visible, selected, key, reveal>>
  BY DEF AnswerUnclear, AnswerClear, Verified, Refreshed, ConsoleInv, ConsoleTypeOK
<1>1. CASE AnswerUnclear
  <2>1. pendingAt # 0 /\ pendingAt \in DOMAIN changes /\ unknown = 0
    BY <1>0, <1>1, ConsoleShape DEF AnswerUnclear, PageShape, PendingInv
  <2>2. Alike
    BY <1>0, <1>1, <2>1, ToldAlike DEF AnswerUnclear, RequireSync
  <2>3. /\ unknown' = pendingAt /\ doing' = "nothing" /\ pendingAt' = 0 /\ fetched' = NotRead
        /\ snapshot' = snapshot
    BY <1>1 DEF AnswerUnclear, RequireSync, Idle
  <2>4. PageShape'
    BY <1>0, <2>2, <2>3 DEF PageShape, Alike
  <2>5. ReadInv'
    BY <1>0, <2>3 DEF ReadInv, NotRead, NoDraft
  <2>6. PendingInv'
    BY <2>3 DEF PendingInv
  <2>7. KeyInv'
    BY <1>0, <2>1 DEF KeyInv, NoReveal
  <2> HIDE PageIs
  <2> QED BY <1>0, <2>1, <2>2, <2>3, <2>4, <2>5, <2>6, <2>7, PageMoves
<1>2. CASE AnswerClear
  <2>1. pendingAt # 0 /\ pendingAt \in DOMAIN changes
    BY <1>2, ConsoleShape DEF AnswerClear, PageShape
  <2>2. PICK m \in Changes : m = changes[pendingAt] /\ ChangeOk(draft, m)
    BY <2>1, ConsoleShape
  <2>3. m.heard # "undecided" /\ m.outcome = m.heard
    BY <1>2, <2>2 DEF AnswerClear, ChangeOk
  <2>4. snapshot' \in Snapshots /\ \A v \in Vendors : UpTo(draft, v, snapshot'[v])
    <3>1. CASE m.kind = "save" /\ m.heard = "applied"
      <4>1. snapshot' = [snapshot EXCEPT ![m.vendor] = MadeBy(m)]
        BY <1>2, <2>2, <3>1 DEF AnswerClear, MadeBy
      <4>2. UpTo(draft, m.vendor, MadeBy(m)) /\ m.base.revision < MaxDraft
        BY <2>2, <2>3, <3>1 DEF ChangeOk
      <4>3. m.vendor \in Vendors /\ MadeBy(m) \in Drafts
        BY <4>2, ConsoleAssumption DEF Changes, Drafts, MadeBy
      <4>4. snapshot \in [Vendors -> Drafts]
        BY DEF PageShape, Snapshots
      <4> QED BY <1>0, <4>1, <4>2, <4>3, <4>4 DEF Snapshots, ReadInv
    <3>2. CASE ~(m.kind = "save" /\ m.heard = "applied")
      <4>1. snapshot' = snapshot
        BY <1>2, <2>2, <3>2 DEF AnswerClear
      <4> QED BY <1>0, <4>1 DEF PageShape, ReadInv
    <3> QED BY <3>1, <3>2
  <2>5. CASE m.heard = "refused"
    <3>1. Told(pendingAt, "failed") /\ Idle /\ unknown' = unknown
      BY <1>2, <2>2, <2>5 DEF AnswerClear
    <3>2. Alike
      BY <1>0, <2>1, <2>2, <2>3, <2>5, <3>1, ToldAlike
    <3>3. doing' = "nothing" /\ pendingAt' = 0 /\ fetched' = NotRead
      BY <3>1 DEF Idle
    <3>4. PageShape'
      <4>1. Len(changes) \in Nat
        BY ConsoleShape
      <4> QED BY <1>0, <2>4, <3>1, <3>2, <3>3, <4>1 DEF PageShape, Alike
    <3>5. ReadInv'
      BY <1>0, <2>4, <3>3 DEF ReadInv, NotRead, NoDraft
    <3>6. PendingInv'
      BY <3>3 DEF PendingInv
    <3>7. KeyInv'
      BY <1>0, <3>1, <3>3 DEF KeyInv, NoReveal
    <3>8. Released(pendingAt)
      BY <2>2, <2>3, <2>5 DEF Released, StillApplies
    <3> HIDE PageIs
    <3> QED BY <1>0, <3>1, <3>2, <3>4, <3>5, <3>6, <3>7, <3>8, PageMoves
  <2>6. CASE m.heard # "refused"
    <3>1. doing' = "verifying" /\ UNCHANGED <<changes, pendingAt, fetched, unknown>>
      BY <1>2, <2>2, <2>6 DEF AnswerClear
    <3>2. Alike
      BY <1>0, <3>1, SameAlike
    <3>3. PageShape'
      BY <1>0, <2>1, <2>4, <3>1 DEF PageShape
    <3>4. ReadInv'
      BY <1>0, <2>4, <3>1 DEF ReadInv, NotRead, NoDraft
    <3>5. PendingInv'
      BY <1>0, <2>2, <2>3, <3>1 DEF PendingInv
    <3>6. KeyInv'
      BY <1>0, <3>1 DEF KeyInv, NoReveal
    <3> HIDE PageIs
    <3> QED BY <1>0, <3>1, <3>2, <3>3, <3>4, <3>5, <3>6, PageMoves
  <2> QED BY <2>5, <2>6
<1>3. CASE Verified
  <2>1. pendingAt # 0 /\ pendingAt \in DOMAIN changes
    BY <1>3, ConsoleShape DEF Verified, PageShape
  <2>2. PICK m \in Changes : m = changes[pendingAt] /\ ChangeOk(draft, m)
    BY <2>1, ConsoleShape
  <2>3. m.heard # "undecided" /\ m.outcome = m.heard
        /\ (m.heard # "applied" => m.outcome \in {"refused", "failed test"})
    BY <1>0, <1>3, <2>2 DEF Verified, PendingInv, ChangeOk, Changes, Outcomes
  <2>4. Alike
    <3>1. CASE m.heard = "applied"
      BY <1>0, <1>3, <2>1, <2>2, <2>3, <3>1, ToldAlike DEF Verified
    <3>2. CASE m.heard # "applied"
      BY <1>0, <1>3, <2>1, <2>2, <2>3, <3>2, ToldAlike DEF Verified
    <3> QED BY <3>1, <3>2
  <2>5. /\ doing' = "nothing" /\ pendingAt' = 0 /\ fetched' = NotRead /\ unknown' = unknown
        /\ snapshot' = fetched /\ fetched # NotRead /\ fetched \in Snapshots
    BY <1>3 DEF Verified, Idle, PageShape
  <2>6. PageShape'
    <3>1. Len(changes) \in Nat
      BY ConsoleShape
    <3> QED BY <1>0, <2>4, <2>5, <3>1 DEF PageShape, Alike
  <2>7. ReadInv'
    BY <1>0, <2>5 DEF ReadInv, NotRead, NoDraft
  <2>8. PendingInv'
    BY <2>5 DEF PendingInv
  <2>9. KeyInv'
    BY <1>0, <2>5 DEF KeyInv, NoReveal
  <2>10. Released(pendingAt)
    BY <2>2, <2>3 DEF Released, StillApplies
  <2> HIDE PageIs
  <2> QED BY <1>0, <2>4, <2>5, <2>6, <2>7, <2>8, <2>9, <2>10, PageMoves
<1>4. CASE Refreshed
  <2>1. /\ doing' = "nothing" /\ pendingAt' = 0 /\ fetched' = NotRead
        /\ snapshot' = fetched /\ fetched # NotRead /\ fetched \in Snapshots
        /\ doing = "refreshing" /\ changes' = changes
        /\ unknown' \in {0, unknown}
    BY <1>4 DEF Refreshed, Idle, PageShape
  <2>2. pendingAt = 0
    BY <2>1 DEF PageShape
  <2>3. Alike
    BY <1>0, <2>1, SameAlike
  <2>4. PageShape'
    <3>1. Len(changes) \in Nat /\ unknown' \in 0..Len(changes)
      BY <2>1, ConsoleShape DEF PageShape
    <3> QED BY <1>0, <2>1, <3>1 DEF PageShape
  <2>5. ReadInv'
    BY <1>0, <2>1 DEF ReadInv, NotRead, NoDraft
  <2>6. PendingInv'
    BY <2>1 DEF PendingInv
  <2>7. KeyInv'
    BY <1>0, <2>1 DEF KeyInv, NoReveal
  <2>8. ASSUME unknown # 0, unknown' # unknown PROVE Released(unknown)
    <3>1. unknown \in DOMAIN changes
      BY <2>8, ConsoleShape
    <3>2. PICK m \in Changes : m = changes[unknown] /\ ChangeOk(draft, m)
      BY <3>1, ConsoleShape
    <3>3. m.expired \/ SnapshotProvesMutation(fetched, m)
      BY <1>4, <2>8, <3>2 DEF Refreshed
    <3>4. ASSUME SnapshotProvesMutation(fetched, m) PROVE ~StillApplies(m)
      <4>1. m.vendor \in Vendors /\ m.base.revision \in Nat
        BY DEF Changes, Drafts
      <4>2. fetched[m.vendor].revision = m.base.revision + 1
        BY <3>4 DEF SnapshotProvesMutation
      <4>3. fetched[m.vendor].revision <= draft[m.vendor].revision
        BY <1>0, <2>1, <4>1 DEF ReadInv, UpTo
      <4>4. draft[m.vendor].revision \in Nat
        BY <1>0, <4>1 DEF Snapshots, Drafts
      <4> QED BY <4>1, <4>2, <4>3, <4>4 DEF StillApplies
    <3> QED BY <3>2, <3>3, <3>4 DEF Released
  <2>9. \A i \in DOMAIN changes :
          i \in {pendingAt, unknown} => i \in {pendingAt', unknown'} \/ Released(i)
    BY <2>2, <2>8, ConsoleShape
  <2> HIDE PageIs
  <2> QED BY <1>0, <2>3, <2>4, <2>5, <2>6, <2>7, <2>9, PageMoves
<1> QED BY <1>1, <1>2, <1>3, <1>4
LEMMA SubmitKeeps ==
  ASSUME ConsoleInv, NEW kind \in {"save", "activate"}, NEW content \in Contents \cup {NoContent},
         Submit(kind, content)
  PROVE  ConsoleInv'
<1>0. /\ draft' = draft /\ draft \in Snapshots /\ ReadInv /\ PendingInv /\ PageShape
      /\ UNCHANGED <<opened, visible, snapshot, selected, unknown, fetched>>
      /\ unknown = 0 /\ doing = "nothing" /\ pendingAt = 0
  BY PageIs DEF Submit, ConsoleInv, ConsoleTypeOK
<1>1. changes \in Seq(Changes) /\ Len(changes) \in Nat /\ DOMAIN changes = 1..Len(changes)
      /\ selected \in Vendors /\ snapshot[selected] \in Drafts
  BY ConsoleShape DEF ConsoleInv, ConsoleTypeOK, Snapshots
<1>2. PICK q : q = Change(kind, content)
  OBVIOUS
<1>3. PICK n \in Nat : n = Len(changes) + 1
  BY <1>1
<1>4. /\ changes' = Append(changes, q) /\ doing' = "submitting" /\ pendingAt' = n
  BY <1>2, <1>3 DEF Submit
<1>5. q \in Changes
  BY <1>1, <1>2 DEF Change, Changes, Outcomes
<1>6. /\ q.vendor = selected /\ q.base = snapshot[selected] /\ q.kind = kind /\ q.outcome = "undecided"
      /\ q.heard = "undecided" /\ ~q.asked /\ q.told = "nothing"
  BY <1>2 DEF Change
<1>7. /\ changes' \in Seq(Changes) /\ Len(changes') = n /\ DOMAIN changes' = DOMAIN changes \cup {n}
      /\ n \notin DOMAIN changes /\ n # 0 /\ changes'[n] = q
      /\ \A i \in DOMAIN changes : changes'[i] = changes[i]
  BY <1>1, <1>3, <1>4, <1>5, AppendProperties
<1>8. ChangeOk(draft, q)
  <2>1. kind = "save" => snapshot[selected].revision < MaxDraft
    BY DEF Submit
  <2>2. UpTo(draft, selected, snapshot[selected])
    BY <1>0, <1>1 DEF ReadInv
  <2> QED BY <1>6, <2>1, <2>2 DEF ChangeOk
<1>9. ChangesOk'
  BY <1>0, <1>7, <1>8 DEF ChangesOk, ConsoleInv
<1>10. key' \in [status: {"idle", "loading", "revealed"}, vendor: Vendors]
       /\ reveal' \in [revision: 0..MaxDraft, vendor: Vendors, served: BOOLEAN] /\ KeyInv'
  BY ClearedShape DEF Submit
<1>11. ConsoleTypeOK'
  <2>1. pendingAt' \in 0..Len(changes') /\ unknown' \in 0..Len(changes')
    BY <1>0, <1>4, <1>7
  <2> QED BY <1>0, <1>4, <1>7, <1>10, <2>1 DEF ConsoleTypeOK, PageShape, NotRead
<1>12. PendingInv'
  BY <1>0, <1>4 DEF PendingInv
<1>13. ReadInv'
  BY <1>0 DEF ReadInv, NotRead, NoDraft
<1>14. UnknownStaysLocked'
  <2> SUFFICES ASSUME NEW i \in DOMAIN changes', NEW m, m = changes'[i],
                      m.own, StillApplies(m)', ~m.expired
               PROVE  i = n
    BY <1>4 DEF UnknownStaysLocked
  <2>1. ASSUME i \in DOMAIN changes PROVE FALSE
    <3>1. changes[i].own /\ StillApplies(changes[i]) /\ ~changes[i].expired
      BY <1>0, <1>7, <2>1 DEF StillApplies
    <3>2. i \in {pendingAt, unknown}
      BY <2>1, <3>1 DEF ConsoleInv, UnknownStaysLocked
    <3> QED BY <1>0, <1>1, <2>1, <3>2
  <2> QED BY <1>7, <2>1
<1> QED BY <1>9, <1>10, <1>11, <1>12, <1>13, <1>14 DEF ConsoleInv

LEMMA RevealKeeps ==
  ASSUME ConsoleInv, RevealNext
  PROVE  ConsoleInv'
<1>0. UNCHANGED <<draft, changes, pageVars>> /\ KeyInv /\ PageShape /\ ReadInv /\ PendingInv
  BY PageIs DEF RevealNext, RevealStarts, RevealServed, RevealArrives, HideKey, ConsoleInv
<1>1. UNCHANGED <<opened, visible, snapshot, selected, doing, pendingAt, unknown, fetched>>
      /\ draft' = draft /\ changes' = changes
  BY <1>0 DEF pageVars
<1>2. key' \in [status: {"idle", "loading", "revealed"}, vendor: Vendors]
      /\ reveal' \in [revision: 0..MaxDraft, vendor: Vendors, served: BOOLEAN] /\ KeyInv'
  <2>1. CASE RevealStarts
    <3>1. pendingAt = 0 /\ unknown = 0 /\ opened /\ visible /\ selected \in Vendors
          /\ snapshot[selected].revision \in 0..MaxDraft
      BY <1>0, <2>1 DEF RevealStarts, PageShape, Snapshots, Drafts
    <3>2. /\ key' = [status |-> "loading", vendor |-> selected]
          /\ reveal' = [revision |-> snapshot[selected].revision, vendor |-> selected, served |-> FALSE]
      BY <2>1 DEF RevealStarts
    <3> QED BY <1>1, <3>1, <3>2 DEF KeyInv
  <2>2. CASE RevealServed
    <3>1. reveal # NoReveal /\ reveal' = [reveal EXCEPT !.served = TRUE] /\ key' = key
      BY <2>2 DEF RevealServed
    <3>2. reveal \in [revision: 0..MaxDraft, vendor: Vendors, served: BOOLEAN]
          /\ key \in [status: {"idle", "loading", "revealed"}, vendor: Vendors]
      BY <1>0 DEF PageShape
    <3>3. reveal' \in [revision: 0..MaxDraft, vendor: Vendors, served: BOOLEAN]
          /\ reveal'.vendor = reveal.vendor
      BY <3>1, <3>2
    <3> QED BY <1>0, <1>1, <3>1, <3>2, <3>3 DEF KeyInv
  <2>3. CASE RevealArrives
    <3>1. reveal.served /\ key' = [status |-> "revealed", vendor |-> reveal.vendor] /\ reveal' = NoReveal
      BY <2>3 DEF RevealArrives
    <3>2. reveal # NoReveal
      BY <3>1 DEF NoReveal
    <3>3. NoReveal \in [revision: 0..MaxDraft, vendor: Vendors, served: BOOLEAN]
      BY ConsoleAssumption DEF NoReveal
    <3>4. reveal.vendor \in Vendors
      BY <1>0 DEF PageShape
    <3>5. NoReveal' = NoReveal
      BY DEF NoReveal
    <3> QED BY <1>0, <1>1, <3>1, <3>2, <3>3, <3>4, <3>5 DEF KeyInv
  <2>4. CASE HideKey
    BY <2>4, ClearedShape DEF HideKey
  <2> QED BY <2>1, <2>2, <2>3, <2>4 DEF RevealNext
<1>3. Alike
  BY <1>1, SameAlike
<1>4. PageShape'
  BY <1>0, <1>1, <1>2 DEF PageShape, NotRead
<1>5. PendingInv' /\ ReadInv'
  BY <1>0, <1>1 DEF PendingInv, ReadInv, NotRead, NoDraft
<1> QED BY <1>1, <1>2, <1>3, <1>4, <1>5, PageMoves

LEMMA OtherStepsKeep ==
  ASSUME ConsoleInv, NEW v \in Vendors, NEW content \in Contents, OthersSave(v, content)
  PROVE  ConsoleInv'
<1>1. /\ draft[v].revision < MaxDraft /\ draft' = NextDraft(v, content) /\ changes' = changes
      /\ UNCHANGED <<opened, visible, snapshot, selected, doing, pendingAt, unknown, fetched, key, reveal>>
  BY DEF OthersSave, pageVars
<1>2. DraftsRise /\ \A w \in Vendors : draft'[w].revision = 0 => draft'[w] = NoDraft
  BY <1>1, NextRises
<1>3. ReadInv'
  BY <1>1, <1>2, ReadKept
<1>4. draft \in Snapshots /\ \A i \in DOMAIN changes : changes[i] \in Changes /\ ChangeOk(draft, changes[i])
  BY ConsoleShape DEF ConsoleInv, ConsoleTypeOK
<1>5. ChangesOk'
  <2>1. \A i \in DOMAIN changes : ChangeOk(draft', changes[i])
    BY <1>2, <1>4, ChangeStaysOk
  <2> QED BY <1>1, <2>1 DEF ChangesOk
<1>6. ConsoleTypeOK'
  BY <1>1, <1>2 DEF ConsoleInv, ConsoleTypeOK, DraftsRise, NotRead
<1>7. PendingInv' /\ KeyInv'
  BY <1>1 DEF ConsoleInv, PendingInv, KeyInv, NoReveal
<1>8. UnknownStaysLocked'
  <2> SUFFICES ASSUME NEW i \in DOMAIN changes, NEW m, m = changes[i], m.own, StillApplies(m)', ~m.expired
               PROVE  i \in {pendingAt, unknown}
    BY <1>1 DEF UnknownStaysLocked
  <2>1. StillApplies(m)
    BY <1>2, <1>4, ChangeStaysOk
  <2> QED BY <2>1 DEF ConsoleInv, UnknownStaysLocked
<1> QED BY <1>3, <1>5, <1>6, <1>7, <1>8 DEF ConsoleInv

\* Whatever answers are lost, late or unclear, and whoever else saves.
THEOREM ConsoleInvariant == ConsoleSpec => []ConsoleInv
<1>1. ConsoleInit => ConsoleInv
  <2> SUFFICES ASSUME ConsoleInit PROVE ConsoleInv
    OBVIOUS
  <2>1. /\ draft = [v \in Vendors |-> NoDraft] /\ changes = <<>> /\ opened = FALSE /\ visible = FALSE
        /\ snapshot = draft /\ selected = FirstVendor /\ doing = "nothing" /\ pendingAt = 0
        /\ unknown = 0 /\ fetched = NotRead /\ key = NoKey /\ reveal = NoReveal
    BY DEF ConsoleInit
  <2>2. NoDraft \in Drafts /\ NoDraft.revision = 0
    BY ConsoleAssumption DEF NoDraft, Drafts
  <2>3. draft \in Snapshots
    BY <2>1, <2>2 DEF Snapshots
  <2>4. changes \in Seq(Changes) /\ Len(changes) = 0 /\ DOMAIN changes = {}
    BY <2>1
  <2>5. /\ key \in [status: {"idle", "loading", "revealed"}, vendor: Vendors] /\ key.status = "idle"
        /\ reveal \in [revision: 0..MaxDraft, vendor: Vendors, served: BOOLEAN]
    BY <2>1, ConsoleAssumption DEF NoKey, NoReveal
  <2>6. ConsoleTypeOK
    <3>1. pendingAt \in 0..Len(changes) /\ unknown \in 0..Len(changes)
      BY <2>1, <2>4
    <3>2. snapshot \in Snapshots /\ selected \in Vendors /\ fetched \in Snapshots \cup {NotRead}
          /\ opened \in BOOLEAN /\ visible \in BOOLEAN
      BY <2>1, <2>3, ConsoleAssumption
    <3>3. doing \in {"nothing", "submitting", "verifying", "refreshing"}
          /\ ~(doing \in {"submitting", "verifying"}) /\ pendingAt = 0
      BY <2>1
    <3> QED BY <2>3, <2>4, <2>5, <3>1, <3>2, <3>3 DEF ConsoleTypeOK
  <2>7. ReadInv
    BY <2>1, <2>2 DEF ReadInv, UpTo
  <2>8. PendingInv /\ KeyInv /\ UnknownStaysLocked /\ ChangesOk
    BY <2>1, <2>4, <2>5 DEF PendingInv, KeyInv, UnknownStaysLocked, ChangesOk
  <2> QED BY <2>6, <2>7, <2>8 DEF ConsoleInv
<1>2. ConsoleInv /\ [ConsoleNext]_consoleVars => ConsoleInv'
  <2> SUFFICES ASSUME ConsoleInv, [ConsoleNext]_consoleVars PROVE ConsoleInv'
    OBVIOUS
  <2>1. CASE \E v \in Vendors, content \in Contents : OthersSave(v, content)
    BY <2>1, OtherStepsKeep
  <2>2. CASE \E i \in DOMAIN changes : WebNext(i) \/ AgentNext(i)
    BY <2>2, WebAndAgentKeep
  <2>3. CASE RevealNext
    BY <2>3, RevealKeeps
  <2>4. CASE PageNext
    BY <2>4, LifecycleKeeps, SelectionKeeps, AnswersKeep, SubmitKeeps, WebAndAgentKeep DEF PageNext
  <2>5. CASE UNCHANGED consoleVars
    <3>1. UNCHANGED <<draft, changes, opened, visible, snapshot, selected, doing, pendingAt,
                      unknown, fetched, key, reveal>>
      BY <2>5 DEF consoleVars
    <3>2. Alike
      BY <3>1, SameAlike
    <3>3. PageShape' /\ KeyInv' /\ PendingInv' /\ ReadInv'
      BY <3>1, PageIs DEF PageShape, ConsoleInv, KeyInv, PendingInv, ReadInv, NoReveal, NotRead, NoDraft
    <3> QED BY <3>1, <3>2, <3>3, PageMoves
  <2> QED BY <2>1, <2>2, <2>3, <2>4, <2>5 DEF ConsoleNext
<1> QED BY <1>1, <1>2, PTL DEF ConsoleSpec

\* What a page announces of a change is true, it is locked as long as one of its
\* changes may take effect, nothing takes effect that was not made from what was
\* shown, and a key is shown only where it belongs.
THEOREM ConsoleCorrect == ConsoleSpec => []ConsoleIsTruthful
<1>1. ConsoleInv => ConsoleIsTruthful
  <2> SUFFICES ASSUME ConsoleInv PROVE ConsoleIsTruthful
    OBVIOUS
  <2>1. AnnouncedIsTrue
    BY DEF ConsoleInv, ChangesOk, ChangeOk, AnnouncedIsTrue
  <2>2. ChangesWhatWasShown
    BY DEF ConsoleInv, ChangesOk, ChangeOk, UpTo, ChangesWhatWasShown, StillApplies
  <2>3. RevealedKeyIsSelected
    BY DEF ConsoleInv, KeyInv, RevealedKeyIsSelected
  <2> QED BY <2>1, <2>2, <2>3 DEF ConsoleInv, ConsoleIsTruthful
<1> QED BY <1>1, ConsoleInvariant, PTL

-----------------------------------------------------------------------------
(* The input policy                                                         *)

PutRecords ==
  [expected: Nat, base: TermLists, terms: TermLists,
   outcome: {"undecided", "saved", "conflict", "failed"},
   told: {"nothing", "saved", "not saved", "newer", "unknown", "failed"}]
EditorRecords ==
  [revision: Nat, terms: TermLists, saving: Nat, asking: BOOLEAN,
   refreshRequired: BOOLEAN]

\* A request carries a revision with the terms it stands for, and one that is
\* saved made the revision after it.
PutOk(i) ==
  /\ puts[i].expected <= Revision
  /\ puts[i].base = Terms(puts[i].expected)
  /\ puts[i].outcome = "saved" =>
       puts[i].expected < Revision /\ policy[puts[i].expected + 1] = puts[i].terms
  /\ puts[i].told = "saved" =>
       \E r \in puts[i].expected..Revision : Terms(r) = puts[i].terms
  /\ puts[i].told = "newer" => puts[i].outcome = "conflict"
EditorOk(e) ==
  /\ editor[e].saving # 0 => editor[e].saving \in DOMAIN puts
  /\ editor[e].asking => editor[e].saving # 0
  /\ editor[e].revision <= Revision
  /\ editor[e].terms = Terms(editor[e].revision)

SavedPuts == {i \in DOMAIN puts : puts[i].outcome = "saved"}
PolicyInv ==
  /\ policy \in Seq(TermLists) /\ edited \in Nat
  /\ puts \in Seq(PutRecords) /\ Len(puts) <= MaxPuts
  /\ editor \in [Editors -> EditorRecords]
  /\ \A i \in DOMAIN puts : PutOk(i)
  /\ \A i, j \in SavedPuts : puts[i].expected = puts[j].expected => i = j
  /\ \A r \in DOMAIN policy : \E i \in SavedPuts : puts[i].expected = r - 1
  /\ Revision = Cardinality(SavedPuts)
  /\ \A e \in Editors : EditorOk(e)

LEMMA LastOfInterval ==
  ASSUME NEW a \in Nat, NEW b \in Nat, a <= b
  PROVE  b \in a..b
OBVIOUS

LEMMA PolicyShape ==
  ASSUME PolicyInv
  PROVE  /\ Revision \in Nat /\ DOMAIN policy = 1..Revision
         /\ Len(puts) \in Nat /\ DOMAIN puts = 1..Len(puts)
         /\ \A i \in DOMAIN puts : puts[i] \in PutRecords /\ i \in Nat /\ i # 0
         /\ \A e \in Editors : editor[e] \in EditorRecords
         /\ \A r \in 0..Revision : Terms(r) \in TermLists
         /\ Terms(Revision) \in TermLists
         /\ IsFiniteSet(DOMAIN puts) /\ IsFiniteSet(SavedPuts)
         /\ Cardinality(SavedPuts) <= Len(puts)
<1>1. /\ Revision \in Nat /\ DOMAIN policy = 1..Revision
      /\ Len(puts) \in Nat /\ DOMAIN puts = 1..Len(puts)
  BY DEF PolicyInv, Revision
<1>2. \A i \in DOMAIN puts : puts[i] \in PutRecords /\ i \in Nat /\ i # 0
  BY <1>1, ElementOfSeq DEF PolicyInv
<1>3. \A r \in 1..Revision : policy[r] \in TermLists
  BY <1>1, ElementOfSeq DEF PolicyInv
<1>4. \A r \in 0..Revision : Terms(r) \in TermLists
  BY <1>1, <1>3, PolicyAssumption DEF Terms
<1>7. Terms(Revision) \in TermLists
  BY <1>1, <1>4, LastOfInterval
<1>5. IsFiniteSet(DOMAIN puts) /\ Cardinality(DOMAIN puts) = Len(puts)
  <2>1. PICK n \in Nat : n = Len(puts)
    BY <1>1
  <2>2. IsFiniteSet(1..n) /\ Cardinality(1..n) = n
    BY FS_Interval
  <2> QED BY <1>1, <2>1, <2>2
<1>6. IsFiniteSet(SavedPuts) /\ Cardinality(SavedPuts) <= Len(puts)
  BY <1>5, FS_Subset DEF SavedPuts
<1> QED BY <1>1, <1>2, <1>4, <1>5, <1>6, <1>7 DEF PolicyInv

\* Revisions are only added: what was the terms of a revision stays it.
LEMMA TermsStay ==
  ASSUME PolicyInv, PolicyNext \/ UNCHANGED policyVars
  PROVE  /\ policy' \in Seq(TermLists) /\ Revision' >= Revision
         /\ \A r \in 0..Revision : Terms(r)' = Terms(r)
         /\ \A r \in 1..Revision : policy'[r] = policy[r]
<1> USE PolicyShape
<1>1. CASE UNCHANGED policy
  BY <1>1 DEF PolicyInv, Revision, Terms
<1>2. ASSUME NEW i \in DOMAIN puts, PutCommits(i)
      PROVE  /\ policy' \in Seq(TermLists) /\ Revision' >= Revision
             /\ \A r \in 0..Revision : Terms(r)' = Terms(r)
             /\ \A r \in 1..Revision : policy'[r] = policy[r]
  <2>1. puts[i].terms \in TermLists /\ policy \in Seq(TermLists)
    BY DEF PutRecords, PolicyInv
  <2>2. policy' = Append(policy, puts[i].terms)
    BY <1>2 DEF PutCommits
  <2>3. /\ policy' \in Seq(TermLists) /\ Len(policy') = Len(policy) + 1
        /\ \A r \in 1..Len(policy) : policy'[r] = policy[r]
    BY <2>1, <2>2, AppendProperties
  <2>4. \A r \in 0..Revision : Terms(r)' = Terms(r)
    BY <2>3 DEF Terms, Revision
  <2> QED BY <2>3, <2>4 DEF Revision
<1> QED
  <2>1. CASE \E i \in DOMAIN puts : PutCommits(i)
    BY <1>2, <2>1
  <2>2. CASE \E i \in DOMAIN puts : PutConflicts(i) \/ PutFails(i)
    BY <1>1, <2>2 DEF PutConflicts, PutFails
  <2>3. CASE \E e \in Editors : Load(e) \/ (\E terms \in TermLists : Save(e, terms)) \/ HearsSaved(e)
    BY <1>1, <2>3 DEF Load, Save, HearsSaved
  <2>4. CASE \E e \in Editors : HearsConflict(e) \/ HearsFailure(e) \/ HearsNothing(e)
    BY <1>1, <2>4 DEF HearsConflict, HearsFailure, HearsNothing, Announce
  <2>5. CASE \E e \in Editors : ReadBack(e) \/ ReadBackFails(e)
    BY <1>1, <2>5 DEF ReadBack, ReadBackFails, Announce
  <2>6. CASE UNCHANGED policyVars
    BY <1>1, <2>6 DEF policyVars
  <2> QED BY <2>1, <2>2, <2>3, <2>4, <2>5, <2>6 DEF PolicyNext

\* One request is decided or announced, without a new revision.
LEMMA OnePut ==
  ASSUME PolicyInv, NEW i \in DOMAIN puts, NEW q \in PutRecords,
         puts' = [puts EXCEPT ![i] = q], policy' = policy, edited' = edited,
         q.expected = puts[i].expected, q.base = puts[i].base, q.terms = puts[i].terms,
         q.outcome = "saved" <=> puts[i].outcome = "saved",
         q.told = "saved" => \E r \in q.expected..Revision : Terms(r) = q.terms,
         q.told = "newer" => q.outcome = "conflict",
         editor' \in [Editors -> EditorRecords], \A e \in Editors : EditorOk(e)'
  PROVE  PolicyInv'
<1> USE PolicyShape
<1>1. /\ puts' \in Seq(PutRecords) /\ Len(puts') = Len(puts) /\ DOMAIN puts' = DOMAIN puts
      /\ puts'[i] = q /\ \A j \in DOMAIN puts : j # i => puts'[j] = puts[j]
  BY ExceptSeq DEF PolicyInv
<1>2. SavedPuts' = SavedPuts /\ \A j \in DOMAIN puts : puts'[j].expected = puts[j].expected
  BY <1>1 DEF SavedPuts
<1>3. Revision' = Revision /\ \A r : Terms(r)' = Terms(r)
  BY DEF Revision, Terms
<1>4. ASSUME NEW j \in DOMAIN puts PROVE PutOk(j)'
  <2>1. PutOk(j)
    BY DEF PolicyInv
  <2>2. CASE j # i
    BY <1>1, <1>3, <2>1, <2>2 DEF PutOk
  <2>3. CASE j = i
    BY <1>1, <1>3, <2>1, <2>3 DEF PutOk
  <2> QED BY <2>2, <2>3
<1>5. \A a, b \in SavedPuts : puts'[a].expected = puts'[b].expected => a = b
  BY <1>2 DEF PolicyInv, SavedPuts
<1>6. \A r \in DOMAIN policy : \E a \in SavedPuts : puts'[a].expected = r - 1
  BY <1>2 DEF PolicyInv, SavedPuts
<1>7. policy' \in Seq(TermLists) /\ edited' \in Nat /\ Revision = Cardinality(SavedPuts)
      /\ Len(puts) <= MaxPuts
  BY DEF PolicyInv
<1> HIDE PolicyShape
<1> QED BY <1>1, <1>2, <1>3, <1>4, <1>5, <1>6, <1>7 DEF PolicyInv

\* The page hears of its request, or reads the row.
LEMMA EditorsStay ==
  ASSUME PolicyInv, policy' = policy, DOMAIN puts' = DOMAIN puts, NEW e \in Editors,
         NEW s \in EditorRecords, editor' = [editor EXCEPT ![e] = s],
         s.saving # 0 => s.saving \in DOMAIN puts,
         s.asking => s.saving # 0,
         s.revision <= Revision, s.terms = Terms(s.revision)
  PROVE  editor' \in [Editors -> EditorRecords] /\ \A d \in Editors : EditorOk(d)'
<1>1. editor' \in [Editors -> EditorRecords] /\ editor'[e] = s
      /\ \A d \in Editors : d # e => editor'[d] = editor[d]
  BY DEF PolicyInv
<1>2. Revision' = Revision /\ \A r : Terms(r)' = Terms(r)
  BY DEF Revision, Terms
<1>3. ASSUME NEW d \in Editors PROVE EditorOk(d)'
  <2>1. EditorOk(d)
    BY DEF PolicyInv
  <2> QED BY <1>1, <1>2, <2>1 DEF EditorOk
<1> QED BY <1>1, <1>3

LEMMA EditorsUnchanged ==
  ASSUME PolicyInv, policy' = policy, DOMAIN puts' = DOMAIN puts, editor' = editor
  PROVE  editor' \in [Editors -> EditorRecords] /\ \A d \in Editors : EditorOk(d)'
BY DEF PolicyInv, EditorOk, Revision, Terms

\* What a page shows after an announcement is the row, or what it showed.
LEMMA ShownIsARevision ==
  ASSUME PolicyInv, NEW e \in Editors, NEW shown \in BOOLEAN, NEW required \in BOOLEAN, NEW s,
         s = [revision |-> IF shown THEN Revision ELSE editor[e].revision,
              terms |-> IF shown THEN Terms(Revision) ELSE editor[e].terms,
              saving |-> 0, asking |-> FALSE, refreshRequired |-> required]
  PROVE  s \in EditorRecords /\ s.saving = 0 /\ ~s.asking /\ s.revision <= Revision
         /\ s.terms = Terms(s.revision)
<1>1. editor[e] \in EditorRecords /\ EditorOk(e) /\ Revision \in Nat /\ Terms(Revision) \in TermLists
  BY PolicyShape DEF PolicyInv
<1>2. CASE shown
  <2>1. s = [revision |-> Revision, terms |-> Terms(Revision), saving |-> 0, asking |-> FALSE,
             refreshRequired |-> required]
    BY <1>2
  <2> QED BY <1>1, <2>1 DEF EditorRecords
<1>3. CASE ~shown
  <2>1. s = [revision |-> editor[e].revision, terms |-> editor[e].terms, saving |-> 0,
             asking |-> FALSE, refreshRequired |-> required]
    BY <1>3
  <2>2. editor[e].revision \in Nat /\ editor[e].terms \in TermLists
    BY <1>1 DEF EditorRecords
  <2>3. editor[e].revision <= Revision /\ editor[e].terms = Terms(editor[e].revision)
    BY <1>1 DEF EditorOk
  <2> QED BY <2>1, <2>2, <2>3 DEF EditorRecords
<1> QED BY <1>2, <1>3

LEMMA AnnounceKeeps ==
  ASSUME PolicyInv, NEW e \in Editors, editor[e].saving # 0, NEW shown \in BOOLEAN,
         NEW required \in BOOLEAN,
         NEW told \in {"saved", "not saved", "newer", "unknown", "failed"},
         Announce(e, told, shown, required),
         told = "saved" => Terms(Revision) = puts[editor[e].saving].terms,
         told = "newer" => puts[editor[e].saving].outcome = "conflict"
  PROVE  PolicyInv'
<1> USE PolicyShape
<1>1. PICK i \in DOMAIN puts : i = editor[e].saving
  BY DEF PolicyInv, EditorOk
<1>2. puts[i] \in PutRecords /\ editor[e] \in EditorRecords /\ PutOk(i) /\ EditorOk(e)
  BY DEF PolicyInv
<1>3. PICK q : q = [puts[i] EXCEPT !.told = told]
  OBVIOUS
<1>4. q \in PutRecords /\ puts' = [puts EXCEPT ![i] = q]
  BY <1>1, <1>2, <1>3 DEF Announce, PutRecords
<1>5. /\ q.expected = puts[i].expected /\ q.base = puts[i].base /\ q.terms = puts[i].terms
      /\ q.outcome = puts[i].outcome /\ q.told = told
  BY <1>2, <1>3 DEF PutRecords
<1>6. told = "saved" => \E r \in q.expected..Revision : Terms(r) = q.terms
  <2>1. q.expected \in Nat /\ q.expected <= Revision
    BY <1>2, <1>5 DEF PutOk, PutRecords
  <2>2. Revision \in q.expected..Revision
    BY <2>1, LastOfInterval
  <2> QED BY <1>1, <1>5, <2>2
<1>7. PICK s : s = [revision |-> IF shown THEN Revision ELSE editor[e].revision,
                    terms |-> IF shown THEN Terms(Revision) ELSE editor[e].terms,
                    saving |-> 0, asking |-> FALSE, refreshRequired |-> required]
  OBVIOUS
<1>8. editor' = [editor EXCEPT ![e] = s]
  BY <1>7 DEF Announce
<1>9. s \in EditorRecords /\ s.saving = 0 /\ ~s.asking /\ s.revision <= Revision
      /\ s.terms = Terms(s.revision)
  BY <1>2, <1>7, ShownIsARevision
<1>10. policy' = policy /\ edited' = edited /\ DOMAIN puts' = DOMAIN puts
  BY <1>4 DEF Announce
<1>11. editor' \in [Editors -> EditorRecords] /\ \A d \in Editors : EditorOk(d)'
  BY <1>8, <1>9, <1>10, EditorsStay
<1> HIDE PolicyShape
<1> QED BY <1>1, <1>4, <1>5, <1>6, <1>10, <1>11, OnePut

LEMMA OnlyEditorsMove ==
  ASSUME PolicyInv, puts' = puts, policy' = policy, edited' = edited,
         editor' \in [Editors -> EditorRecords], \A d \in Editors : EditorOk(d)'
  PROVE  PolicyInv'
<1>1. SavedPuts' = SavedPuts /\ Revision' = Revision /\ \A r : Terms(r)' = Terms(r)
  BY DEF SavedPuts, Revision, Terms
<1>2. ASSUME NEW i \in DOMAIN puts PROVE PutOk(i)'
  BY <1>1 DEF PutOk, PolicyInv
<1> QED BY <1>1, <1>2 DEF PolicyInv

LEMMA EditorMoves ==
  ASSUME PolicyInv, NEW e \in Editors,
         Load(e) \/ HearsSaved(e) \/ HearsConflict(e) \/ HearsFailure(e) \/ HearsNothing(e)
           \/ ReadBack(e) \/ ReadBackFails(e)
  PROVE  PolicyInv'
<1> USE PolicyShape
<1>1. editor[e] \in EditorRecords /\ EditorOk(e)
  BY DEF PolicyInv
<1>2. ASSUME puts' = puts, policy' = policy, edited' = edited,
             editor' \in [Editors -> EditorRecords], \A d \in Editors : EditorOk(d)'
      PROVE  PolicyInv'
  BY <1>2, OnlyEditorsMove
<1>3. CASE Load(e)
  <2>1. PICK s : s = NewEditor
    OBVIOUS
  <2>2. s \in EditorRecords /\ s.saving = 0 /\ ~s.asking /\ s.revision = Revision
        /\ s.terms = Terms(Revision) /\ s.revision <= Revision
    <3>1. Terms(Revision) \in TermLists
      OBVIOUS
    <3>2. PICK R \in Nat : R = Revision
      OBVIOUS
    <3> QED BY <2>1, <3>1, <3>2 DEF NewEditor, EditorRecords
  <2>3. editor' = [editor EXCEPT ![e] = s] /\ puts' = puts /\ policy' = policy /\ edited' = edited
    BY <1>3, <2>1 DEF Load
  <2> QED BY <1>2, <2>2, <2>3, EditorsStay
<1>4. CASE HearsNothing(e)
  <2>1. PICK s : s = [editor[e] EXCEPT !.asking = TRUE]
    OBVIOUS
  <2>2. s \in EditorRecords /\ s.saving = editor[e].saving /\ editor[e].saving # 0
        /\ s.revision = editor[e].revision /\ s.terms = editor[e].terms
    BY <1>1, <1>4, <2>1 DEF HearsNothing, EditorRecords
  <2>3. editor' = [editor EXCEPT ![e] = s] /\ puts' = puts /\ policy' = policy /\ edited' = edited
    BY <1>4, <2>1 DEF HearsNothing
  <2> QED BY <1>1, <1>2, <2>2, <2>3, EditorsStay DEF EditorOk
<1>5. CASE HearsSaved(e)
  <2>1. PICK i \in DOMAIN puts : i = editor[e].saving
    BY <1>1, <1>5 DEF EditorOk, HearsSaved
  <2>2. puts[i] \in PutRecords /\ PutOk(i) /\ puts[i].outcome = "saved"
    BY <1>5, <2>1 DEF HearsSaved, PolicyInv
  <2>3. PICK q : q = [puts[i] EXCEPT !.told = "saved"]
    OBVIOUS
  <2>4. q \in PutRecords /\ puts' = [puts EXCEPT ![i] = q]
    BY <1>5, <2>1, <2>2, <2>3 DEF HearsSaved, PutRecords
  <2>5. /\ q.expected = puts[i].expected /\ q.base = puts[i].base /\ q.terms = puts[i].terms
        /\ q.outcome = puts[i].outcome /\ q.told = "saved" /\ q.expected \in Nat
    BY <2>2, <2>3 DEF PutRecords
  <2>6. PICK r \in 1..Revision : r = q.expected + 1
    BY <2>2, <2>5 DEF PutOk
  <2>7. Terms(r) = q.terms /\ r \in q.expected..Revision
    BY <2>2, <2>5, <2>6 DEF PutOk, Terms
  <2>8. PICK s : s = [revision |-> puts[i].expected + 1, terms |-> puts[i].terms, saving |-> 0,
                      asking |-> FALSE, refreshRequired |-> FALSE]
    OBVIOUS
  <2>9. editor' = [editor EXCEPT ![e] = s] /\ policy' = policy /\ edited' = edited
        /\ DOMAIN puts' = DOMAIN puts
    BY <1>5, <2>1, <2>4, <2>8 DEF HearsSaved
  <2>10. s \in EditorRecords /\ s.saving = 0 /\ ~s.asking /\ s.revision = r /\ s.terms = Terms(r)
    <3>0. q.expected + 1 \in Nat
      BY <2>5
    <3>1. puts[i].terms \in TermLists /\ r \in Nat
      BY <2>2, <2>6, <3>0 DEF PutRecords
    <3>2. s = [revision |-> r, terms |-> puts[i].terms, saving |-> 0, asking |-> FALSE,
               refreshRequired |-> FALSE]
      BY <2>5, <2>6, <2>8
    <3> QED BY <2>5, <2>7, <3>1, <3>2 DEF EditorRecords
  <2>11. editor' \in [Editors -> EditorRecords] /\ \A d \in Editors : EditorOk(d)'
    <3>1. s.revision <= Revision
      BY <2>6, <2>10
    <3> QED BY <2>9, <2>10, <3>1, EditorsStay
  <2> HIDE PolicyShape
  <2> QED BY <2>2, <2>4, <2>5, <2>7, <2>9, <2>11, OnePut
<1>6. CASE HearsConflict(e)
  BY <1>1, <1>6, AnnounceKeeps DEF HearsConflict, EditorRecords
<1>7. CASE HearsFailure(e)
  BY <1>1, <1>7, AnnounceKeeps DEF HearsFailure, EditorRecords
<1>8. CASE ReadBack(e)
  <2>1. editor[e].saving # 0
    BY <1>1, <1>8 DEF ReadBack, EditorOk
  <2>2. CASE Terms(Revision) = puts[editor[e].saving].terms /\ Announce(e, "saved", TRUE, FALSE)
    BY <2>1, <2>2, AnnounceKeeps
  <2>3. CASE Announce(e, "not saved", FALSE, FALSE)
    BY <2>1, <2>3, AnnounceKeeps
  <2>4. CASE Announce(e, "unknown", FALSE, TRUE)
    BY <2>1, <2>4, AnnounceKeeps
  <2> QED BY <1>8, <2>2, <2>3, <2>4 DEF ReadBack
<1>9. CASE ReadBackFails(e)
  BY <1>1, <1>9, AnnounceKeeps DEF ReadBackFails, EditorOk
<1> QED BY <1>3, <1>4, <1>5, <1>6, <1>7, <1>8, <1>9

LEMMA SavePolicyKeeps ==
  ASSUME PolicyInv, NEW e \in Editors, NEW terms \in TermLists, Save(e, terms)
  PROVE  PolicyInv'
<1> USE PolicyShape
<1>1. editor[e] \in EditorRecords /\ EditorOk(e) /\ puts \in Seq(PutRecords)
  BY DEF PolicyInv
<1>2. PICK q : q = [expected |-> editor[e].revision, base |-> editor[e].terms, terms |-> terms,
                    outcome |-> "undecided", told |-> "nothing"]
  OBVIOUS
<1>3. PICK n \in Nat : n = Len(puts) + 1
  OBVIOUS
<1>4. q \in PutRecords
  BY <1>1, <1>2 DEF PutRecords, EditorRecords
<1>5. /\ puts' = Append(puts, q) /\ policy' = policy /\ edited' = edited
      /\ Len(puts) < MaxPuts /\ editor[e].saving = 0
  BY <1>2 DEF Save
<1>6. /\ puts' \in Seq(PutRecords) /\ Len(puts') = n /\ DOMAIN puts' = DOMAIN puts \cup {n}
      /\ puts'[n] = q /\ n \notin DOMAIN puts /\ n # 0
      /\ \A i \in DOMAIN puts : puts'[i] = puts[i]
  BY <1>1, <1>3, <1>4, <1>5, AppendProperties
<1>7. Revision' = Revision /\ \A r : Terms(r)' = Terms(r)
  BY <1>5 DEF Revision, Terms
<1>8. SavedPuts' = SavedPuts
  BY <1>2, <1>6 DEF SavedPuts
<1>9. \A i \in DOMAIN puts' : PutOk(i)'
  <2>1. \A i \in DOMAIN puts : PutOk(i)'
    BY <1>5, <1>6, <1>7 DEF PutOk, PolicyInv
  <2>2. PutOk(n)'
    BY <1>1, <1>2, <1>6, <1>7 DEF PutOk, EditorOk
  <2> QED BY <1>6, <2>1, <2>2
<1>10. PICK s : s = [editor[e] EXCEPT !.saving = n]
  OBVIOUS
<1>11. editor' = [editor EXCEPT ![e] = s] /\ s \in EditorRecords
  BY <1>1, <1>3, <1>10 DEF Save, EditorRecords
<1>12. s.saving = n /\ s.revision = editor[e].revision /\ s.terms = editor[e].terms
  BY <1>1, <1>10 DEF EditorRecords
<1>13. editor' \in [Editors -> EditorRecords] /\ editor'[e] = s
       /\ \A d \in Editors : d # e => editor'[d] = editor[d]
  BY <1>11 DEF PolicyInv
<1>14. ASSUME NEW d \in Editors PROVE EditorOk(d)'
  <2>1. EditorOk(d)
    BY DEF PolicyInv
  <2>2. CASE d # e
    BY <1>6, <1>7, <1>13, <2>1, <2>2 DEF EditorOk
  <2>3. CASE d = e
    BY <1>1, <1>6, <1>7, <1>12, <1>13, <2>3 DEF EditorOk
  <2> QED BY <2>2, <2>3
<1>15. \A i \in SavedPuts : puts'[i] = puts[i]
  BY <1>6 DEF SavedPuts
<1>16. /\ \A i, j \in SavedPuts : puts'[i].expected = puts'[j].expected => i = j
       /\ \A r \in DOMAIN policy : \E i \in SavedPuts : puts'[i].expected = r - 1
  BY <1>15 DEF PolicyInv
<1>17. n <= MaxPuts
  BY <1>3, <1>5, PolicyAssumption
<1>18. policy' \in Seq(TermLists) /\ edited' \in Nat /\ Revision' = Cardinality(SavedPuts)
  BY <1>5, <1>7 DEF PolicyInv
<1> HIDE PolicyShape
<1> QED BY <1>5, <1>6, <1>8, <1>9, <1>13, <1>14, <1>16, <1>17, <1>18 DEF PolicyInv

LEMMA PutMoves ==
  ASSUME PolicyInv, NEW i \in DOMAIN puts, PutCommits(i) \/ PutConflicts(i) \/ PutFails(i)
  PROVE  PolicyInv'
<1> USE PolicyShape
<1>1. puts[i] \in PutRecords /\ PutOk(i) /\ puts[i].outcome = "undecided"
  BY DEF PolicyInv, PutCommits, PutConflicts, PutFails
<1>2. ASSUME NEW outcome \in {"conflict", "failed"},
             puts' = [puts EXCEPT ![i].outcome = outcome], UNCHANGED <<policy, edited, editor>>
      PROVE  PolicyInv'
  <2>1. PICK q : q = [puts[i] EXCEPT !.outcome = outcome]
    OBVIOUS
  <2>2. q \in PutRecords /\ puts' = [puts EXCEPT ![i] = q]
    BY <1>1, <1>2, <2>1 DEF PutRecords
  <2>3. /\ q.expected = puts[i].expected /\ q.base = puts[i].base /\ q.terms = puts[i].terms
        /\ q.outcome = outcome /\ q.told = puts[i].told
    BY <1>1, <2>1 DEF PutRecords
  <2>4. puts[i].told # "newer"
    BY <1>1 DEF PutOk
  <2>5. DOMAIN puts' = DOMAIN puts
    BY <1>2
  <2>6. editor' \in [Editors -> EditorRecords] /\ \A d \in Editors : EditorOk(d)'
    BY <1>2, <2>5, EditorsUnchanged
  <2>7. q.told = "saved" => \E r \in q.expected..Revision : Terms(r) = q.terms
    BY <1>1, <2>3 DEF PutOk
  <2>8. q.outcome # "saved" /\ puts[i].outcome # "saved" /\ q.told # "newer"
    BY <1>1, <1>2, <2>3, <2>4
  <2> HIDE PolicyShape
  <2> QED BY <1>2, <2>2, <2>3, <2>6, <2>7, <2>8, OnePut
<1>3. CASE PutCommits(i)
  <2>1. PICK q : q = [puts[i] EXCEPT !.outcome = "saved"]
    OBVIOUS
  <2>2. q \in PutRecords /\ puts' = [puts EXCEPT ![i] = q]
    BY <1>1, <1>3, <2>1 DEF PutRecords, PutCommits
  <2>3. /\ q.expected = puts[i].expected /\ q.base = puts[i].base /\ q.terms = puts[i].terms
        /\ q.outcome = "saved" /\ q.told = puts[i].told /\ q.expected = Revision
        /\ q.terms \in TermLists
    BY <1>1, <1>3, <2>1 DEF PutRecords, PutCommits, ExpectedRevision
  <2>4. /\ policy' = Append(policy, q.terms) /\ edited' = edited + 1 /\ editor' = editor
        /\ policy \in Seq(TermLists) /\ puts \in Seq(PutRecords) /\ edited \in Nat
    BY <1>3, <2>3 DEF PutCommits, PolicyInv
  <2>5. /\ policy' \in Seq(TermLists) /\ Revision' = Revision + 1
        /\ policy'[Revision + 1] = q.terms
        /\ DOMAIN policy' = DOMAIN policy \cup {Revision + 1}
        /\ \A r \in DOMAIN policy : policy'[r] = policy[r]
    BY <2>3, <2>4, AppendProperties DEF Revision
  <2>6. \A r \in 0..Revision : Terms(r)' = Terms(r)
    BY <2>5 DEF Terms
  <2>7. /\ puts' \in Seq(PutRecords) /\ Len(puts') = Len(puts) /\ DOMAIN puts' = DOMAIN puts
        /\ puts'[i] = q /\ \A j \in DOMAIN puts : j # i => puts'[j] = puts[j]
    BY <2>2, <2>4, ExceptSeq
  <2>8. SavedPuts' = SavedPuts \cup {i} /\ i \notin SavedPuts
        /\ \A j \in SavedPuts : puts'[j] = puts[j]
    BY <1>1, <2>3, <2>7 DEF SavedPuts
  <2>9. Revision' = Cardinality(SavedPuts')
    <3>1. IsFiniteSet(SavedPuts)
      OBVIOUS
    <3>2. Cardinality(SavedPuts') = Cardinality(SavedPuts) + 1
      BY <2>8, <3>1, FS_AddElement
    <3> QED BY <2>5, <3>2 DEF PolicyInv
  <2>10. ASSUME NEW j \in DOMAIN puts PROVE PutOk(j)'
    <3>1. puts[j] \in PutRecords /\ PutOk(j)
      BY DEF PolicyInv
    <3>2. /\ puts'[j].expected = puts[j].expected /\ puts'[j].base = puts[j].base
          /\ puts'[j].terms = puts[j].terms /\ puts'[j].told = puts[j].told
      BY <2>3, <2>7
    <3>a. PICK x \in Nat, R \in Nat : x = puts[j].expected /\ R = Revision
      BY <3>1 DEF PutRecords
    <3>b. x <= R
      BY <3>1, <3>a DEF PutOk
    <3>3. x \in 0..Revision /\ x <= Revision'
      BY <2>5, <3>a, <3>b
    <3>4. puts'[j].base = Terms(x)'
      BY <2>6, <3>1, <3>2, <3>3, <3>a DEF PutOk
    <3>5. puts'[j].outcome = "saved" =>
            x < Revision' /\ policy'[x + 1] = puts'[j].terms
      <4>1. CASE j = i
        <5>1. x = Revision
          BY <2>3, <3>a, <4>1, Zenon
        <5>2. x < Revision' /\ policy'[x + 1] = q.terms
          BY <2>5, <5>1
        <5> QED BY <2>7, <4>1, <5>2
      <4>2. CASE j # i /\ puts[j].outcome = "saved"
        <5>1. x < Revision /\ policy[x + 1] = puts[j].terms
          BY <3>1, <3>a, <4>2 DEF PutOk
        <5>2. x + 1 \in DOMAIN policy
          BY <3>3, <3>a, <5>1
        <5>3. policy'[x + 1] = policy[x + 1]
          BY <2>5, <5>2
        <5> QED BY <2>5, <3>2, <3>3, <5>1, <5>3
      <4> QED BY <2>7, <4>1, <4>2
    <3>6. puts'[j].told = "saved" =>
            \E r \in x..Revision' : Terms(r)' = puts'[j].terms
      <4>1. SUFFICES ASSUME puts[j].told = "saved"
                     PROVE  \E r \in x..Revision' : Terms(r)' = puts[j].terms
        BY <3>2, <3>a
      <4>2. PICK r \in x..Revision : Terms(r) = puts[j].terms
        BY <3>1, <3>a, <4>1 DEF PutOk
      <4>3. r \in 0..Revision /\ r \in x..Revision'
        BY <2>5, <3>3
      <4> QED BY <2>6, <4>2, <4>3
    <3>7. puts'[j].told = "newer" => puts'[j].outcome = "conflict"
      BY <1>1, <2>3, <2>7, <3>1 DEF PutOk
    <3> QED BY <3>2, <3>3, <3>a, <3>4, <3>5, <3>6, <3>7 DEF PutOk
  <2>11. \A j \in SavedPuts : puts'[j].expected < Revision
    BY <2>8 DEF SavedPuts, PolicyInv, PutOk
  <2>12. \A a, b \in SavedPuts' : puts'[a].expected = puts'[b].expected => a = b
    <3>1. Revision \in Nat /\ puts'[i].expected = Revision
      BY <2>3, <2>7
    <3>2. \A j \in SavedPuts : puts'[j].expected # Revision
      <4> SUFFICES ASSUME NEW j \in SavedPuts PROVE puts'[j].expected # Revision
        OBVIOUS
      <4>1. PICK x \in Nat : x = puts'[j].expected
        BY <2>8 DEF SavedPuts, PutRecords
      <4>2. x < Revision
        BY <2>11, <4>1
      <4> QED BY <4>1, <4>2
    <3> QED BY <2>8, <3>1, <3>2 DEF PolicyInv
  <2>13. \A r \in DOMAIN policy' : \E a \in SavedPuts' : puts'[a].expected = r - 1
    <3>1. \A r \in DOMAIN policy : \E a \in SavedPuts : puts'[a].expected = r - 1
      BY <2>8 DEF PolicyInv
    <3>2. puts'[i].expected = (Revision + 1) - 1
      BY <2>3, <2>7
    <3> QED BY <2>5, <2>8, <3>1, <3>2
  <2>14. editor' \in [Editors -> EditorRecords]
    BY <2>4 DEF PolicyInv
  <2>15. ASSUME NEW e \in Editors PROVE EditorOk(e)'
    <3>1. EditorOk(e) /\ editor[e] \in EditorRecords
      BY DEF PolicyInv
    <3>2. editor[e].revision \in 0..Revision /\ editor[e].revision <= Revision'
      BY <2>5, <3>1 DEF EditorOk, EditorRecords
    <3> QED BY <2>4, <2>6, <2>7, <3>1, <3>2 DEF EditorOk
  <2>16. Len(puts) <= MaxPuts /\ edited' \in Nat
    BY <2>4 DEF PolicyInv
  <2> HIDE PolicyShape
  <2> QED BY <2>5, <2>7, <2>9, <2>10, <2>12, <2>13, <2>14, <2>15, <2>16 DEF PolicyInv
<1> QED BY <1>2, <1>3 DEF PutCommits, PutConflicts, PutFails

\* Whoever saves, retries or reads the row in whatever order.
THEOREM PolicyInvariant == PolicySpec => []PolicyInv
<1>1. PolicyInit => PolicyInv
  <2> SUFFICES ASSUME PolicyInit PROVE PolicyInv
    OBVIOUS
  <2>1. policy = <<>> /\ edited = 0 /\ puts = <<>> /\ editor = [e \in Editors |-> NewEditor]
    BY DEF PolicyInit
  <2>2. policy \in Seq(TermLists) /\ Revision = 0 /\ DOMAIN policy = {}
    BY <2>1 DEF Revision
  <2>3. puts \in Seq(PutRecords) /\ Len(puts) = 0 /\ DOMAIN puts = {}
    BY <2>1
  <2>4. Terms(0) = NoTerms
    BY DEF Terms
  <2>5. NewEditor = [revision |-> 0, terms |-> NoTerms, saving |-> 0, asking |-> FALSE,
                     refreshRequired |-> FALSE]
    BY <2>2, <2>4 DEF NewEditor
  <2>6. \A e \in Editors : editor[e] \in EditorRecords /\ EditorOk(e)
    BY <2>1, <2>2, <2>4, <2>5, PolicyAssumption DEF EditorRecords, EditorOk
  <2>7. SavedPuts = {} /\ Cardinality(SavedPuts) = 0
    BY <2>3, FS_EmptySet DEF SavedPuts
  <2> QED BY <2>1, <2>2, <2>3, <2>6, <2>7, PolicyAssumption DEF PolicyInv
<1>2. PolicyInv /\ [PolicyNext]_policyVars => PolicyInv'
  <2> SUFFICES ASSUME PolicyInv, [PolicyNext]_policyVars PROVE PolicyInv'
    OBVIOUS
  <2>1. CASE UNCHANGED policyVars
    BY <2>1 DEF policyVars, PolicyInv, PutOk, EditorOk, SavedPuts, Revision, Terms
  <2>2. CASE PolicyNext
    BY <2>2, PutMoves, EditorMoves, SavePolicyKeeps DEF PolicyNext
  <2> QED BY <2>1, <2>2
<1> QED BY <1>1, <1>2, PTL DEF PolicySpec

\* No rules are overwritten unseen, and what a page says of a save holds.
THEOREM PolicyCorrect == PolicySpec => []PolicyAnswersHold
<1>1. PolicyInv => PolicyAnswersHold
  <2> SUFFICES ASSUME PolicyInv PROVE PolicyAnswersHold
    OBVIOUS
  <2>1. ASSUME NEW r \in DOMAIN policy PROVE MadeFromWhatWasShown(r)
    <3>1. PICK i \in SavedPuts : puts[i].expected = r - 1
      BY DEF PolicyInv
    <3>2. r \in Nat /\ (r - 1) + 1 = r
      BY PolicyShape
    <3>3. puts[i].base = Terms(r - 1) /\ puts[i].terms = policy[r]
      BY <3>1, <3>2 DEF PolicyInv, SavedPuts, PutOk
    <3>4. {j \in DOMAIN puts : /\ puts[j].outcome = "saved" /\ puts[j].expected = r - 1
                               /\ puts[j].base = Terms(r - 1)
                               /\ puts[j].terms = policy[r]} = {i}
      BY <3>1, <3>3 DEF PolicyInv, SavedPuts
    <3> QED BY <3>4, FS_Singleton DEF MadeFromWhatWasShown
  <2>2. \A i \in DOMAIN puts : PutOk(i)
    BY DEF PolicyInv
  <2>3. \A e \in Editors : EditorOk(e)
    BY DEF PolicyInv
  <2> QED BY <2>1, <2>2, <2>3 DEF PolicyAnswersHold, PutOk, EditorOk
<1> QED BY <1>1, PolicyInvariant, PTL

-----------------------------------------------------------------------------
(* The three together                                                       *)

\* A page's revision is at most the number of requests.
LEMMA PolicyTypes ==
  ASSUME PolicyInv PROVE PolicyTypeOK
<1>1. MaxPuts \in Nat /\ Revision \in Nat /\ Len(puts) \in Nat
      /\ DOMAIN puts = 1..Len(puts) /\ Revision <= Len(puts) /\ Len(puts) <= MaxPuts
  BY PolicyShape, PolicyAssumption DEF PolicyInv
<1>2. \A n \in Nat : n <= Revision \/ n <= Len(puts) => n \in 0..MaxPuts
  BY <1>1
<1> DEFINE Bounded == [expected: 0..MaxPuts, base: TermLists, terms: TermLists,
                       outcome: {"undecided", "saved", "conflict", "failed"},
                       told: {"nothing", "saved", "not saved", "newer", "unknown", "failed"}]
<1>3. ASSUME NEW i \in DOMAIN puts PROVE puts[i] \in Bounded
  <2>1. puts[i] \in PutRecords /\ puts[i].expected <= Revision
    BY PolicyShape DEF PolicyInv, PutOk
  <2>2. puts[i].expected \in Nat
    BY <2>1 DEF PutRecords
  <2>3. puts[i].expected \in 0..MaxPuts
    BY <1>2, <2>1, <2>2
  <2> QED BY <2>1, <2>3 DEF PutRecords
<1>4. puts \in Seq(Bounded)
  <2> HIDE DEF Bounded
  <2>1. puts \in [1..Len(puts) -> Bounded]
    BY <1>1, <1>3 DEF PolicyInv
  <2> QED BY <1>1, <2>1
<1>5. ASSUME NEW e \in Editors
      PROVE  editor[e] \in [revision: 0..MaxPuts, terms: TermLists, saving: 0..MaxPuts,
                            asking: BOOLEAN, refreshRequired: BOOLEAN]
  <2>1. editor[e] \in EditorRecords /\ EditorOk(e)
    BY DEF PolicyInv
  <2>2. editor[e].revision \in Nat /\ editor[e].saving \in Nat
    BY <2>1 DEF EditorRecords
  <2>3. editor[e].saving = 0 \/ editor[e].saving <= Len(puts)
    BY <1>1, <2>1 DEF EditorOk
  <2>4. 0 <= Len(puts)
    BY <1>1
  <2>5. editor[e].saving \in 0..MaxPuts
    BY <1>2, <2>2, <2>3, <2>4
  <2>6. editor[e].revision \in 0..MaxPuts
    BY <1>2, <2>1, <2>2 DEF EditorOk
  <2> QED BY <2>1, <2>5, <2>6 DEF EditorRecords
<1> QED BY <1>4, <1>5 DEF PolicyInv, PolicyTypeOK

\* In the run each of the three moves as it does alone.
THEOREM ModelUsesParts == ModelSpec => ControlSpec /\ ConsoleSpec /\ PolicySpec
<1>1. ModelInit => ControlInit /\ ConsoleInit /\ PolicyInit
  BY DEF ModelInit
<1>2. [ModelNext]_AdminVars =>
        [ControlNext]_controlVars /\ [ConsoleNext]_consoleVars /\ [PolicyNext]_policyVars
  BY DEF ModelNext, AdminVars
<1> QED BY <1>1, <1>2, PTL DEF ModelSpec, ControlSpec, ConsoleSpec, PolicySpec

\* The state of the store, the service, the console and the policy keeps its shape.
THEOREM ModelTypesCorrect == ModelSpec => []ModelTypeOK
<1>1. ConsoleInv => ConsoleTypeOK
  BY DEF ConsoleInv
<1>2. ControlTypeOK /\ ConsoleTypeOK /\ PolicyTypeOK => ModelTypeOK
  BY DEF ModelTypeOK
<1> QED BY <1>1, <1>2, PolicyTypes, ModelUsesParts, ControlTypesCorrect, ConsoleInvariant,
           PolicyInvariant, PTL

\* What the two kinds of pages say is true where they run beside the service:
\* the console of its changes, drafts and keys, the policy page of its requests.
THEOREM PagesCorrect == ModelSpec => []PagesTellTheTruth
<1>1. ConsoleIsTruthful /\ PolicyAnswersHold => PagesTellTheTruth
  BY DEF PagesTellTheTruth
<1> QED BY <1>1, ModelUsesParts, ConsoleCorrect, PolicyCorrect, PTL
=============================================================================
