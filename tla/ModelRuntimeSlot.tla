-------------------------- MODULE ModelRuntimeSlot --------------------------
(***************************************************************************)
(* The slot through which every run of the Agent calls its language model: *)
(* the active model client, the clients that were replaced and still have  *)
(* calls, the reaper task that closes them, and the bounded shutdown.      *)
(*                                                                         *)
(* A call is a response or a whole stream.  It may end on the event loop,  *)
(* where its client is queued at once, or in another thread, from where    *)
(* the queueing is posted to the loop (call_soon_threadsafe).  A client is *)
(* built for one activation, so it names its entry.  The queue is a bag:   *)
(* the order in which retired clients are closed does not matter, and its  *)
(* last item, _STOP_REAPER, is only put when it is empty.                  *)
(***************************************************************************)
EXTENDS Integers, FiniteSets

CONSTANTS
  Models,   \* model clients (ManagedModel), each built for one activation
  Calls,    \* calls that runs may have open at once
  NoModel   \* no client

ASSUME ModelsAssumption == IsFiniteSet(Models) /\ NoModel \notin Models

VARIABLES
  active,       \* the client that new calls are given
  lastVersion,  \* _last_activation_version
  capability,   \* what runtime_status shows
  using,        \* the client each open call captured
  inFlight,     \* the counter in_flight of each client's entry
  retired,      \* clients whose entry was retired
  pending,      \* _pending_retired
  posted,       \* per client, callbacks posted to the loop to queue it
  queued,       \* per client, its items in the cleanup queue
  closing,      \* the client the reaper is closing
  closed,       \* clients that were closed
  broken,       \* clients whose aclose raised or was cancelled
  drained,      \* the asyncio.Event of the shutdown
  reaper,       \* the reaper task: "running" or "stopped"
  shutdown      \* how far the shutdown is

frontVars == <<active, lastVersion, capability>>
callVars == <<using, inFlight>>
retireVars == <<retired, pending, posted>>
reaperVars == <<closing, closed, broken, reaper>>
slotVars == <<frontVars, callVars, retireVars, queued, reaperVars, drained,
              shutdown>>

Installed == retired \cup ({active} \ {NoModel})

ModelSlotTypeOK ==
  /\ active \in Models \cup {NoModel}
  /\ lastVersion \in Int
  /\ capability \in {"placeholder", "available", "degraded"}
  /\ using \in [Calls -> Models \cup {NoModel}]
  /\ inFlight \in [Models -> Nat]
  /\ retired \in SUBSET Models
  /\ pending \in Nat
  /\ posted \in [Models -> Nat]
  /\ queued \in [Models -> Nat]
  /\ closing \in Models \cup {NoModel}
  /\ closed \in SUBSET Models
  /\ broken \in SUBSET Models
  /\ drained \in BOOLEAN
  /\ reaper \in {"running", "stopped"}
  /\ shutdown \in {"none", "requested", "draining", "joining", "stopping",
                   "done", "failed"}

\* The slot after start().
ModelSlotInit ==
  /\ active = NoModel
  /\ lastVersion = -1
  /\ capability = "placeholder"
  /\ using = [c \in Calls |-> NoModel]
  /\ inFlight = [m \in Models |-> 0]
  /\ retired = {}
  /\ pending = 0
  /\ posted = [m \in Models |-> 0]
  /\ queued = [m \in Models |-> 0]
  /\ closing = NoModel
  /\ closed = {}
  /\ broken = {}
  /\ drained = TRUE
  /\ reaper = "running"
  /\ shutdown = "none"

\* A process starts with a slot of its own.
SlotStarts ==
  /\ active' = NoModel
  /\ lastVersion' = -1
  /\ capability' = "placeholder"
  /\ using' = [c \in Calls |-> NoModel]
  /\ inFlight' = [m \in Models |-> 0]
  /\ retired' = {}
  /\ pending' = 0
  /\ posted' = [m \in Models |-> 0]
  /\ queued' = [m \in Models |-> 0]
  /\ closing' = NoModel
  /\ closed' = {}
  /\ broken' = {}
  /\ drained' = TRUE
  /\ reaper' = "running"
  /\ shutdown' = "none"

-----------------------------------------------------------------------------
(* Installing and retiring                                                 *)

\* Variant: a retired client is posted although it has calls.
RetireAtOnce(m) ==
  IF m = NoModel THEN UNCHANGED retireVars
  ELSE /\ retired' = retired \cup {m}
       /\ pending' = pending + 1
       /\ posted' = [posted EXCEPT ![m] = @ + 1]

\* _retire_locked and _enqueue_from_sync: a client with calls is queued by
\* the last of them.
Retire(m) ==
  IF m = NoModel THEN UNCHANGED retireVars
  ELSE /\ retired' = retired \cup {m}
       /\ pending' = pending + 1
       /\ posted' = IF inFlight[m] = 0 THEN [posted EXCEPT ![m] = @ + 1]
                    ELSE posted

\* The activation is rejected, and nothing changes, if the slot is shutting
\* down or the version is not newer than every one before.
CanActivate(version) == shutdown = "none" /\ version > lastVersion

ActivateModel(m, version) ==
  /\ CanActivate(version)
  /\ m \notin Installed
  /\ active' = m
  /\ lastVersion' = version
  /\ capability' = "available"
  /\ Retire(active)
  /\ UNCHANGED <<callVars, queued, reaperVars, drained, shutdown>>

\* A slot that is shutting down ignores it.
Deactivate(shown) ==
  /\ shutdown = "none"
  /\ active' = NoModel
  /\ capability' = shown
  /\ Retire(active)
  /\ UNCHANGED <<lastVersion, callVars, queued, reaperVars, drained, shutdown>>

-----------------------------------------------------------------------------
(* Calls                                                                   *)

\* _capture
StartCall(c) ==
  /\ active # NoModel
  /\ shutdown = "none"
  /\ using[c] = NoModel
  /\ using' = [using EXCEPT ![c] = active]
  /\ inFlight' = [inFlight EXCEPT ![active] = @ + 1]
  /\ UNCHANGED <<frontVars, retireVars, queued, reaperVars, drained, shutdown>>

\* Variant: only the active client is looked at.
LastCallOfActive(m) == m = active /\ inFlight[m] = 1

\* _release_locked
LastCallOfRetired(m) == m \in retired /\ inFlight[m] = 1

\* _release_from_async queues the client itself, after it cleared the event;
\* _release_from_sync, in another thread, posts that to the loop.
EndCall(c, inThread) ==
  LET m == using[c] IN
  /\ m # NoModel
  /\ using' = [using EXCEPT ![c] = NoModel]
  /\ inFlight' = [inFlight EXCEPT ![m] = @ - 1]
  /\ posted' = IF LastCallOfRetired(m) /\ inThread
               THEN [posted EXCEPT ![m] = @ + 1] ELSE posted
  /\ queued' = IF LastCallOfRetired(m) /\ ~inThread
               THEN [queued EXCEPT ![m] = @ + 1] ELSE queued
  /\ drained' = (drained /\ (LastCallOfRetired(m) => inThread))
  /\ UNCHANGED <<frontVars, retired, pending, reaperVars, shutdown>>

\* _enqueue_retired, run by the loop.
EnqueueRetired(m) ==
  /\ posted[m] > 0
  /\ posted' = [posted EXCEPT ![m] = @ - 1]
  /\ queued' = [queued EXCEPT ![m] = @ + 1]
  /\ drained' = FALSE
  /\ UNCHANGED <<frontVars, callVars, retired, pending, reaperVars, shutdown>>

-----------------------------------------------------------------------------
(* The reaper: _run_reaper                                                 *)

ReaperTakes(m) ==
  /\ reaper = "running"
  /\ closing = NoModel
  /\ queued[m] > 0
  /\ queued' = [queued EXCEPT ![m] = @ - 1]
  /\ closing' = m
  /\ UNCHANGED <<frontVars, callVars, retireVars, closed, broken, drained,
                 reaper, shutdown>>

\* Variant: the event is set one client too late.
CountOffLate ==
  /\ pending' = pending - 1
  /\ drained' = (drained \/ pending = 0)

CountOff ==
  /\ pending' = pending - 1
  /\ drained' = (drained \/ pending = 1)

\* aclose returns, or raises and is remembered in _cleanup_failed.
ReaperFinishes(ok) ==
  /\ closing # NoModel
  /\ closed' = IF ok THEN closed \cup {closing} ELSE closed
  /\ broken' = IF ok THEN broken ELSE broken \cup {closing}
  /\ closing' = NoModel
  /\ CountOff
  /\ UNCHANGED <<frontVars, callVars, retired, posted, queued, reaper,
                 shutdown>>

\* _STOP_REAPER is taken from the queue.
ReaperStops ==
  /\ shutdown = "stopping"
  /\ reaper = "running"
  /\ closing = NoModel
  /\ reaper' = "stopped"
  /\ UNCHANGED <<frontVars, callVars, retireVars, queued, closing, closed,
                 broken, drained, shutdown>>

-----------------------------------------------------------------------------
(* Shutdown                                                                *)

Await(step) ==
  /\ shutdown' = step
  /\ UNCHANGED <<frontVars, callVars, retireVars, queued, reaperVars, drained>>

RequestShutdown == shutdown = "none" /\ Await("requested")

\* Variant: only clients that are on their way to the reaper are waited for,
\* not those that still have calls.
MustDrainQueue == \E m \in Models : posted'[m] + queued[m] > 0

MustDrain == pending' > 0

\* _shutdown_once up to its first wait.
ShutdownStarts ==
  /\ shutdown = "requested"
  /\ active' = NoModel
  /\ capability' = "placeholder"
  /\ Retire(active)
  /\ drained' = (drained /\ ~MustDrain)
  /\ shutdown' = IF MustDrain THEN "draining" ELSE "joining"
  /\ UNCHANGED <<lastVersion, callVars, queued, reaperVars>>

\* drained.wait, then queue.join, then the end of the reaper.
ShutdownDrained == shutdown = "draining" /\ drained /\ Await("joining")

ShutdownJoined ==
  /\ shutdown = "joining"
  /\ closing = NoModel
  /\ \A m \in Models : queued[m] = 0
  /\ Await("stopping")

ShutdownEnds ==
  /\ shutdown = "stopping"
  /\ reaper = "stopped"
  /\ Await(IF broken = {} THEN "done" ELSE "failed")

\* The deadline passes: the reaper is cancelled, also while it closes.
ShutdownTimesOut ==
  /\ shutdown \in {"draining", "joining", "stopping"}
  /\ shutdown' = "failed"
  /\ reaper' = "stopped"
  /\ closing' = NoModel
  /\ IF closing = NoModel THEN UNCHANGED <<broken, pending, drained>>
     ELSE broken' = broken \cup {closing} /\ CountOff
  /\ UNCHANGED <<frontVars, callVars, retired, posted, queued, closed>>

-----------------------------------------------------------------------------
EndOf(c) == \E inThread \in BOOLEAN : EndCall(c, inThread)

CallSteps == \E c \in Calls : StartCall(c) \/ EndOf(c)

ReaperSteps ==
  \/ \E m \in Models : EnqueueRetired(m) \/ ReaperTakes(m)
  \/ \E ok \in BOOLEAN : ReaperFinishes(ok)
  \/ ReaperStops

ShutdownSteps ==
  \/ ShutdownStarts \/ ShutdownDrained \/ ShutdownJoined \/ ShutdownEnds
  \/ ShutdownTimesOut

ControlSteps ==
  \/ \E m \in Models : ActivateModel(m, lastVersion + 1)
  \/ \E shown \in {"placeholder", "degraded"} : Deactivate(shown)
  \/ RequestShutdown

ModelSlotNext == CallSteps \/ ReaperSteps \/ ShutdownSteps \/ ControlSteps

\* The event loop runs its callbacks and its tasks, a close ends, and every
\* call of a run ends: each has its deadline.
ModelSlotFairness ==
  /\ \A m \in Models : WF_slotVars(EnqueueRetired(m)) /\ WF_slotVars(ReaperTakes(m))
  /\ WF_slotVars(\E ok \in BOOLEAN : ReaperFinishes(ok))
  /\ WF_slotVars(ReaperStops)
  /\ WF_slotVars(ShutdownSteps)
  /\ \A c \in Calls : WF_slotVars(EndOf(c))

ModelSlotSpec == ModelSlotInit /\ [][ModelSlotNext]_slotVars /\ ModelSlotFairness

-----------------------------------------------------------------------------
(* Properties                                                              *)

\* A client is never closed, nor being closed, under a call that uses it:
\* retirement by the control path, ends of calls on the loop and in threads
\* and the reaper meet in any order.
CallsHoldOpenClients ==
  \A c \in Calls :
    using[c] # NoModel => using[c] \notin closed \cup broken \cup {closing}

Finished == closed \cup broken

\* A retired client is in exactly one place: held by its calls, posted to the
\* loop, queued, being closed or finished.  So none is closed twice and none
\* is forgotten, the counter of the shutdown counts those not finished, and
\* its event is set when nothing is left to close, so that the wait ends,
\* and while the shutdown waits it is set only then.
RetiredInOnePlace ==
  /\ \A m \in retired :
       (IF inFlight[m] > 0 THEN 1 ELSE 0) + posted[m] + queued[m]
         + (IF closing = m THEN 1 ELSE 0) + (IF m \in Finished THEN 1 ELSE 0) = 1
  /\ \A m \in Models \ retired :
       posted[m] = 0 /\ queued[m] = 0 /\ closing # m /\ m \notin Finished
  /\ pending = Cardinality(retired \ Finished)
  /\ pending = 0 => drained
  /\ shutdown = "draining" /\ drained => pending = 0

\* A shutdown that reports success has closed every client that was ever
\* installed, and no call is left.
CleanShutdownClosesAll ==
  shutdown = "done" =>
    /\ active = NoModel
    /\ retired = closed
    /\ \A c \in Calls : using[c] = NoModel

\* Every retired client is closed in the end, or its close failed, unless
\* the shutdown ran out of time.
RetiredIsClosed ==
  \A m \in Models : m \in retired ~> (m \in Finished \/ shutdown = "failed")
=============================================================================
