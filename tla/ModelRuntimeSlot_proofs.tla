------------------------ MODULE ModelRuntimeSlot_proofs ------------------------
(***************************************************************************)
(* Safety of ModelRuntimeSlot, for any finite set of clients and any       *)
(* number of calls: ModelSlotInv is inductive, so no client is closed      *)
(* under a call, and none is closed twice or forgotten.                    *)
(***************************************************************************)
EXTENDS ModelRuntimeSlot, FiniteSetTheorems, TLAPS

CallsOn(m) == {c \in Calls : using[c] = m}

\* The counter of a client is the number of calls that captured it.
CallsCounted ==
  \A m \in Models : IsFiniteSet(CallsOn(m)) /\ inFlight[m] = Cardinality(CallsOn(m))

CallsUseInstalled == \A c \in Calls : using[c] \in Installed \cup {NoModel}

PlacesOf(m) ==
  (IF inFlight[m] > 0 THEN 1 ELSE 0) + posted[m] + queued[m]
    + (IF closing = m THEN 1 ELSE 0) + (IF m \in Finished THEN 1 ELSE 0)

Untouched(m) == posted[m] = 0 /\ queued[m] = 0 /\ closing # m /\ m \notin Finished

OnePlace == \A m \in Models : IF m \in retired THEN PlacesOf(m) = 1 ELSE Untouched(m)

EventTellsPending ==
  /\ pending = Cardinality(retired \ Finished)
  /\ pending = 0 => drained
  /\ shutdown = "draining" /\ drained => pending = 0

\* The shutdown retires the active client first and joins the queue only when
\* nothing is left to close.
ShutdownOrder ==
  /\ active \notin retired
  /\ shutdown \notin {"none", "requested"} => active = NoModel
  /\ shutdown \in {"joining", "stopping", "done"} => pending = 0
  /\ shutdown = "done" => broken = {}

\* CallsHoldOpenClients is not inductive: the reaper closes what it finds in
\* the queue, so that it is the counters and the one place of each client that
\* keep a client with calls out of it.
ModelSlotInv ==
  /\ ModelSlotTypeOK
  /\ CallsCounted
  /\ CallsUseInstalled
  /\ OnePlace
  /\ EventTellsPending
  /\ ShutdownOrder

-----------------------------------------------------------------------------
(* Counting                                                                *)

\* The clients that are not closed yet are finitely many.
LEMMA UnfinishedFinite ==
  ASSUME ModelSlotTypeOK
  PROVE  /\ IsFiniteSet(retired \ Finished)
         /\ Cardinality(retired \ Finished) \in Nat
         /\ Cardinality(retired \ Finished) = 0 <=> retired \subseteq Finished
<1>1. retired \ Finished \subseteq Models
  BY DEF ModelSlotTypeOK
<1>2. IsFiniteSet(retired \ Finished)
  BY <1>1, ModelsAssumption, FS_Subset
<1> QED  BY <1>2, FS_CardinalityType, FS_EmptySet

\* A call more on a client.
LEMMA CallAdded ==
  ASSUME NEW S, NEW c, IsFiniteSet(S), c \notin S
  PROVE  /\ IsFiniteSet(S \cup {c})
         /\ Cardinality(S \cup {c}) = Cardinality(S) + 1
BY FS_AddElement

\* A call less on a client.
LEMMA CallRemoved ==
  ASSUME NEW S, NEW c, IsFiniteSet(S), c \in S
  PROVE  /\ IsFiniteSet(S \ {c})
         /\ Cardinality(S \ {c}) = Cardinality(S) - 1
         /\ Cardinality(S) \in Nat \ {0}
<1>1. Cardinality(S) \in Nat \ {0}
  BY FS_CardinalityType, FS_EmptySet
<1> QED  BY <1>1, FS_RemoveElement

-----------------------------------------------------------------------------
(* Steps                                                                   *)

\* Retiring the active client, in every order of what else happens: it gets
\* one place, and one more is counted.
LEMMA RetireKeeps ==
  ASSUME ModelSlotInv, Retire(active),
         UNCHANGED <<callVars, queued, closing, closed, broken>>
  PROVE  /\ retired' = retired \cup ({active} \ {NoModel})
         /\ retired' \in SUBSET Models
         /\ pending' \in Nat
         /\ posted' \in [Models -> Nat]
         /\ OnePlace'
         /\ pending' = Cardinality(retired' \ Finished')
         /\ pending' = 0 => pending = 0
<1> USE ModelsAssumption
<1>1. CASE active = NoModel
  BY <1>1 DEF Retire, retireVars, callVars, ModelSlotInv, ModelSlotTypeOK, OnePlace,
              PlacesOf, Untouched, Finished, EventTellsPending
<1>2. CASE active # NoModel
  <2>1. /\ active \in Models /\ active \notin retired /\ Untouched(active)
        /\ inFlight[active] \in Nat
    BY <1>2 DEF ModelSlotInv, ModelSlotTypeOK, OnePlace, ShutdownOrder
  <2>2. /\ retired' = retired \cup {active}
        /\ pending' = pending + 1
        /\ posted' = IF inFlight[active] = 0 THEN [posted EXCEPT ![active] = @ + 1]
                     ELSE posted
    BY <1>2 DEF Retire
  <2>3. posted' \in [Models -> Nat] /\ pending \in Nat
    BY <2>1, <2>2 DEF ModelSlotInv, ModelSlotTypeOK
  <2>4. OnePlace'
    <3>1. ASSUME NEW m \in Models, m = active PROVE PlacesOf(m)' = 1
      <4>1. /\ inFlight'[m] = inFlight[m] /\ queued'[m] = 0 /\ closing' # m
            /\ m \notin Finished'
        BY <2>1, <3>1 DEF Untouched, Finished, callVars
      <4>2. posted'[m] = IF inFlight[m] = 0 THEN 1 ELSE 0
        BY <2>1, <2>2, <3>1 DEF Untouched, ModelSlotInv, ModelSlotTypeOK
      <4>3. inFlight[m] \in Nat
        BY <2>1, <3>1
      <4> QED  BY <4>1, <4>2, <4>3 DEF PlacesOf
    <3>2. ASSUME NEW m \in Models, m # active
          PROVE  IF m \in retired' THEN PlacesOf(m)' = 1 ELSE Untouched(m)'
      <4>1. posted'[m] = posted[m]
        BY <2>2, <3>2 DEF ModelSlotInv, ModelSlotTypeOK
      <4> QED
        BY <2>2, <3>2, <4>1 DEF ModelSlotInv, OnePlace, PlacesOf, Untouched, Finished, callVars
    <3> QED  BY <2>1, <2>2, <3>1, <3>2 DEF OnePlace
  <2>5. pending' = Cardinality(retired' \ Finished')
    <3>1. retired' \ Finished' = (retired \ Finished) \cup {active}
      BY <2>1, <2>2 DEF Untouched, Finished
    <3>2. active \notin retired \ Finished
      BY <2>1
    <3> QED
      BY <2>2, <3>1, <3>2, UnfinishedFinite, FS_AddElement
         DEF ModelSlotInv, EventTellsPending
  <2> QED  BY <1>2, <2>1, <2>2, <2>3, <2>4, <2>5 DEF ModelSlotInv, ModelSlotTypeOK
<1> QED  BY <1>1, <1>2

\* Steps that leave the clients where they are.
LEMMA PlacesKept ==
  ASSUME ModelSlotInv,
         UNCHANGED <<retireVars, queued, closing, closed, broken, drained, callVars>>
  PROVE  /\ CallsCounted' /\ OnePlace'
         /\ pending' = Cardinality(retired' \ Finished')
         /\ pending' = 0 => drained'
BY DEF ModelSlotInv, CallsCounted, CallsOn, OnePlace, PlacesOf, Untouched, Finished,
       EventTellsPending, retireVars, callVars

\* Activation, with any version, and deactivation retire the active client.
LEMMA FrontKeeps ==
  ASSUME ModelSlotInv, Retire(active), NEW m \in Models \cup {NoModel},
         m # NoModel => m \notin Installed,
         active' = m, lastVersion' \in Int,
         capability' \in {"placeholder", "available", "degraded"},
         shutdown = "none",
         UNCHANGED <<callVars, queued, reaperVars, drained, shutdown>>
  PROVE  ModelSlotInv'
<1> USE ModelsAssumption
<1>1. /\ retired' = retired \cup ({active} \ {NoModel})
      /\ retired' \in SUBSET Models
      /\ pending' \in Nat
      /\ posted' \in [Models -> Nat]
      /\ OnePlace'
      /\ pending' = Cardinality(retired' \ Finished')
      /\ pending' = 0 => pending = 0
  BY RetireKeeps DEF reaperVars
<1>2. ModelSlotTypeOK'
  BY <1>1 DEF ModelSlotInv, ModelSlotTypeOK, callVars, reaperVars
<1>3. CallsCounted'
  BY DEF ModelSlotInv, CallsCounted, CallsOn, callVars
<1>4. CallsUseInstalled'
  BY <1>1 DEF ModelSlotInv, CallsUseInstalled, Installed, callVars
<1>5. EventTellsPending'
  BY <1>1 DEF ModelSlotInv, EventTellsPending
<1>6. ShutdownOrder'
  BY <1>1 DEF ModelSlotInv, ShutdownOrder, Installed
<1> QED  BY <1>1, <1>2, <1>3, <1>4, <1>5, <1>6 DEF ModelSlotInv

\* A call captures the active client.
LEMMA StartKeeps ==
  ASSUME ModelSlotInv, NEW c \in Calls, StartCall(c)
  PROVE  ModelSlotInv'
<1> USE ModelsAssumption
<1>1. PICK m \in Models : m = active
  BY DEF StartCall, ModelSlotInv, ModelSlotTypeOK
<1>2. /\ using[c] = NoModel /\ m \notin retired
      /\ using' = [using EXCEPT ![c] = m]
      /\ inFlight' = [inFlight EXCEPT ![m] = @ + 1]
      /\ UNCHANGED <<frontVars, retireVars, queued, reaperVars, drained, shutdown>>
  BY <1>1 DEF StartCall, ModelSlotInv, ShutdownOrder
<1>3. /\ using \in [Calls -> Models \cup {NoModel}] /\ inFlight \in [Models -> Nat]
  BY DEF ModelSlotInv, ModelSlotTypeOK
<1>4. ModelSlotTypeOK'
  BY <1>2, <1>3 DEF ModelSlotInv, ModelSlotTypeOK, frontVars, retireVars, reaperVars
<1>5. CallsCounted'
  <2>1. /\ CallsOn(m)' = CallsOn(m) \cup {c} /\ c \notin CallsOn(m)
        /\ \A n \in Models \ {m} : CallsOn(n)' = CallsOn(n)
    BY <1>2, <1>3 DEF CallsOn
  <2> QED  BY <1>2, <1>3, <2>1, CallAdded DEF ModelSlotInv, CallsCounted
<1>6. CallsUseInstalled'
  BY <1>1, <1>2, <1>3 DEF ModelSlotInv, CallsUseInstalled, Installed, frontVars, retireVars
<1>7. OnePlace'
  <2>1. \A n \in retired : inFlight'[n] = inFlight[n]
    BY <1>2, <1>3 DEF ModelSlotInv, ModelSlotTypeOK
  <2> QED
    BY <1>2, <2>1 DEF ModelSlotInv, OnePlace, PlacesOf, Untouched, Finished, retireVars,
                      reaperVars
<1>8. EventTellsPending' /\ ShutdownOrder'
  BY <1>2 DEF ModelSlotInv, EventTellsPending, ShutdownOrder, Finished, frontVars,
              retireVars, reaperVars
<1> QED  BY <1>4, <1>5, <1>6, <1>7, <1>8 DEF ModelSlotInv

\* A call ends, on the loop or in a thread; the last one of a retired client
\* gives it its next place.
LEMMA EndKeeps ==
  ASSUME ModelSlotInv, NEW c \in Calls, NEW inThread \in BOOLEAN, EndCall(c, inThread)
  PROVE  ModelSlotInv'
<1> USE ModelsAssumption
<1> DEFINE last(m) == m \in retired /\ inFlight[m] = 1
<1>1. PICK m \in Models : m = using[c]
  BY DEF EndCall, ModelSlotInv, ModelSlotTypeOK
<1>2. /\ using' = [using EXCEPT ![c] = NoModel]
      /\ inFlight' = [inFlight EXCEPT ![m] = @ - 1]
      /\ posted' = IF last(m) /\ inThread THEN [posted EXCEPT ![m] = @ + 1] ELSE posted
      /\ queued' = IF last(m) /\ ~inThread THEN [queued EXCEPT ![m] = @ + 1] ELSE queued
      /\ drained' = (drained /\ (last(m) => inThread))
      /\ UNCHANGED <<frontVars, retired, pending, reaperVars, shutdown>>
  BY <1>1 DEF EndCall, LastCallOfRetired
<1>3. /\ using \in [Calls -> Models \cup {NoModel}] /\ inFlight \in [Models -> Nat]
      /\ posted \in [Models -> Nat] /\ queued \in [Models -> Nat] /\ drained \in BOOLEAN
  BY DEF ModelSlotInv, ModelSlotTypeOK
<1>4. CallsCounted' /\ inFlight[m] > 0 /\ inFlight' \in [Models -> Nat]
  <2>1. /\ CallsOn(m)' = CallsOn(m) \ {c} /\ c \in CallsOn(m)
        /\ \A n \in Models \ {m} : CallsOn(n)' = CallsOn(n)
    BY <1>1, <1>2, <1>3 DEF CallsOn
  <2> QED  BY <1>2, <1>3, <2>1, CallRemoved DEF ModelSlotInv, CallsCounted
<1>5. ModelSlotTypeOK'
  BY <1>2, <1>3, <1>4 DEF ModelSlotInv, ModelSlotTypeOK, frontVars, reaperVars
<1>6. CallsUseInstalled'
  BY <1>2, <1>3 DEF ModelSlotInv, CallsUseInstalled, Installed, frontVars
<1>7. OnePlace'
  <2>1. \A n \in Models \ {m} : /\ inFlight'[n] = inFlight[n]
                                /\ posted'[n] = posted[n] /\ queued'[n] = queued[n]
    BY <1>2, <1>3
  <2>2. closing' = closing /\ Finished' = Finished
    BY <1>2 DEF reaperVars, Finished
  <2>3. \A n \in Models : n # m =>
           IF n \in retired' THEN PlacesOf(n)' = 1 ELSE Untouched(n)'
    BY <1>2, <2>1, <2>2 DEF ModelSlotInv, OnePlace, PlacesOf, Untouched
  <2>4. ASSUME m \in retired PROVE PlacesOf(m)' = 1
    <3>1. PlacesOf(m) = 1
      BY <2>4 DEF ModelSlotInv, OnePlace
    <3>2. posted[m] = 0 /\ queued[m] = 0 /\ closing # m /\ m \notin Finished
      BY <1>3, <1>4, <3>1 DEF PlacesOf
    <3>3. CASE inFlight[m] = 1
      BY <1>2, <1>3, <2>2, <2>4, <3>2, <3>3 DEF PlacesOf
    <3>4. CASE inFlight[m] # 1
      <4>1. inFlight'[m] > 0 /\ posted'[m] = 0 /\ queued'[m] = 0
        BY <1>2, <1>3, <1>4, <3>2, <3>4
      <4> QED  BY <2>2, <3>2, <4>1 DEF PlacesOf
    <3> QED  BY <3>3, <3>4
  <2>5. ASSUME m \notin retired PROVE Untouched(m)'
    BY <1>2, <2>2, <2>5 DEF ModelSlotInv, OnePlace, Untouched
  <2>6. IF m \in retired' THEN PlacesOf(m)' = 1 ELSE Untouched(m)'
    BY <1>2, <2>4, <2>5
  <2> QED  BY <2>3, <2>6 DEF OnePlace
<1>8. EventTellsPending'
  <2>1. ASSUME last(m) PROVE pending # 0
    <3>1. m \notin Finished
      BY <1>3, <1>4, <2>1 DEF ModelSlotInv, OnePlace, PlacesOf
    <3> QED  BY <2>1, <3>1, UnfinishedFinite DEF ModelSlotInv, EventTellsPending
  <2> QED  BY <1>2, <1>3, <2>1 DEF ModelSlotInv, EventTellsPending, Finished, reaperVars
<1>9. ShutdownOrder'
  BY <1>2 DEF ModelSlotInv, ShutdownOrder, frontVars, reaperVars
<1> QED  BY <1>4, <1>5, <1>6, <1>7, <1>8, <1>9 DEF ModelSlotInv

\* The loop queues a client that a thread, or its retirement, has posted.
LEMMA EnqueueKeeps ==
  ASSUME ModelSlotInv, NEW m \in Models, EnqueueRetired(m)
  PROVE  ModelSlotInv'
<1> USE ModelsAssumption
<1>1. /\ posted[m] > 0
      /\ posted' = [posted EXCEPT ![m] = @ - 1]
      /\ queued' = [queued EXCEPT ![m] = @ + 1]
      /\ drained' = FALSE
      /\ UNCHANGED <<frontVars, callVars, retired, pending, reaperVars, shutdown>>
  BY DEF EnqueueRetired
<1>2. /\ inFlight \in [Models -> Nat] /\ posted \in [Models -> Nat]
      /\ queued \in [Models -> Nat]
  BY DEF ModelSlotInv, ModelSlotTypeOK
<1>3. ModelSlotTypeOK'
  <2>1. posted[m] - 1 \in Nat /\ queued[m] + 1 \in Nat
    BY <1>1, <1>2
  <2>2. posted' \in [Models -> Nat] /\ queued' \in [Models -> Nat]
    BY <1>1, <1>2, <2>1
  <2> QED
    BY <1>1, <2>2 DEF ModelSlotInv, ModelSlotTypeOK, frontVars, callVars, reaperVars
<1>4. m \in retired
  BY <1>1, <1>2 DEF ModelSlotInv, OnePlace, Untouched
<1>5. CallsCounted' /\ CallsUseInstalled' /\ ShutdownOrder'
  BY <1>1 DEF ModelSlotInv, CallsCounted, CallsOn, CallsUseInstalled, Installed,
              ShutdownOrder, frontVars, callVars, reaperVars
<1>6. OnePlace'
  <2>1. ASSUME NEW n \in Models, n # m
        PROVE  IF n \in retired' THEN PlacesOf(n)' = 1 ELSE Untouched(n)'
    BY <1>1, <1>2, <2>1 DEF ModelSlotInv, OnePlace, PlacesOf, Untouched, Finished, callVars,
                            reaperVars
  <2>2. PlacesOf(m)' = 1
    <3>1. posted'[m] + queued'[m] = posted[m] + queued[m]
      BY <1>1, <1>2
    <3>2. PlacesOf(m) = 1 /\ posted'[m] \in Nat /\ queued'[m] \in Nat
      BY <1>3, <1>4 DEF ModelSlotInv, OnePlace, ModelSlotTypeOK
    <3> QED  BY <1>1, <1>2, <3>1, <3>2 DEF PlacesOf, Finished, callVars, reaperVars
  <2> QED  BY <1>1, <1>4, <2>1, <2>2 DEF OnePlace
<1>7. EventTellsPending'
  <2>1. m \notin Finished
    BY <1>1, <1>2, <1>4 DEF ModelSlotInv, OnePlace, PlacesOf
  <2>2. pending # 0
    BY <1>4, <2>1, UnfinishedFinite DEF ModelSlotInv, EventTellsPending
  <2> QED  BY <1>1, <2>2 DEF ModelSlotInv, EventTellsPending, Finished, reaperVars
<1> QED  BY <1>3, <1>5, <1>6, <1>7 DEF ModelSlotInv

\* The reaper takes an item: the client moves from the queue to the reaper.
LEMMA ReaperTakesKeeps ==
  ASSUME ModelSlotInv, NEW m \in Models, ReaperTakes(m)
  PROVE  ModelSlotInv'
<1> USE ModelsAssumption
<1>1. /\ closing = NoModel /\ queued[m] > 0
      /\ queued' = [queued EXCEPT ![m] = @ - 1]
      /\ closing' = m
      /\ UNCHANGED <<frontVars, callVars, retireVars, closed, broken, drained, reaper, shutdown>>
  BY DEF ReaperTakes
<1>2. /\ inFlight \in [Models -> Nat] /\ posted \in [Models -> Nat]
      /\ queued \in [Models -> Nat]
  BY DEF ModelSlotInv, ModelSlotTypeOK
<1>3. ModelSlotTypeOK'
  BY <1>1, <1>2 DEF ModelSlotInv, ModelSlotTypeOK, frontVars, callVars, retireVars
<1>4. m \in retired
  BY <1>1, <1>2 DEF ModelSlotInv, OnePlace, Untouched
<1>5. CallsCounted' /\ CallsUseInstalled' /\ ShutdownOrder' /\ EventTellsPending'
  BY <1>1 DEF ModelSlotInv, CallsCounted, CallsOn, CallsUseInstalled, Installed, Finished,
              ShutdownOrder, EventTellsPending, frontVars, callVars, retireVars
<1>6. OnePlace'
  <2>1. ASSUME NEW n \in Models, n # m
        PROVE  IF n \in retired' THEN PlacesOf(n)' = 1 ELSE Untouched(n)'
    BY <1>1, <1>2, <2>1 DEF ModelSlotInv, OnePlace, PlacesOf, Untouched, Finished, callVars,
                            retireVars
  <2>2. PlacesOf(m)' = 1
    <3>1. queued'[m] = queued[m] - 1 /\ closing # m
      BY <1>1, <1>2
    <3>2. PlacesOf(m) = 1
      BY <1>4 DEF ModelSlotInv, OnePlace
    <3> QED  BY <1>1, <1>2, <3>1, <3>2 DEF PlacesOf, Finished, callVars, retireVars
  <2> QED  BY <1>1, <1>4, <2>1, <2>2 DEF OnePlace, retireVars
<1> QED  BY <1>3, <1>5, <1>6 DEF ModelSlotInv

\* The close of a client ends, or is cancelled: it is counted off, once.
LEMMA CountOffKeeps ==
  ASSUME ModelSlotInv, closing # NoModel, CountOff, closing' = NoModel,
         \/ closed' = closed \cup {closing} /\ broken' = broken
         \/ broken' = broken \cup {closing} /\ closed' = closed,
         UNCHANGED <<callVars, retired, posted, queued>>,
         shutdown' \in {shutdown, "failed"}
  PROVE  /\ pending' \in Nat /\ drained' \in BOOLEAN
         /\ closed' \in SUBSET Models /\ broken' \in SUBSET Models
         /\ OnePlace' /\ EventTellsPending' /\ pending # 0
<1> USE ModelsAssumption
<1>1. PICK m \in Models : m = closing
  BY DEF ModelSlotInv, ModelSlotTypeOK
<1>2. /\ inFlight \in [Models -> Nat] /\ posted \in [Models -> Nat]
      /\ queued \in [Models -> Nat] /\ pending \in Nat /\ drained \in BOOLEAN
  BY DEF ModelSlotInv, ModelSlotTypeOK
<1>3. m \in retired /\ m \notin Finished
  <2>1. m \in retired
    BY <1>1 DEF ModelSlotInv, OnePlace, Untouched
  <2>2. PlacesOf(m) = 1
    BY <2>1 DEF ModelSlotInv, OnePlace
  <2> QED  BY <1>1, <1>2, <2>1, <2>2 DEF PlacesOf
<1>4. Finished' = Finished \cup {m}
  BY <1>1 DEF Finished
<1>5. pending' = Cardinality(retired' \ Finished') /\ pending # 0
  <2>1. retired' \ Finished' = (retired \ Finished) \ {m}
    BY <1>4
  <2>2. m \in retired \ Finished
    BY <1>3
  <2> QED
    BY <2>1, <2>2, UnfinishedFinite, FS_RemoveElement
       DEF ModelSlotInv, EventTellsPending, CountOff
<1>6. pending' \in Nat /\ (pending' = 0 <=> pending = 1)
  BY <1>2, <1>5 DEF CountOff
<1>7. EventTellsPending'
  BY <1>5, <1>6 DEF ModelSlotInv, EventTellsPending, CountOff
<1>8. OnePlace'
  <2>1. ASSUME NEW n \in Models, n # m
        PROVE  IF n \in retired' THEN PlacesOf(n)' = 1 ELSE Untouched(n)'
    BY <1>1, <1>4, <2>1 DEF ModelSlotInv, OnePlace, PlacesOf, Untouched, callVars
  <2>2. PlacesOf(m)' = 1
    <3>1. PlacesOf(m) = 1
      BY <1>3 DEF ModelSlotInv, OnePlace
    <3> QED  BY <1>1, <1>2, <1>3, <1>4, <3>1 DEF PlacesOf, callVars
  <2> QED  BY <1>3, <2>1, <2>2 DEF OnePlace
<1>9. closed' \in SUBSET Models /\ broken' \in SUBSET Models /\ drained' \in BOOLEAN
  BY <1>1, <1>2 DEF ModelSlotInv, ModelSlotTypeOK, CountOff
<1> QED  BY <1>5, <1>6, <1>7, <1>8, <1>9

\* The reaper closes a client, or fails to.
LEMMA ReaperFinishesKeeps ==
  ASSUME ModelSlotInv, NEW ok \in BOOLEAN, ReaperFinishes(ok)
  PROVE  ModelSlotInv'
<1>1. /\ pending' \in Nat /\ drained' \in BOOLEAN
      /\ closed' \in SUBSET Models /\ broken' \in SUBSET Models
      /\ OnePlace' /\ EventTellsPending' /\ pending # 0
  BY CountOffKeeps DEF ReaperFinishes
<1>2. ModelSlotTypeOK'
  BY <1>1 DEF ReaperFinishes, ModelSlotInv, ModelSlotTypeOK, frontVars, callVars
<1>3. CallsCounted' /\ CallsUseInstalled'
  BY DEF ReaperFinishes, ModelSlotInv, CallsCounted, CallsOn, CallsUseInstalled, Installed,
         frontVars, callVars
<1>4. ShutdownOrder'
  BY <1>1 DEF ReaperFinishes, ModelSlotInv, ShutdownOrder, frontVars
<1> QED  BY <1>1, <1>2, <1>3, <1>4 DEF ModelSlotInv

-----------------------------------------------------------------------------
(* The shutdown                                                            *)

\* The shutdown retires the active client and decides whether it must wait.
LEMMA ShutdownStartsKeeps ==
  ASSUME ModelSlotInv, ShutdownStarts
  PROVE  ModelSlotInv'
<1> USE ModelsAssumption
<1>1. /\ retired' = retired \cup ({active} \ {NoModel})
      /\ retired' \in SUBSET Models
      /\ pending' \in Nat
      /\ posted' \in [Models -> Nat]
      /\ OnePlace'
      /\ pending' = Cardinality(retired' \ Finished')
      /\ pending' = 0 => pending = 0
  BY RetireKeeps DEF ShutdownStarts, reaperVars
<1>2. MustDrain <=> pending' # 0
  BY <1>1 DEF MustDrain
<1>3. ModelSlotTypeOK'
  BY <1>1 DEF ShutdownStarts, ModelSlotInv, ModelSlotTypeOK, callVars, reaperVars
<1>4. CallsCounted' /\ CallsUseInstalled'
  BY <1>1 DEF ShutdownStarts, ModelSlotInv, CallsCounted, CallsOn, CallsUseInstalled,
              Installed, callVars
<1>5. EventTellsPending'
  BY <1>1, <1>2 DEF ShutdownStarts, ModelSlotInv, EventTellsPending
<1>6. ShutdownOrder'
  BY <1>1, <1>2 DEF ShutdownStarts, ModelSlotInv, ShutdownOrder
<1> QED  BY <1>1, <1>3, <1>4, <1>5, <1>6 DEF ModelSlotInv

\* The steps of the shutdown that only wait, and the end of the reaper.
LEMMA WaitKeeps ==
  ASSUME ModelSlotInv,
         \/ RequestShutdown \/ ShutdownDrained \/ ShutdownJoined \/ ShutdownEnds
         \/ ReaperStops
  PROVE  ModelSlotInv'
<1> USE DEF RequestShutdown, ShutdownDrained, ShutdownJoined, ShutdownEnds, ReaperStops, Await,
            frontVars, callVars, retireVars, reaperVars
<1>1. ModelSlotTypeOK'
  BY DEF ModelSlotInv, ModelSlotTypeOK
<1>2. /\ CallsCounted' /\ OnePlace'
      /\ pending' = Cardinality(retired' \ Finished')
      /\ pending' = 0 => drained'
  BY PlacesKept
<1>3. CallsUseInstalled'
  BY DEF ModelSlotInv, CallsUseInstalled, Installed
<1>4. EventTellsPending' /\ ShutdownOrder'
  BY <1>2 DEF ModelSlotInv, EventTellsPending, ShutdownOrder
<1> QED  BY <1>1, <1>2, <1>3, <1>4 DEF ModelSlotInv

\* The shutdown runs out of time, perhaps while a client is being closed.
LEMMA TimeOutKeeps ==
  ASSUME ModelSlotInv, ShutdownTimesOut
  PROVE  ModelSlotInv'
<1> USE DEF ShutdownTimesOut, frontVars, callVars
<1>1. /\ pending' \in Nat /\ drained' \in BOOLEAN
      /\ broken' \in SUBSET Models
      /\ OnePlace' /\ EventTellsPending'
  <2>1. CASE closing = NoModel
    BY <2>1 DEF ModelSlotInv, ModelSlotTypeOK, OnePlace, PlacesOf, Untouched, Finished,
                EventTellsPending
  <2>2. CASE closing # NoModel
    BY <2>2, CountOffKeeps
  <2> QED  BY <2>1, <2>2
<1>2. ModelSlotTypeOK'
  BY <1>1 DEF ModelSlotInv, ModelSlotTypeOK
<1>3. CallsCounted' /\ CallsUseInstalled' /\ ShutdownOrder'
  BY DEF ModelSlotInv, CallsCounted, CallsOn, CallsUseInstalled, Installed, ShutdownOrder
<1> QED  BY <1>1, <1>2, <1>3 DEF ModelSlotInv

-----------------------------------------------------------------------------
(* The theorems                                                            *)

\* A slot that was just made.
LEMMA FreshSlot == ModelSlotInit => ModelSlotInv
<1> SUFFICES ASSUME ModelSlotInit PROVE ModelSlotInv
  OBVIOUS
<1> USE ModelsAssumption DEF ModelSlotInit
<1>1. ModelSlotTypeOK
  BY DEF ModelSlotTypeOK
<1>2. \A m \in Models : CallsOn(m) = {}
  BY DEF CallsOn
<1>3. CallsCounted /\ EventTellsPending
  BY <1>2, FS_EmptySet DEF CallsCounted, EventTellsPending
<1>4. OnePlace
  BY DEF OnePlace, Untouched, Finished
<1>5. CallsUseInstalled /\ ShutdownOrder
  BY DEF CallsUseInstalled, ShutdownOrder
<1> QED  BY <1>1, <1>3, <1>4, <1>5 DEF ModelSlotInv

\* The slot of a process that starts.
LEMMA SlotStartsFresh == SlotStarts => ModelSlotInv'
<1>1. SlotStarts => ModelSlotInit'
  BY DEF SlotStarts, ModelSlotInit
<1> QED  BY <1>1, FreshSlot, PTL

\* How the slot may be used: as ModelSlotNext says, with activations of any
\* version, and by process after process.
SlotUse ==
  \/ ModelSlotNext
  \/ \E m \in Models, version \in Int : ActivateModel(m, version)
  \/ SlotStarts

\* No use of the slot breaks its invariant.
LEMMA SlotUseKept == ModelSlotInv /\ [SlotUse]_slotVars => ModelSlotInv'
<1> SUFFICES ASSUME ModelSlotInv, [SlotUse]_slotVars PROVE ModelSlotInv'
  OBVIOUS
<1>1. ASSUME NEW m \in Models, NEW version \in Int, ActivateModel(m, version)
      PROVE  ModelSlotInv'
  <2>1. m # NoModel
    BY ModelsAssumption
  <2> QED  BY <1>1, <2>1, FrontKeeps DEF ActivateModel, CanActivate
<1>2. ASSUME NEW shown \in {"placeholder", "degraded"}, Deactivate(shown)
      PROVE  ModelSlotInv'
  <2>1. lastVersion' \in Int
    BY <1>2 DEF Deactivate, ModelSlotInv, ModelSlotTypeOK
  <2> QED  BY <1>2, <2>1, FrontKeeps DEF Deactivate
<1>3. CASE CallSteps
  BY <1>3, StartKeeps, EndKeeps DEF CallSteps, EndOf
<1>4. CASE ReaperSteps
  BY <1>4, EnqueueKeeps, ReaperTakesKeeps, ReaperFinishesKeeps, WaitKeeps DEF ReaperSteps
<1>5. CASE ShutdownSteps \/ RequestShutdown
  BY <1>5, ShutdownStartsKeeps, WaitKeeps, TimeOutKeeps DEF ShutdownSteps
<1>6. CASE UNCHANGED slotVars
  <2>1. ModelSlotTypeOK' /\ CallsUseInstalled' /\ ShutdownOrder'
    BY <1>6 DEF slotVars, frontVars, callVars, retireVars, reaperVars, ModelSlotInv,
                ModelSlotTypeOK, CallsUseInstalled, Installed, ShutdownOrder
  <2>2. CallsCounted' /\ OnePlace' /\ EventTellsPending'
    BY <1>6 DEF slotVars, frontVars, callVars, retireVars, reaperVars, ModelSlotInv,
                CallsCounted, CallsOn, OnePlace, PlacesOf, Untouched, Finished,
                EventTellsPending
  <2> QED  BY <2>1, <2>2 DEF ModelSlotInv
<1>7. CASE SlotStarts
  BY <1>7, SlotStartsFresh
<1>8. lastVersion + 1 \in Int
  BY DEF ModelSlotInv, ModelSlotTypeOK
<1> QED
  BY <1>1, <1>2, <1>3, <1>4, <1>5, <1>6, <1>7, <1>8 DEF SlotUse, ModelSlotNext, ControlSteps

\* The inductive invariant of the slot, under any interleaving of the control
\* path, runs that end on the loop or in threads, the reaper and the shutdown.
THEOREM ModelSlotInvariant == ModelSlotSpec => []ModelSlotInv
<1>1. ModelSlotInv /\ [ModelSlotNext]_slotVars => ModelSlotInv'
  BY SlotUseKept DEF SlotUse
<1> QED  BY <1>1, FreshSlot, PTL DEF ModelSlotSpec

\* The places of the invariant are those of the property.
LEMMA PlacesAreOne == ModelSlotInv => RetiredInOnePlace
BY DEF ModelSlotInv, ModelSlotTypeOK, OnePlace, PlacesOf, Untouched, EventTellsPending,
       RetiredInOnePlace

\* A retired client is in one place and the shutdown counts those it waits
\* for, for any number of clients and calls.
THEOREM RetiredCorrect == ModelSlotSpec => []RetiredInOnePlace
BY PlacesAreOne, ModelSlotInvariant, PTL

\* What has calls is not closed.
LEMMA CalledIsOpen ==
  ASSUME ModelSlotInv, NEW c \in Calls, using[c] # NoModel
  PROVE  using[c] \notin closed \cup broken \cup {closing}
<1> USE ModelsAssumption
<1>1. PICK m \in Models : m = using[c]
  BY DEF ModelSlotInv, ModelSlotTypeOK
<1>2. inFlight[m] > 0
  <2>1. c \in CallsOn(m) /\ IsFiniteSet(CallsOn(m)) /\ inFlight[m] = Cardinality(CallsOn(m))
    BY <1>1 DEF ModelSlotInv, CallsCounted, CallsOn
  <2>2. CallsOn(m) # {} /\ inFlight[m] \in Nat
    BY <2>1 DEF ModelSlotInv, ModelSlotTypeOK
  <2> QED  BY <2>1, <2>2, FS_EmptySet
<1>3. CASE m \in retired
  <2>1. PlacesOf(m) = 1 /\ posted[m] \in Nat /\ queued[m] \in Nat
    BY <1>3 DEF ModelSlotInv, OnePlace, ModelSlotTypeOK
  <2> QED  BY <1>1, <1>2, <2>1 DEF PlacesOf, Finished
<1>4. CASE m \notin retired
  BY <1>1, <1>4 DEF ModelSlotInv, OnePlace, Untouched, Finished
<1> QED  BY <1>3, <1>4

\* So it is for every call.
LEMMA CallsAreSafe == ModelSlotInv => CallsHoldOpenClients
BY CalledIsOpen DEF CallsHoldOpenClients

\* No client is closed, or being closed, under a call.
THEOREM CallsCorrect == ModelSlotSpec => []CallsHoldOpenClients
BY CallsAreSafe, ModelSlotInvariant, PTL

\* A shutdown that reports success has closed every client there ever was.
THEOREM ShutdownCorrect == ModelSlotSpec => []CleanShutdownClosesAll
<1>1. ModelSlotInv => CleanShutdownClosesAll
  <2> SUFFICES ASSUME ModelSlotInv, shutdown = "done"
               PROVE  active = NoModel /\ retired = closed /\ \A c \in Calls : using[c] = NoModel
    BY DEF CleanShutdownClosesAll
  <2>1. active = NoModel /\ pending = 0 /\ broken = {}
    BY DEF ModelSlotInv, ShutdownOrder
  <2>2. retired \subseteq Finished
    BY <2>1, UnfinishedFinite DEF ModelSlotInv, EventTellsPending
  <2>3. Finished \subseteq retired
    BY DEF ModelSlotInv, ModelSlotTypeOK, OnePlace, Untouched, Finished
  <2>4. \A c \in Calls : using[c] \notin Finished
    BY ModelsAssumption, CalledIsOpen DEF Finished, ModelSlotInv, ModelSlotTypeOK
  <2>5. \A c \in Calls : using[c] = NoModel
    BY <2>1, <2>2, <2>4 DEF ModelSlotInv, CallsUseInstalled, Installed
  <2> QED  BY <2>1, <2>2, <2>3, <2>5 DEF Finished
<1> QED  BY <1>1, ModelSlotInvariant, PTL
=============================================================================
