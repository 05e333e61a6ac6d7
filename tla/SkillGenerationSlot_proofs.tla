--------------------- MODULE SkillGenerationSlot_proofs ---------------------
(***************************************************************************)
(* Safety of SkillGenerationSlot, for any number of sets and runs: SlotInv *)
(* is inductive, so no generation is removed under a run; and the reaper  *)
(* never waits over work.                                                  *)
(***************************************************************************)
EXTENDS SkillGenerationSlot, FiniteSetTheorems, TLAPS

\* The leases of L on set s; the current ones are LeasesOn(s).
Holding(L, s) == {l \in L : l[2] = s}

\* A lease more on set s: one more counted on s, the same on any other set.
LEMMA LeaseAdded ==
  ASSUME NEW L, IsFiniteSet(L), NEW r, NEW s, <<r, s>> \notin L
  PROVE  /\ IsFiniteSet(L \cup {<<r, s>>})
         /\ Cardinality(Holding(L \cup {<<r, s>>}, s)) = Cardinality(Holding(L, s)) + 1
         /\ \A t : t # s => Holding(L \cup {<<r, s>>}, t) = Holding(L, t)
<1>1. /\ Holding(L \cup {<<r, s>>}, s) = Holding(L, s) \cup {<<r, s>>}
      /\ <<r, s>> \notin Holding(L, s)
  BY DEF Holding
<1>2. IsFiniteSet(Holding(L, s))
  <2>1. Holding(L, s) \subseteq L
    BY DEF Holding
  <2> QED  BY <2>1, FS_Subset
<1>3. \A t : t # s => Holding(L \cup {<<r, s>>}, t) = Holding(L, t)
  BY DEF Holding
<1> QED  BY <1>1, <1>2, <1>3, FS_AddElement

\* A lease less on set s.
LEMMA LeaseRemoved ==
  ASSUME NEW L, IsFiniteSet(L), NEW r, NEW s, <<r, s>> \in L
  PROVE  /\ IsFiniteSet(L \ {<<r, s>>})
         /\ Cardinality(Holding(L \ {<<r, s>>}, s)) = Cardinality(Holding(L, s)) - 1
         /\ Cardinality(Holding(L, s)) \in Nat \ {0}
         /\ \A t : t # s => Holding(L \ {<<r, s>>}, t) = Holding(L, t)
<1>1. /\ Holding(L \ {<<r, s>>}, s) = Holding(L, s) \ {<<r, s>>}
      /\ <<r, s>> \in Holding(L, s)
  BY DEF Holding
<1>2. IsFiniteSet(Holding(L, s))
  <2>1. Holding(L, s) \subseteq L
    BY DEF Holding
  <2> QED  BY <2>1, FS_Subset
<1>3. \A t : t # s => Holding(L \ {<<r, s>>}, t) = Holding(L, t)
  BY DEF Holding
<1>4. Cardinality(Holding(L, s)) \in Nat \ {0}
  BY <1>1, <1>2, FS_CardinalityType, FS_EmptySet
<1> QED  BY <1>1, <1>2, <1>3, <1>4, FS_RemoveElement

\* An entry no run holds has no lease.
LEMMA NoReferenceNoLease ==
  ASSUME SlotInv, NEW s, Cardinality(LeasesOn(s)) = 0
  PROVE  LeasesOn(s) = {}
<1>1. LeasesOn(s) \subseteq leases /\ IsFiniteSet(leases)
  BY DEF LeasesOn, SlotInv
<1> QED  BY <1>1, FS_Subset, FS_EmptySet

-----------------------------------------------------------------------------

\* The process starts with an empty slot.
LEMMA SlotStarts == SlotInit => SlotInv
<1> SUFFICES ASSUME SlotInit PROVE SlotInv
  OBVIOUS
<1>1. SlotTypeOK
  BY DEF SlotInit, SlotTypeOK, NoEntry, Generations
<1>2. \A s : LeasesOn(s) = {}
  BY DEF SlotInit, LeasesOn
<1> QED
  BY <1>1, <1>2, FS_EmptySet
     DEF SlotInit, SlotInv, ReferencesAreLeases, LeasedDirectoryPresent,
         AcceptedGenerationPresent, NoEntry

\* No step of the coordinator, a run, the reaper or the shutdown breaks
\* SlotInv.
LEMMA SlotKept == SlotInv /\ [SlotNext]_slotVars => SlotInv'
<1> SUFFICES ASSUME SlotInv, [SlotNext]_slotVars PROVE SlotInv'
  OBVIOUS
<1>1. ASSUME NEW r \in Runs, Capture(r) PROVE SlotInv'
  <2>1. /\ current.set \in Generations /\ current.references \in Nat
        /\ <<r, current.set>> \notin leases
    BY <1>1 DEF Capture, HasLease, SlotInv, SlotTypeOK
  <2>2. leases' = leases \cup {<<r, current.set>>} /\ IsFiniteSet(leases)
    BY <1>1 DEF Capture, SlotInv
  <2>3. /\ IsFiniteSet(leases')
        /\ Cardinality(Holding(leases', current.set)) =
             Cardinality(Holding(leases, current.set)) + 1
        /\ \A t : t # current.set => Holding(leases', t) = Holding(leases, t)
    <3>1. \A s : <<r, s>> \notin leases =>
            /\ IsFiniteSet(leases \cup {<<r, s>>})
            /\ Cardinality(Holding(leases \cup {<<r, s>>}, s)) =
                 Cardinality(Holding(leases, s)) + 1
            /\ \A t : t # s =>
                 Holding(leases \cup {<<r, s>>}, t) = Holding(leases, t)
      BY <2>2, LeaseAdded
    <3> QED  BY <2>1, <2>2, <3>1
  <2>4. /\ current'.set = current.set
        /\ current'.references = current.references + 1
        /\ current' \in [set: Generations, references: Nat]
        /\ UNCHANGED retired
    BY <1>1, <2>1 DEF Capture, SlotInv, SlotTypeOK
  <2>5. SlotTypeOK'
    BY <1>1, <2>1, <2>2, <2>4 DEF Capture, SlotInv, SlotTypeOK
  <2>6. ReferencesAreLeases'
    <3>1. /\ current.references = Cardinality(Holding(leases, current.set))
          /\ retired.present =>
               /\ retired.set # current.set
               /\ retired.references = Cardinality(Holding(leases, retired.set))
          /\ ~retired.present => retired = NoEntry
      BY DEF SlotInv, ReferencesAreLeases, AcceptedGenerationPresent, LeasesOn,
             Holding
    <3>2. \A l \in leases' : l[2] = current.set \/ (retired.present /\ l[2] = retired.set)
      BY <2>2 DEF SlotInv, ReferencesAreLeases
    <3>3. /\ current'.references = Cardinality(Holding(leases', current'.set))
          /\ retired'.present =>
               retired'.references = Cardinality(Holding(leases', retired'.set))
      BY <2>3, <2>4, <3>1
    <3> QED
      BY <2>4, <3>1, <3>2, <3>3 DEF ReferencesAreLeases, LeasesOn, Holding
  <2>7. LeasedDirectoryPresent'
    BY <1>1, <2>2
       DEF Capture, SlotInv, LeasedDirectoryPresent, AcceptedGenerationPresent
  <2> QED
    BY <1>1, <2>3, <2>4, <2>5, <2>6, <2>7
       DEF Capture, SlotInv, AcceptedGenerationPresent, Reapable
<1>2. ASSUME NEW r \in Runs, NEW s \in Generations, Release(r, s)
      PROVE  SlotInv'
  <2>1. /\ IsFiniteSet(leases')
        /\ Cardinality(Holding(leases', s)) = Cardinality(Holding(leases, s)) - 1
        /\ Cardinality(Holding(leases, s)) \in Nat \ {0}
        /\ \A t : t # s => Holding(leases', t) = Holding(leases, t)
    BY <1>2, LeaseRemoved DEF Release, SlotInv
  <2>2. leases' \subseteq leases
    BY <1>2 DEF Release
  <2>3. /\ current \in [set: Generations, references: Nat]
        /\ retired \in [present: BOOLEAN, set: Generations, references: Nat]
    BY DEF SlotInv, SlotTypeOK
  <2>4. CASE current.set = s
    <3>1. /\ current' = [current EXCEPT !.references = @ - 1]
          /\ UNCHANGED <<retired, wakeup>>
      BY <1>2, <2>4 DEF Release
    <3>2. current.references = Cardinality(Holding(leases, s))
      BY <2>4 DEF SlotInv, ReferencesAreLeases, LeasesOn, Holding
    <3>3. /\ current'.set = s
          /\ current'.references = Cardinality(Holding(leases', s))
          /\ current' \in [set: Generations, references: Nat]
      BY <2>1, <2>3, <2>4, <3>1, <3>2
    <3>4. ReferencesAreLeases'
      <4>1. retired.present =>
              retired.references = Cardinality(Holding(leases', retired.set))
        BY <2>1, <2>4
           DEF SlotInv, AcceptedGenerationPresent, ReferencesAreLeases, LeasesOn,
               Holding
      <4>2. /\ ~retired.present => retired = NoEntry
            /\ \A l \in leases' :
                 l[2] = s \/ (retired.present /\ l[2] = retired.set)
        BY <2>2, <2>4 DEF SlotInv, ReferencesAreLeases
      <4> QED
        BY <3>1, <3>3, <4>1, <4>2 DEF ReferencesAreLeases, LeasesOn, Holding
    <3> QED
      BY <1>2, <2>1, <2>2, <3>1, <3>3, <3>4
         DEF Release, SlotInv, SlotTypeOK, LeasedDirectoryPresent,
             AcceptedGenerationPresent, Reapable
  <2>5. CASE current.set # s
    <3>1. /\ retired' = [retired EXCEPT !.references = @ - 1]
          /\ wakeup' = (wakeup \/ retired.references = 1)
          /\ UNCHANGED current
      BY <1>2, <2>5 DEF Release
    <3>2. retired.present /\ retired.set = s
      BY <1>2, <2>5 DEF Release, SlotInv, ReferencesAreLeases
    <3>4. retired.references = Cardinality(Holding(leases, s))
      BY <3>2 DEF SlotInv, ReferencesAreLeases, LeasesOn, Holding
    <3>3. /\ retired'.set = s /\ retired'.present
          /\ retired'.references = Cardinality(Holding(leases', s))
          /\ retired' \in [present: BOOLEAN, set: Generations, references: Nat]
      BY <2>1, <2>3, <3>1, <3>2, <3>4
    <3>5. ReferencesAreLeases'
      <4>1. current.references = Cardinality(Holding(leases', current.set))
        BY <2>1, <2>5 DEF SlotInv, ReferencesAreLeases, LeasesOn, Holding
      <4>2. \A l \in leases' : l[2] = current.set \/ l[2] = s
        BY <2>2, <3>2 DEF SlotInv, ReferencesAreLeases
      <4> QED
        BY <3>1, <3>3, <4>1, <4>2 DEF ReferencesAreLeases, LeasesOn, Holding
    <3>6. wakeup' \in BOOLEAN /\ reaper # "cleaning"
      BY <2>1, <3>1, <3>4 DEF SlotInv, SlotTypeOK, Reapable
    <3> QED
      BY <1>2, <2>1, <2>2, <3>1, <3>2, <3>3, <3>5, <3>6
         DEF Release, SlotInv, SlotTypeOK, LeasedDirectoryPresent,
             AcceptedGenerationPresent
  <2> QED  BY <2>4, <2>5
<1>3. ASSUME phase \in {"serving", "draining"}, ReserveReplacement
      PROVE  SlotInv'
  BY <1>3 DEF ReserveReplacement, SlotInv, SlotTypeOK, ReferencesAreLeases,
              LeasesOn, LeasedDirectoryPresent, AcceptedGenerationPresent, Reapable
<1>4. ASSUME NEW s \in SetIds, phase \in {"serving", "draining"}, Prepare(s)
      PROVE  SlotInv'
  <2>1. s # NoSet /\ s \in Generations
    BY SlotNoSetAssumption DEF Generations
  <2>2. ~retired.present /\ s # current.set
    BY <1>4, <2>1 DEF Prepare, SlotInv
  <2> QED
    BY <1>4, <2>1, <2>2
       DEF Prepare, SlotInv, SlotTypeOK, ReferencesAreLeases, LeasesOn,
           LeasedDirectoryPresent, AcceptedGenerationPresent, Reapable
<1>5. ASSUME NEW removed \in BOOLEAN, Discard(removed) PROVE SlotInv'
  <2>1. /\ directories' \subseteq directories
        /\ \A s : s \in directories /\ s # prepared => s \in directories'
    BY <1>5 DEF Discard
  <2>2. prepared # current.set /\ ~retired.present
    BY <1>5 DEF Discard, SlotInv, AcceptedGenerationPresent
  <2>3. \A l \in leases : l[2] = current.set
    BY <2>2 DEF SlotInv, ReferencesAreLeases
  <2> QED
    BY <1>5, <2>1, <2>2, <2>3
       DEF Discard, SlotInv, SlotTypeOK, ReferencesAreLeases, LeasesOn,
           LeasedDirectoryPresent, AcceptedGenerationPresent, Reapable, Generations
<1>6. ASSUME NEW reopen \in BOOLEAN, phase \in {"serving", "draining"},
             CancelReservation(reopen)
      PROVE  SlotInv'
  BY <1>6 DEF CancelReservation, SlotInv, SlotTypeOK, ReferencesAreLeases,
              LeasesOn, LeasedDirectoryPresent, AcceptedGenerationPresent, Reapable
<1>7. ASSUME phase \in {"serving", "draining"}, CommitReservation
      PROVE  SlotInv'
  <2>1. /\ prepared \in Generations /\ prepared # current.set
        /\ prepared \in directories /\ retired = NoEntry
        /\ \A l \in leases : l[2] = current.set
    BY <1>7 DEF CommitReservation, SlotInv, SlotTypeOK, ReferencesAreLeases,
                AcceptedGenerationPresent
  <2>2. /\ current' = [set |-> prepared, references |-> 0]
        /\ reservation' = FALSE /\ prepared' = NoSet
        /\ UNCHANGED <<leases, directories, reaper, phase>>
    BY <1>7 DEF CommitReservation
  <2>8. /\ accepting' \in BOOLEAN /\ wakeup' \in BOOLEAN
        /\ accepting' => phase' = "serving"
    BY <1>7, Zenon DEF CommitReservation, SlotInv, SlotTypeOK
  <2>3. LeasesOn(prepared) = {} /\ Cardinality(LeasesOn(prepared)) = 0
    BY <2>1, FS_EmptySet DEF LeasesOn
  <2>4. reaper # "cleaning"
    BY <1>7 DEF CommitReservation, SlotInv, Reapable
  <2>5. /\ current.references = Cardinality(LeasesOn(current.set))
        /\ current.references \in Nat /\ current.set \in Generations
    BY DEF SlotInv, SlotTypeOK, ReferencesAreLeases
  <2>6. CASE current.references > 0 \/ current.set # NoSet
    <3>1. retired' = [present |-> TRUE, set |-> current.set,
                      references |-> current.references]
      BY <1>7, <2>6 DEF CommitReservation
    <3>2. SlotTypeOK'
      BY <2>1, <2>2, <2>5, <2>8, <3>1 DEF SlotInv, SlotTypeOK, Generations
    <3>3. ReferencesAreLeases'
      BY <2>1, <2>2, <2>3, <2>5, <3>1 DEF ReferencesAreLeases, LeasesOn
    <3> QED
      BY <2>1, <2>2, <2>4, <2>8, <3>1, <3>2, <3>3
         DEF SlotInv, LeasedDirectoryPresent, AcceptedGenerationPresent
  <2>7. CASE ~(current.references > 0 \/ current.set # NoSet)
    <3>1. UNCHANGED retired
      BY <1>7, <2>7 DEF CommitReservation
    <3>2. leases = {}
      <4>1. LeasesOn(current.set) = {}
        BY <2>5, <2>7, NoReferenceNoLease
      <4> QED  BY <2>1, <4>1 DEF LeasesOn
    <3>3. SlotTypeOK'
      BY <2>1, <2>2, <2>8, <3>1 DEF SlotInv, SlotTypeOK, Generations
    <3>4. ReferencesAreLeases'
      BY <2>1, <2>2, <2>3, <3>1, <3>2 DEF ReferencesAreLeases, LeasesOn, NoEntry
    <3> QED
      BY <2>1, <2>2, <2>4, <2>8, <3>1, <3>2, <3>3, <3>4
         DEF SlotInv, LeasedDirectoryPresent, AcceptedGenerationPresent, NoEntry
  <2> QED  BY <2>6, <2>7
<1>8. ASSUME NEW value \in BOOLEAN, phase = "serving", SetAcceptingRuns(value)
      PROVE  SlotInv'
  BY <1>8 DEF SetAcceptingRuns, SlotInv, SlotTypeOK, ReferencesAreLeases,
              LeasesOn, LeasedDirectoryPresent, AcceptedGenerationPresent, Reapable
<1>9. CASE ReaperWakes
  BY <1>9 DEF ReaperWakes, SlotInv, SlotTypeOK, ReferencesAreLeases,
              LeasesOn, LeasedDirectoryPresent, AcceptedGenerationPresent, Reapable
<1>10. ASSUME NEW removed \in BOOLEAN, ReaperCleaned(removed) PROVE SlotInv'
  <2>1. /\ retired.present /\ retired.references = 0
        /\ retired.set # current.set
        /\ prepared # NoSet => prepared # retired.set
    BY <1>10 DEF ReaperCleaned, SlotInv, Reapable, AcceptedGenerationPresent
  <2>2. LeasesOn(retired.set) = {}
    <3>1. Cardinality(LeasesOn(retired.set)) = 0
      BY <2>1 DEF SlotInv, ReferencesAreLeases
    <3> QED  BY <3>1, NoReferenceNoLease
  <2>3. \A l \in leases : l[2] = current.set
    BY <2>2 DEF SlotInv, ReferencesAreLeases, LeasesOn
  <2>4. /\ directories' \subseteq directories
        /\ \A s : s \in directories /\ s # retired.set => s \in directories'
        /\ retired' = NoEntry
        /\ reaper' \in {"stopped", "waiting"}
        /\ UNCHANGED <<current, reservation, prepared, accepting, leases,
                       wakeup, phase>>
    BY <1>10 DEF ReaperCleaned
  <2>5. SlotTypeOK'
    BY <2>4 DEF SlotInv, SlotTypeOK, NoEntry, Generations
  <2>6. ReferencesAreLeases'
    BY <2>3, <2>4 DEF SlotInv, ReferencesAreLeases, LeasesOn, NoEntry
  <2> QED
    BY <2>1, <2>3, <2>4, <2>5, <2>6
       DEF SlotInv, LeasedDirectoryPresent, AcceptedGenerationPresent, NoEntry
<1>11. CASE BeginDraining
  BY <1>11 DEF BeginDraining, SlotInv, SlotTypeOK, ReferencesAreLeases,
               LeasesOn, LeasedDirectoryPresent, AcceptedGenerationPresent, Reapable
<1>12. ASSUME NEW removed \in BOOLEAN, CleanupCurrent(removed) PROVE SlotInv'
  <2>1. leases = {}
    <3>1. LeasesOn(current.set) = {}
      BY <1>12, NoReferenceNoLease DEF CleanupCurrent, SlotInv, ReferencesAreLeases
    <3> QED
      BY <1>12, <3>1 DEF CleanupCurrent, SlotInv, ReferencesAreLeases, LeasesOn
  <2>2. /\ directories' \subseteq directories
        /\ \A s : s \in directories /\ s # current.set => s \in directories'
        /\ ~accepting
    BY <1>12 DEF CleanupCurrent, SlotInv
  <2> QED
    BY <1>12, <2>1, <2>2
       DEF CleanupCurrent, SlotInv, SlotTypeOK, ReferencesAreLeases, LeasesOn,
           LeasedDirectoryPresent, AcceptedGenerationPresent, Reapable
<1>13. CASE Close
  BY <1>13 DEF Close, SlotInv, SlotTypeOK, ReferencesAreLeases,
               LeasesOn, LeasedDirectoryPresent, AcceptedGenerationPresent, Reapable
<1>14. CASE ProcessStarts
  <2>1. SlotTypeOK'
    BY <1>14 DEF ProcessStarts, SlotTypeOK, NoEntry, Generations
  <2>2. \A s : LeasesOn(s)' = {}
    BY <1>14 DEF ProcessStarts, LeasesOn
  <2>3. ReferencesAreLeases'
    BY <1>14, <2>2, FS_EmptySet DEF ProcessStarts, ReferencesAreLeases, NoEntry
  <2> QED
    BY <1>14, <2>1, <2>3, FS_EmptySet
       DEF ProcessStarts, SlotInv, LeasedDirectoryPresent,
           AcceptedGenerationPresent, NoEntry
<1>15. CASE UNCHANGED slotVars
  BY <1>15 DEF slotVars, SlotInv, SlotTypeOK, ReferencesAreLeases,
               LeasesOn, LeasedDirectoryPresent, AcceptedGenerationPresent, Reapable
<1> QED
  BY <1>1, <1>2, <1>3, <1>4, <1>5, <1>6, <1>7, <1>8, <1>9, <1>10, <1>11, <1>12,
     <1>13, <1>14, <1>15
     DEF SlotNext, CoordinatorCalls, RunCalls, ReaperSteps, ManagerShutdown

\* The slot, its runs, the reaper and the shutdown never break SlotInv.
THEOREM SlotInvariant == SlotSafety => []SlotInv
BY SlotStarts, SlotKept, PTL DEF SlotSafety

\* The counters of the slot are the leases its runs hold.
THEOREM CountersCorrect == SlotSafety => []ReferencesAreLeases
<1>1. SlotInv => ReferencesAreLeases
  BY DEF SlotInv
<1> QED  BY <1>1, SlotInvariant, PTL

\* Neither the reaper nor a discard nor the shutdown removes the directory of
\* a generation some run holds.
THEOREM LeasedIsPresent == SlotSafety => []LeasedDirectoryPresent
<1>1. SlotInv => LeasedDirectoryPresent
  BY DEF SlotInv
<1> QED  BY <1>1, SlotInvariant, PTL

\* The generation offered to new runs is on disk.
THEOREM AcceptedIsPresent == SlotSafety => []AcceptedGenerationPresent
<1>1. SlotInv => AcceptedGenerationPresent
  BY DEF SlotInv
<1> QED  BY <1>1, SlotInvariant, PTL

-----------------------------------------------------------------------------
\* What the reaper's loop rests on between clearing its event and waiting for
\* it again: there is work, or the slot is closing, only with the event set;
\* and the task ends only with the slot.
WakeupsKept ==
  /\ reaper = "waiting" => /\ Reapable => wakeup
                           /\ phase = "closing" => wakeup
  /\ reaper = "stopped" => phase = "closing"

\* No wake-up of the reaper is lost, whatever thread a run ends in and however
\* the shutdown overtakes a cleanup: the safety part of RetiredIsReaped and of
\* CloseStopsReaper.
THEOREM WakeupsCorrect == SlotSafety => []WakeupsKept
<1>1. SlotInit => WakeupsKept
  BY DEF SlotInit, WakeupsKept
<1>2. ASSUME SlotInv, WakeupsKept, [SlotNext]_slotVars
      PROVE  WakeupsKept'
  <2> USE <1>2
  <2>1. CASE CoordinatorCalls
    <3>1. ASSUME CommitReservation, phase \in {"serving", "draining"}
          PROVE  WakeupsKept'
      <4>1. UNCHANGED <<reaper, phase>> /\ (wakeup => wakeup')
        BY <3>1, Zenon DEF CommitReservation
      <4>2. ~retired.present /\ reaper # "stopped"
        BY <3>1 DEF CommitReservation, WakeupsKept
      <4>3. Reapable' => wakeup'
        <5>1. CASE current.references > 0 \/ current.set # NoSet
          <6>1. /\ retired'.references = current.references
                /\ wakeup' = (wakeup \/ current.references = 0)
            BY <3>1, <5>1 DEF CommitReservation
          <6> QED BY <6>1 DEF Reapable
        <5>2. CASE ~(current.references > 0 \/ current.set # NoSet)
          BY <3>1, <4>2, <5>2 DEF CommitReservation, Reapable
        <5> QED BY <5>1, <5>2
      <4>4. phase # "closing"
        BY <3>1
      <4> QED BY <4>1, <4>2, <4>3, <4>4 DEF WakeupsKept
    <3>2. ASSUME UNCHANGED <<retired, reaper, wakeup, phase>>
          PROVE  WakeupsKept'
      BY <3>2 DEF WakeupsKept, Reapable
    <3> QED BY <2>1, <3>1, <3>2 DEF CoordinatorCalls, ReserveReplacement, Prepare, Discard,
                                    CancelReservation, SetAcceptingRuns
  <2>2. CASE RunCalls
    <3>1. ASSUME NEW r \in Runs, Capture(r)
          PROVE  WakeupsKept'
      BY <3>1 DEF Capture, WakeupsKept, Reapable
    <3>2. ASSUME NEW r \in Runs, NEW s \in Generations, Release(r, s)
          PROVE  WakeupsKept'
      <4>1. retired \in [present : BOOLEAN, set : Generations, references : Nat]
        BY DEF SlotInv, SlotTypeOK
      <4>2. CASE current.set = s
        BY <3>2, <4>2 DEF Release, WakeupsKept, Reapable
      <4>3. CASE current.set # s
        <5>1. /\ retired'.present = retired.present
              /\ retired'.references = retired.references - 1
          BY <3>2, <4>1, <4>3 DEF Release
        <5>2. /\ wakeup' = (wakeup \/ retired.references = 1)
              /\ UNCHANGED <<reaper, phase>>
          BY <3>2, <4>3 DEF Release
        <5>3. retired.references \in Nat
          BY <4>1
        <5>4. Reapable' => retired.references = 1
          BY <5>1, <5>3 DEF Reapable
        <5> QED BY <5>2, <5>4 DEF WakeupsKept
      <4> QED BY <4>2, <4>3
    <3> QED BY <2>2, <3>1, <3>2 DEF RunCalls
  <2>3. CASE ReaperSteps
    <3>1. CASE ReaperWakes
      BY <3>1 DEF ReaperWakes, WakeupsKept, Reapable
    <3>2. CASE \E removed \in BOOLEAN : ReaperCleaned(removed)
      BY <3>2 DEF ReaperCleaned, WakeupsKept, Reapable, NoEntry
    <3> QED BY <2>3, <3>1, <3>2 DEF ReaperSteps
  <2>4. CASE ManagerShutdown
    BY <2>4 DEF ManagerShutdown, BeginDraining, CleanupCurrent, Close, WakeupsKept, Reapable
  <2>5. CASE ProcessStarts
    BY <2>5 DEF ProcessStarts, WakeupsKept
  <2>6. CASE UNCHANGED slotVars
    BY <2>6 DEF slotVars, WakeupsKept, Reapable
  <2> QED BY <2>1, <2>2, <2>3, <2>4, <2>5, <2>6 DEF SlotNext
<1> QED BY <1>1, <1>2, SlotInvariant, PTL DEF SlotSafety
=============================================================================
