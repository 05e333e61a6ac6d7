------------------------ MODULE SkillActivation_proofs ------------------------
(***************************************************************************)
(* Safety of SkillActivation and of the registry it extends, for any       *)
(* number of sets, Skills, revisions, requests, runs and process deaths.   *)
(*                                                                         *)
(* First the registry by itself (SkillRegistry); then the coordinator: it  *)
(* uses the registry and the slot as their modules say, and what it        *)
(* serves, calls ready and answers follows the pointer.                    *)
(***************************************************************************)
EXTENDS SkillActivation, Sequences, FiniteSetTheorems, TLAPS

SlotProofs == INSTANCE SkillGenerationSlot_proofs

-----------------------------------------------------------------------------
(* The registry by itself                                                  *)

\* No function of the registry writes a value outside its column's domain.
LEMMA RegistryTypesKept ==
  RegistryTypeOK /\ [RegistryNext]_registryVars => RegistryTypeOK'
<1> SUFFICES ASSUME RegistryTypeOK, [RegistryNext]_registryVars
             PROVE  RegistryTypeOK'
  OBVIOUS
<1> USE SkillOfAssumption DEF RegistryTypeOK
<1>1. ASSUME NEW r \in Revisions, UploadSkill(r) PROVE RegistryTypeOK'
  BY <1>1 DEF UploadSkill, setVars
<1>2. ASSUME NEW r \in Revisions, NEW expected \in Revisions,
             ReplaceRevision(r, expected)
      PROVE  RegistryTypeOK'
  BY <1>2 DEF ReplaceRevision, setVars
<1>3. ASSUME NEW k \in Skills, NEW expected \in Revisions,
             ArchiveSkill(k, expected)
      PROVE  RegistryTypeOK'
  BY <1>3 DEF ArchiveSkill, setVars
<1>4. ASSUME NEW s \in SetIds, NEW revisions \in SUBSET Revisions,
             NEW q \in Requests, CreateSet(s, revisions, q)
      PROVE  RegistryTypeOK'
  BY <1>4 DEF CreateSet, Record, Event, SetStates, libraryVars
<1>5. ASSUME NEW s \in SetIds, NEW q \in Requests, DiscardSet(s, q)
      PROVE  RegistryTypeOK'
  BY <1>5 DEF DiscardSet, Record, Event, SetStates, libraryVars
<1>6. ASSUME NEW s \in SetIds, NEW previous \in SetIds, NEW q \in Requests,
             ClonePrevious(s, pointer.version, previous, q)
      PROVE  RegistryTypeOK'
  BY <1>6 DEF ClonePrevious, Record, Event, SetStates, libraryVars
<1>7. ASSUME NEW s \in SetIds, NEW q \in Requests,
             Activate(s, pointer.version, q)
      PROVE  RegistryTypeOK'
  <2>1. pointer.version + 1 \in Nat /\ pointer.active \in SetIds \cup {NoSet}
    BY DEF Pointer
  <2>2. pointer' \in Pointer
    BY <1>7, <2>1 DEF Activate, Pointer
  <2>3. setState' \in [SetIds -> SetStates]
    BY <1>7 DEF Activate, SetStates
  <2>4. currentOf' \in [Skills -> Revisions \cup {NoRevision}]
    <3>1. items[s] \in SUBSET Revisions
      OBVIOUS
    <3> QED  BY <1>7, <3>1 DEF Activate
  <2>5. events' \in SUBSET Event
    BY <1>7, <2>1 DEF Activate, Record, Event
  <2> QED  BY <1>7, <2>2, <2>3, <2>4, <2>5 DEF Activate
<1>8. ASSUME NEW s \in SetIds, NEW q \in Requests,
             MarkFailed(s, pointer.version, q)
      PROVE  RegistryTypeOK'
  BY <1>8 DEF MarkFailed, Record, Event, SetStates, libraryVars
<1>9. CASE UNCHANGED registryVars
  BY <1>9 DEF registryVars
<1> QED
  BY <1>1, <1>2, <1>3, <1>4, <1>5, <1>6, <1>7, <1>8, <1>9 DEF RegistryNext

\* Types are preserved by every function of the registry.
THEOREM TypeCorrect == RegistrySpec => []RegistryTypeOK
<1>1. RegistryInit => RegistryTypeOK
  BY DEF RegistryInit, RegistryTypeOK, SetStates, Pointer
<1> QED  BY <1>1, RegistryTypesKept, PTL DEF RegistrySpec

-----------------------------------------------------------------------------
(* The pointer and the states of the sets                                  *)

\* What every step but an activation needs: the pointer stays, and no set
\* becomes active or stops being superseded.
LEMMA PointerKept ==
  ASSUME PointerMatchesStates, UNCHANGED pointer,
         \A t \in SetIds : setState'[t] = "active" <=> setState[t] = "active",
         \A t \in SetIds :
            setState[t] = "superseded" => setState'[t] = "superseded",
         pointer.previous \in SetIds \cup {NoSet}
  PROVE  PointerMatchesStates'
BY DEF PointerMatchesStates

\* The only active set is the pointed one and the previous one is
\* superseded, after any sequence of registry operations.
THEOREM PointerCorrect == RegistrySpec => []PointerMatchesStates
<1>1. RegistryInit => PointerMatchesStates
  BY DEF RegistryInit, PointerMatchesStates
<1>2. /\ RegistryTypeOK
      /\ PointerMatchesStates
      /\ [RegistryNext]_registryVars
      => PointerMatchesStates'
  <2> SUFFICES ASSUME RegistryTypeOK, PointerMatchesStates,
                      [RegistryNext]_registryVars
               PROVE  PointerMatchesStates'
    OBVIOUS
  <2>0. pointer.previous \in SetIds \cup {NoSet} /\ setState \in [SetIds -> SetStates]
    BY DEF RegistryTypeOK, Pointer
  <2>1. ASSUME UNCHANGED <<setState, pointer>> PROVE PointerMatchesStates'
    BY <2>1 DEF PointerMatchesStates
  <2>2. ASSUME NEW s \in SetIds, NEW state \in SetStates,
               setState[s] \in {"absent", "candidate"},
               state \notin {"active", "superseded"},
               setState' = [setState EXCEPT ![s] = state], UNCHANGED pointer
        PROVE  PointerMatchesStates'
    BY <2>0, <2>2, PointerKept
  <2>3. ASSUME NEW s \in SetIds, NEW q \in Requests,
               Activate(s, pointer.version, q)
        PROVE  PointerMatchesStates'
    <3>1. setState[s] = "candidate"
      BY <2>3 DEF Activate, ActivateConflict
    <3>2. s # NoSet /\ pointer.version \in Nat /\ pointer.active \in SetIds \cup {NoSet}
      BY NoSetAssumption DEF RegistryTypeOK, Pointer
    <3>3. /\ pointer'.active = s
          /\ pointer'.previous = pointer.active
          /\ pointer'.version = pointer.version + 1
      BY <2>3 DEF Activate
    <3>4. \A t \in SetIds : setState'[t] =
             IF t = s THEN "active"
             ELSE IF t = pointer.active THEN "superseded" ELSE setState[t]
      BY <2>3 DEF Activate
    <3>5. {t \in SetIds : setState'[t] = "active"} = {s}
      <4>1. \A t \in SetIds : setState[t] = "active" => t = pointer.active
        BY DEF PointerMatchesStates
      <4> QED  BY <3>4, <4>1
    <3>6. pointer'.previous # NoSet => setState'[pointer'.previous] = "superseded"
      <4>1. pointer.active # s
        BY <3>1, <3>2 DEF PointerMatchesStates
      <4> QED  BY <3>2, <3>3, <3>4, <4>1
    <3>7. pointer.active = NoSet <=> pointer.version = 0
      BY DEF PointerMatchesStates
    <3> QED  BY <3>2, <3>3, <3>5, <3>6, <3>7 DEF PointerMatchesStates
  <2>4. ASSUME NEW r \in Revisions, UploadSkill(r) PROVE PointerMatchesStates'
    BY <2>1, <2>4 DEF UploadSkill, setVars
  <2>5. ASSUME NEW r \in Revisions, NEW expected \in Revisions,
               ReplaceRevision(r, expected)
        PROVE  PointerMatchesStates'
    BY <2>1, <2>5 DEF ReplaceRevision, setVars
  <2>6. ASSUME NEW k \in Skills, NEW expected \in Revisions,
               ArchiveSkill(k, expected)
        PROVE  PointerMatchesStates'
    BY <2>1, <2>6 DEF ArchiveSkill, setVars
  <2>7. ASSUME NEW s \in SetIds, NEW revisions \in SUBSET Revisions,
               NEW q \in Requests, CreateSet(s, revisions, q)
        PROVE  PointerMatchesStates'
    BY <2>2, <2>7 DEF CreateSet, SetStates
  <2>8. ASSUME NEW s \in SetIds, NEW q \in Requests, DiscardSet(s, q)
        PROVE  PointerMatchesStates'
    BY <2>2, <2>8 DEF DiscardSet, SetStates
  <2>9. ASSUME NEW s \in SetIds, NEW previous \in SetIds, NEW q \in Requests,
               ClonePrevious(s, pointer.version, previous, q)
        PROVE  PointerMatchesStates'
    BY <2>2, <2>9 DEF ClonePrevious, SetStates
  <2>10. ASSUME NEW s \in SetIds, NEW q \in Requests,
                MarkFailed(s, pointer.version, q)
         PROVE  PointerMatchesStates'
    BY <2>2, <2>10 DEF MarkFailed, SetStates
  <2>11. CASE UNCHANGED registryVars
    BY <2>1, <2>11 DEF registryVars
  <2> QED
    BY <2>3, <2>4, <2>5, <2>6, <2>7, <2>8, <2>9, <2>10, <2>11 DEF RegistryNext
<1> QED  BY <1>1, <1>2, TypeCorrect, PTL DEF RegistrySpec

-----------------------------------------------------------------------------
(* What the Agent loads                                                    *)

\* No set holds two revisions of a Skill: create_agent_skill_set refuses it
\* and a clone copies a set that was created so.
OneRevisionPerSkill ==
  \A s \in SetIds : \A r1, r2 \in items[s] : SkillOf[r1] = SkillOf[r2] => r1 = r2

\* ActiveSetIsCurrent is not inductive: that the trigger points each Skill at
\* the revision of the set needs one revision per Skill, and that a new set
\* does not change the active one needs the pointer to agree with the states.
ActiveInv ==
  /\ RegistryTypeOK
  /\ PointerMatchesStates
  /\ OneRevisionPerSkill
  /\ ActiveSetIsCurrent

\* A new set is never the active one, whose items therefore stay.
LEMMA NewSetIsNotActive ==
  ASSUME RegistryTypeOK, PointerMatchesStates, NEW s \in SetIds,
         setState[s] = "absent",
         NEW revisions \in SUBSET Revisions,
         items' = [items EXCEPT ![s] = revisions],
         UNCHANGED <<pointer, libraryVars>>,
         ActiveSetIsCurrent, OneRevisionPerSkill,
         \A r1, r2 \in revisions : SkillOf[r1] = SkillOf[r2] => r1 = r2
  PROVE  ActiveSetIsCurrent' /\ OneRevisionPerSkill'
<1>1. pointer.active \in SetIds \cup {NoSet} /\ items \in [SetIds -> SUBSET Revisions]
  BY DEF RegistryTypeOK, Pointer
<1>2. pointer.active # s
  BY NoSetAssumption DEF PointerMatchesStates
<1>3. ActiveItems' = ActiveItems
  BY <1>1, <1>2 DEF ActiveItems
<1>4. \A r : Available(r)' <=> Available(r)
  BY DEF Available, libraryVars
<1>5. ActiveSetIsCurrent'
  BY <1>3, <1>4 DEF ActiveSetIsCurrent, libraryVars
<1>6. OneRevisionPerSkill'
  BY <1>1 DEF OneRevisionPerSkill
<1> QED  BY <1>5, <1>6

\* An upload, a replacement or an archive leaves the active set as it is and
\* touches only Skills that are not in it.
LEMMA LibraryStepKeepsActive ==
  ASSUME RegistryTypeOK, ActiveSetIsCurrent, OneRevisionPerSkill,
         UNCHANGED setVars, NEW k \in Skills, ~InActiveSet(k),
         uploaded \subseteq uploaded',
         \A j \in Skills \ {k} :
           listing'[j] = listing[j] /\ currentOf'[j] = currentOf[j]
  PROVE  ActiveSetIsCurrent' /\ OneRevisionPerSkill'
<1>1. ActiveItems' = ActiveItems /\ OneRevisionPerSkill'
  BY DEF ActiveItems, OneRevisionPerSkill, setVars
<1>2. ActiveItems \subseteq Revisions
  BY DEF ActiveItems, RegistryTypeOK, Pointer
<1>3. \A r \in ActiveItems : SkillOf[r] \in Skills \ {k}
  BY <1>2, SkillOfAssumption DEF InActiveSet
<1> QED  BY <1>1, <1>3 DEF ActiveSetIsCurrent, Available

\* The set the Agent loads holds only published revisions of listed Skills,
\* and the library shows exactly those revisions, however uploads, archives,
\* discards, rollbacks and activations are ordered.
THEOREM ActiveCorrect == RegistrySpec => []ActiveSetIsCurrent
<1>1. RegistryInit => ActiveInv
  <2>1. RegistryInit => OneRevisionPerSkill /\ ActiveSetIsCurrent
    BY DEF RegistryInit, OneRevisionPerSkill, ActiveSetIsCurrent, ActiveItems
  <2>2. RegistryInit => RegistryTypeOK /\ PointerMatchesStates
    BY DEF RegistryInit, RegistryTypeOK, SetStates, Pointer, PointerMatchesStates
  <2> QED  BY <2>1, <2>2 DEF ActiveInv
<1>2. /\ ActiveInv /\ [RegistryNext]_registryVars
      => OneRevisionPerSkill' /\ ActiveSetIsCurrent'
  <2> SUFFICES ASSUME ActiveInv, [RegistryNext]_registryVars
               PROVE  OneRevisionPerSkill' /\ ActiveSetIsCurrent'
    OBVIOUS
  <2> USE DEF ActiveInv
  <2>1. ASSUME UNCHANGED <<libraryVars, items, pointer>>
        PROVE  OneRevisionPerSkill' /\ ActiveSetIsCurrent'
    BY <2>1 DEF OneRevisionPerSkill, ActiveSetIsCurrent, ActiveItems, Available,
                libraryVars
  <2>2. ASSUME NEW r \in Revisions, UploadSkill(r)
        PROVE  OneRevisionPerSkill' /\ ActiveSetIsCurrent'
    <3>1. SkillOf[r] \in Skills /\ listing[SkillOf[r]] = "absent"
      BY <2>2, SkillOfAssumption DEF UploadSkill
    <3>2. ~InActiveSet(SkillOf[r])
      BY <3>1 DEF InActiveSet, ActiveSetIsCurrent, Available
    <3> QED  BY <2>2, <3>1, <3>2, LibraryStepKeepsActive DEF UploadSkill, RegistryTypeOK
  <2>3. ASSUME NEW r \in Revisions, NEW expected \in Revisions,
               ReplaceRevision(r, expected)
        PROVE  OneRevisionPerSkill' /\ ActiveSetIsCurrent'
    <3>1. SkillOf[r] \in Skills
      BY SkillOfAssumption
    <3>2. CASE ~InActiveSet(SkillOf[r])
      BY <2>3, <3>1, <3>2, LibraryStepKeepsActive
         DEF ReplaceRevision, RegistryTypeOK
    <3>3. CASE InActiveSet(SkillOf[r])
      BY <2>3, <3>3
         DEF ReplaceRevision, OneRevisionPerSkill, ActiveSetIsCurrent, ActiveItems,
             Available, setVars
    <3> QED  BY <3>2, <3>3
  <2>4. ASSUME NEW k \in Skills, NEW expected \in Revisions,
               ArchiveSkill(k, expected)
        PROVE  OneRevisionPerSkill' /\ ActiveSetIsCurrent'
    BY <2>4, LibraryStepKeepsActive DEF ArchiveSkill, RegistryTypeOK
  <2>5. ASSUME NEW s \in SetIds, NEW revisions \in SUBSET Revisions,
               NEW q \in Requests, CreateSet(s, revisions, q)
        PROVE  OneRevisionPerSkill' /\ ActiveSetIsCurrent'
    BY <2>5, NewSetIsNotActive DEF CreateSet
  <2>6. ASSUME NEW s \in SetIds, NEW q \in Requests, DiscardSet(s, q)
        PROVE  OneRevisionPerSkill' /\ ActiveSetIsCurrent'
    BY <2>1, <2>6 DEF DiscardSet
  <2>7. ASSUME NEW s \in SetIds, NEW previous \in SetIds, NEW q \in Requests,
               ClonePrevious(s, pointer.version, previous, q)
        PROVE  OneRevisionPerSkill' /\ ActiveSetIsCurrent'
    <3>1. items[previous] \in SUBSET Revisions
      BY DEF RegistryTypeOK
    <3>2. \A r1, r2 \in items[previous] : SkillOf[r1] = SkillOf[r2] => r1 = r2
      BY DEF OneRevisionPerSkill
    <3> QED  BY <2>7, <3>1, <3>2, NewSetIsNotActive DEF ClonePrevious
  <2>8. ASSUME NEW s \in SetIds, NEW q \in Requests,
               Activate(s, pointer.version, q)
        PROVE  OneRevisionPerSkill' /\ ActiveSetIsCurrent'
    <3>1. items[s] \in SUBSET Revisions /\ currentOf \in [Skills -> Revisions \cup {NoRevision}]
      BY DEF RegistryTypeOK
    <3>2. ActiveItems' = items[s]
      BY <2>8, NoSetAssumption DEF Activate, ActiveItems
    <3>3. ASSUME NEW r \in items[s]
          PROVE  Available(r)' /\ currentOf'[SkillOf[r]] = r
      <4>1. SkillOf[r] \in Skills
        BY <3>1, SkillOfAssumption
      <4>2. \A t \in items[s] : SkillOf[t] = SkillOf[r] => t = r
        BY DEF OneRevisionPerSkill
      <4>3. (CHOOSE t \in items[s] : SkillOf[t] = SkillOf[r]) = r
        BY <4>2
      <4>4. currentOf'[SkillOf[r]] = CHOOSE t \in items[s] : SkillOf[t] = SkillOf[r]
        BY <2>8, <4>1 DEF Activate
      <4>5. Available(r)'
        BY <2>8 DEF Activate, ActivateInvalid, Available
      <4> QED  BY <4>3, <4>4, <4>5
    <3>4. OneRevisionPerSkill'
      BY <2>8 DEF Activate, OneRevisionPerSkill
    <3> QED  BY <3>2, <3>3, <3>4 DEF ActiveSetIsCurrent
  <2>9. ASSUME NEW s \in SetIds, NEW q \in Requests,
               MarkFailed(s, pointer.version, q)
        PROVE  OneRevisionPerSkill' /\ ActiveSetIsCurrent'
    BY <2>1, <2>9 DEF MarkFailed
  <2>10. CASE UNCHANGED registryVars
    BY <2>1, <2>10 DEF registryVars, libraryVars
  <2> QED
    BY <2>2, <2>3, <2>4, <2>5, <2>6, <2>7, <2>8, <2>9, <2>10 DEF RegistryNext
<1> QED  BY <1>1, <1>2, TypeCorrect, PointerCorrect, PTL DEF RegistrySpec, ActiveInv
-----------------------------------------------------------------------------
(* The event log                                                           *)

\* The events that end the life of a set as a candidate.
Ending == {"activate", "fail", "discard"}
EndsOf(s) == {e \in events : e.target = s /\ e.action \in Ending}
EndedBy(s, action) == \E e : EndsOf(s) = {e} /\ e.action = action

Activations == {e.version : e \in {f \in events : f.action = "activate"}}

\* EventsExplainStates without cardinalities.  That the set an activation
\* supersedes was activated itself needs the pointer to agree with the states.
EventsInv ==
  /\ \A s \in SetIds :
       /\ setState[s] \in {"absent", "candidate"} => EndsOf(s) = {}
       /\ setState[s] \in {"active", "superseded"} => EndedBy(s, "activate")
       /\ setState[s] = "failed" => EndedBy(s, "fail")
       /\ setState[s] = "discarded" => EndedBy(s, "discard")
  /\ Activations = 1..pointer.version

\* What one event more changes.
LEMMA EventRecorded ==
  ASSUME NEW action, NEW s, NEW q, NEW v, Record(action, s, q, v)
  PROVE  /\ \A t : t # s => EndsOf(t)' = EndsOf(t)
         /\ action \notin Ending => EndsOf(s)' = EndsOf(s)
         /\ action \in Ending /\ EndsOf(s) = {} => EndedBy(s, action)'
         /\ Activations' = IF action = "activate" THEN Activations \cup {v}
                           ELSE Activations
<1> DEFINE new == [action |-> action, target |-> s, request |-> q, version |-> v]
<1>1. events' = events \cup {new}
  BY DEF Record
<1>2. new.action = action /\ new.target = s /\ new.version = v
  OBVIOUS
<1> HIDE DEF new
<1>3. \A t : t # s => EndsOf(t)' = EndsOf(t)
  BY <1>1, <1>2 DEF EndsOf
<1>4. action \notin Ending => EndsOf(s)' = EndsOf(s)
  BY <1>1, <1>2 DEF EndsOf
<1>5. action \in Ending /\ EndsOf(s) = {} => EndedBy(s, action)'
  <2> SUFFICES ASSUME action \in Ending, EndsOf(s) = {} PROVE EndsOf(s)' = {new}
    BY <1>2 DEF EndedBy
  <2> QED  BY <1>1, <1>2 DEF EndsOf
<1>6. Activations' = IF action = "activate" THEN Activations \cup {v} ELSE Activations
  BY <1>1, <1>2 DEF Activations
<1> QED  BY <1>3, <1>4, <1>5, <1>6

\* A set that leaves the state of a candidate with the event that says so.
LEMMA CandidateEnds ==
  ASSUME RegistryTypeOK, EventsInv, NEW s \in SetIds, NEW q, NEW action,
         setState[s] = "candidate",
         Record(action, s, q, 0), UNCHANGED pointer,
         \/ action = "fail" /\ setState' = [setState EXCEPT ![s] = "failed"]
         \/ action = "discard" /\ setState' = [setState EXCEPT ![s] = "discarded"]
  PROVE  EventsInv'
<1>1. EndsOf(s) = {} /\ setState \in [SetIds -> SetStates]
  BY DEF EventsInv, RegistryTypeOK
<1>2. /\ \A t : t # s => EndsOf(t)' = EndsOf(t)
      /\ EndedBy(s, action)'
      /\ Activations' = Activations
  BY <1>1, EventRecorded DEF Ending
<1>3. \A t, a : t # s => (EndedBy(t, a)' <=> EndedBy(t, a))
  BY <1>2 DEF EndedBy
<1>4. \A t \in SetIds : t # s => setState'[t] = setState[t]
  BY <1>1
<1>5. \/ action = "fail" /\ setState'[s] = "failed"
      \/ action = "discard" /\ setState'[s] = "discarded"
  BY <1>1
<1>6. Activations' = 1..pointer'.version
  BY <1>2 DEF EventsInv
<1> QED  BY <1>2, <1>3, <1>4, <1>5, <1>6 DEF EventsInv

\* A new candidate, with an event that ends nothing.
LEMMA CandidateMade ==
  ASSUME RegistryTypeOK, EventsInv, NEW s \in SetIds, NEW q, NEW action,
         setState[s] = "absent", action \in {"create", "clone"},
         Record(action, s, q, 0), UNCHANGED pointer,
         setState' = [setState EXCEPT ![s] = "candidate"]
  PROVE  EventsInv'
<1>1. EndsOf(s) = {} /\ setState \in [SetIds -> SetStates]
  BY DEF EventsInv, RegistryTypeOK
<1>2. (\A t : EndsOf(t)' = EndsOf(t)) /\ Activations' = Activations
  BY EventRecorded DEF Ending
<1>3. \A t, a : EndedBy(t, a)' <=> EndedBy(t, a)
  BY <1>2 DEF EndedBy
<1>4. \A t \in SetIds : setState'[t] = IF t = s THEN "candidate" ELSE setState[t]
  BY <1>1
<1> QED  BY <1>1, <1>2, <1>3, <1>4 DEF EventsInv

\* The activation of a candidate supersedes the active set and adds the next
\* version.
LEMMA ActivationLogged ==
  ASSUME RegistryTypeOK, PointerMatchesStates, EventsInv,
         NEW s \in SetIds, NEW q, Activate(s, pointer.version, q)
  PROVE  EventsInv'
<1>1. /\ setState[s] = "candidate"
      /\ Record("activate", s, q, pointer.version + 1)
      /\ pointer'.version = pointer.version + 1
      /\ pointer.version \in Nat
  BY DEF Activate, ActivateConflict, RegistryTypeOK, Pointer
<1>2. /\ \A t : t # s => EndsOf(t)' = EndsOf(t)
      /\ EndedBy(s, "activate")'
      /\ Activations' = Activations \cup {pointer.version + 1}
  BY <1>1, EventRecorded DEF EventsInv, Ending
<1>3. \A t, a : t # s => (EndedBy(t, a)' <=> EndedBy(t, a))
  BY <1>2 DEF EndedBy
<1>4. \A t \in SetIds :
        /\ t = s => setState'[t] = "active"
        /\ t # s /\ t = pointer.active =>
             setState[t] = "active" /\ setState'[t] = "superseded"
        /\ t # s /\ t # pointer.active => setState'[t] = setState[t]
  <2>1. \A t \in SetIds : t = pointer.active => setState[t] = "active"
    BY NoSetAssumption DEF PointerMatchesStates
  <2> QED  BY <2>1 DEF Activate
<1>5. Activations' = 1..pointer'.version
  <2>1. Activations = 1..pointer.version
    BY DEF EventsInv
  <2> QED  BY <1>1, <1>2, <2>1
<1>6. ASSUME NEW t \in SetIds, t # s
      PROVE  /\ setState'[t] \in {"absent", "candidate"} => EndsOf(t)' = {}
             /\ setState'[t] \in {"active", "superseded"} => EndedBy(t, "activate")'
             /\ setState'[t] = "failed" => EndedBy(t, "fail")'
             /\ setState'[t] = "discarded" => EndedBy(t, "discard")'
  BY <1>2, <1>3, <1>4, <1>6 DEF EventsInv
<1> QED  BY <1>2, <1>4, <1>5, <1>6 DEF EventsInv

\* The inductive invariant of the log.
THEOREM LogInvariant == RegistrySpec => []EventsInv
<1>1. RegistryInit => EventsInv
  <2> SUFFICES ASSUME RegistryInit PROVE EventsInv
    OBVIOUS
  <2>1. (\A s : EndsOf(s) = {}) /\ Activations = {}
    BY DEF RegistryInit, EndsOf, Activations
  <2>2. 1..pointer.version = {}
    BY DEF RegistryInit
  <2> QED  BY <2>1, <2>2 DEF RegistryInit, EventsInv
<1>2. /\ RegistryTypeOK /\ PointerMatchesStates /\ EventsInv
      /\ [RegistryNext]_registryVars
      => EventsInv'
  <2> SUFFICES ASSUME RegistryTypeOK, PointerMatchesStates, EventsInv,
                      [RegistryNext]_registryVars
               PROVE  EventsInv'
    OBVIOUS
  <2>1. ASSUME UNCHANGED setVars PROVE EventsInv'
    BY <2>1 DEF EventsInv, EndedBy, EndsOf, Activations, setVars
  <2>2. ASSUME NEW r \in Revisions, UploadSkill(r) PROVE EventsInv'
    BY <2>1, <2>2 DEF UploadSkill
  <2>3. ASSUME NEW r \in Revisions, NEW expected \in Revisions,
               ReplaceRevision(r, expected)
        PROVE  EventsInv'
    BY <2>1, <2>3 DEF ReplaceRevision
  <2>4. ASSUME NEW k \in Skills, NEW expected \in Revisions,
               ArchiveSkill(k, expected)
        PROVE  EventsInv'
    BY <2>1, <2>4 DEF ArchiveSkill
  <2>5. ASSUME NEW s \in SetIds, NEW revisions \in SUBSET Revisions,
               NEW q \in Requests, CreateSet(s, revisions, q)
        PROVE  EventsInv'
    BY <2>5, CandidateMade DEF CreateSet
  <2>6. ASSUME NEW s \in SetIds, NEW q \in Requests, DiscardSet(s, q)
        PROVE  EventsInv'
    BY <2>6, CandidateEnds DEF DiscardSet
  <2>7. ASSUME NEW s \in SetIds, NEW previous \in SetIds, NEW q \in Requests,
               ClonePrevious(s, pointer.version, previous, q)
        PROVE  EventsInv'
    BY <2>7, CandidateMade DEF ClonePrevious
  <2>8. ASSUME NEW s \in SetIds, NEW q \in Requests,
               Activate(s, pointer.version, q)
        PROVE  EventsInv'
    BY <2>8, ActivationLogged
  <2>9. ASSUME NEW s \in SetIds, NEW q \in Requests,
               MarkFailed(s, pointer.version, q)
        PROVE  EventsInv'
    BY <2>9, CandidateEnds DEF MarkFailed
  <2>10. CASE UNCHANGED registryVars
    BY <2>1, <2>10 DEF registryVars, setVars
  <2> QED
    BY <2>2, <2>3, <2>4, <2>5, <2>6, <2>7, <2>8, <2>9, <2>10 DEF RegistryNext
<1> QED  BY <1>1, <1>2, TypeCorrect, PointerCorrect, PTL DEF RegistrySpec

\* The event log tells how each set ended, exactly once, and numbers the
\* activations without gaps: what an unknown commit is reconciled against.
THEOREM EventsCorrect == RegistrySpec => []EventsExplainStates
<1>1. RegistryTypeOK /\ EventsInv => EventsExplainStates
  <2> SUFFICES ASSUME RegistryTypeOK, EventsInv PROVE EventsExplainStates
    OBVIOUS
  <2>1. \A s, action : EndedBy(s, action) =>
          Cardinality(EndsOf(s)) = 1 /\ \A e \in EndsOf(s) : e.action = action
    BY FS_Singleton DEF EndedBy
  <2>2. \A s \in SetIds : setState[s] \in SetStates
    BY DEF RegistryTypeOK
  <2> QED
    BY <2>1, <2>2 DEF EventsInv, EventsExplainStates, EndsOf, Ending, Activations,
                      SetStates
<1> QED  BY <1>1, TypeCorrect, LogInvariant, PTL

-----------------------------------------------------------------------------
(* The abstract log of activations                                         *)

\* An event that is no activation leaves the log as it is.
LEMMA OtherEventsAreSilent ==
  ASSUME NEW action, NEW s, NEW q, NEW v, Record(action, s, q, v),
         action # "activate", UNCHANGED pointer
  PROVE  UNCHANGED [i \in 1..pointer.version |-> ActivatedAt(i)]
<1> SUFFICES \A i : ActivatedAt(i)' = ActivatedAt(i)
  OBVIOUS
<1>1. ASSUME NEW i, NEW t
      PROVE  (\E e \in events' : e.action = "activate" /\ e.version = i /\ e.target = t)
               <=> (\E e \in events : e.action = "activate" /\ e.version = i /\ e.target = t)
  BY DEF Record
<1> QED  BY <1>1 DEF ActivatedAt

\* An activation appends its set, which no earlier activation was of.
LEMMA ActivationAppends ==
  ASSUME RegistryTypeOK, EventsInv, NEW s \in SetIds, NEW q,
         Activate(s, pointer.version, q)
  PROVE  Log!LogActivate(s)
<1>0. PICK v \in Nat : v = pointer.version
  BY DEF RegistryTypeOK, Pointer
<1> DEFINE logged == [i \in 1..v |-> ActivatedAt(i)]
           Logged(i, t) == \E e \in events :
              e.action = "activate" /\ e.version = i /\ e.target = t
<1>1. /\ pointer'.version = v + 1
      /\ events' = events \cup {[action |-> "activate", target |-> s, request |-> q,
                                version |-> v + 1]}
      /\ setState[s] = "candidate"
  BY <1>0 DEF Activate, ActivateConflict, Record
<1>2. \A i \in 1..v : \E t \in SetIds : Logged(i, t)
  <2> SUFFICES ASSUME NEW i \in 1..v PROVE \E t \in SetIds : Logged(i, t)
    OBVIOUS
  <2>1. i \in Activations
    BY <1>0 DEF EventsInv
  <2>2. PICK e \in events : e.action = "activate" /\ e.version = i
    BY <2>1 DEF Activations
  <2> QED  BY <2>2 DEF RegistryTypeOK, Event
<1>3. \A i \in 1..v : ActivatedAt(i) \in SetIds /\ Logged(i, ActivatedAt(i))
  BY <1>2 DEF ActivatedAt
<1>4. \A i \in 1..v : ActivatedAt(i) # s
  <2>1. \A i : ~Logged(i, s)
    BY <1>1 DEF EventsInv, EndsOf, Ending
  <2> QED  BY <1>3, <2>1
<1>5. \A i \in 1..v : ActivatedAt(i)' = ActivatedAt(i)
  <2> SUFFICES ASSUME NEW i \in 1..v PROVE ActivatedAt(i)' = ActivatedAt(i)
    OBVIOUS
  <2>1. ASSUME NEW t
        PROVE  (\E e \in events' : e.action = "activate" /\ e.version = i /\ e.target = t)
                 <=> Logged(i, t)
    BY <1>1
  <2> QED  BY <2>1 DEF ActivatedAt
<1>6. ActivatedAt(v + 1)' = s
  <2>1. \A t : ~Logged(v + 1, t)
    <3>1. v + 1 \notin Activations
      BY <1>0 DEF EventsInv
    <3> QED  BY <3>1 DEF Activations
  <2>2. ASSUME NEW t
        PROVE  (\E e \in events' : e.action = "activate" /\ e.version = v + 1 /\ e.target = t)
                 <=> t = s
    <3> DEFINE new == [action |-> "activate", target |-> s, request |-> q,
                       version |-> v + 1]
    <3>1. events' = events \cup {new}
      BY <1>1
    <3>2. new.action = "activate" /\ new.target = s /\ new.version = v + 1
      OBVIOUS
    <3> HIDE DEF new
    <3> QED  BY <2>1, <3>1, <3>2
  <2> QED  BY <2>2 DEF ActivatedAt
<1>7. [i \in 1..pointer.version |-> ActivatedAt(i)]' = Append(logged, s)
  <2>1. logged \in Seq(SetIds) /\ Len(logged) = v
    BY <1>3
  <2>2. [i \in 1..pointer.version |-> ActivatedAt(i)]' =
          [i \in 1..(v + 1) |-> ActivatedAt(i)']
    BY <1>1
  <2>3. Append(logged, s) = [i \in 1..(v + 1) |-> IF i = v + 1 THEN s ELSE logged[i]]
    BY <2>1
  <2>4. \A i \in 1..(v + 1) :
          ActivatedAt(i)' = IF i = v + 1 THEN s ELSE logged[i]
    BY <1>5, <1>6
  <2> QED  BY <2>2, <2>3, <2>4
<1>8. DOMAIN logged = 1..v
  OBVIOUS
<1> QED  BY <1>0, <1>4, <1>7, <1>8 DEF Log!LogActivate

\* The registry, with its tables, commands and events, implements the log: no
\* set is activated twice, and one activation follows the other.
THEOREM RegistryImplementsLog == RegistrySpec => ImplementsActivationLog
<1>1. RegistryInit => Log!LogInit
  BY DEF RegistryInit, Log!LogInit
<1>2. /\ RegistryTypeOK /\ EventsInv /\ [RegistryNext]_registryVars
      => [Log!LogNext]_([i \in 1..pointer.version |-> ActivatedAt(i)])
  <2> SUFFICES ASSUME RegistryTypeOK, EventsInv, [RegistryNext]_registryVars
               PROVE  \/ Log!LogNext
                      \/ UNCHANGED [i \in 1..pointer.version |-> ActivatedAt(i)]
    OBVIOUS
  <2>1. ASSUME UNCHANGED <<events, pointer>>
        PROVE  UNCHANGED [i \in 1..pointer.version |-> ActivatedAt(i)]
    BY <2>1 DEF ActivatedAt
  <2>2. ASSUME UNCHANGED pointer, NEW s, NEW q,
               \E action \in {"create", "discard", "clone", "fail"} : Record(action, s, q, 0)
        PROVE  UNCHANGED [i \in 1..pointer.version |-> ActivatedAt(i)]
    BY <2>2, OtherEventsAreSilent
  <2>3. ASSUME NEW s \in SetIds, NEW q \in Requests,
               Activate(s, pointer.version, q)
        PROVE  Log!LogNext
    BY <2>3, ActivationAppends DEF Log!LogNext
  <2>4. CASE \/ \E r \in Revisions : UploadSkill(r)
             \/ \E r, expected \in Revisions : ReplaceRevision(r, expected)
             \/ \E k \in Skills, expected \in Revisions : ArchiveSkill(k, expected)
             \/ UNCHANGED registryVars
    BY <2>1, <2>4 DEF UploadSkill, ReplaceRevision, ArchiveSkill, setVars, registryVars
  <2>5. CASE \/ \E s \in SetIds, revisions \in SUBSET Revisions, q \in Requests :
                  CreateSet(s, revisions, q)
             \/ \E s \in SetIds, q \in Requests : DiscardSet(s, q)
             \/ \E s, previous \in SetIds, q \in Requests :
                  ClonePrevious(s, pointer.version, previous, q)
             \/ \E s \in SetIds, q \in Requests : MarkFailed(s, pointer.version, q)
    BY <2>2, <2>5 DEF CreateSet, DiscardSet, ClonePrevious, MarkFailed
  <2> QED  BY <2>3, <2>4, <2>5 DEF RegistryNext
<1> QED
  BY <1>1, <1>2, TypeCorrect, LogInvariant, PTL
     DEF RegistrySpec, ImplementsActivationLog, Log!LogSpec

-----------------------------------------------------------------------------
(* The inductive invariant                                                 *)

Lived(s) == setState[s] \in {"active", "superseded"}

\* Where an operation stands with respect to its commit.
Uncommitted == {"candidate", "preparing", "abandoned", "marking", "committing"}
Unknown == {"reconciling", "failing"}
CleanUpOfCommand == op.step = "cleanup" /\ op.finish # "degrade"
CommandRuns == op.step \in {"loading", "applied"} \cup Uncommitted \cup Unknown
               \/ CleanUpOfCommand

\* The pointer as the activation in progress would leave it.
NextPointer == [active |-> op.set, previous |-> op.active.active,
                version |-> op.version + 1]

Undecided == {"waiting", "timeout", "unknown"}
Refusals == {"degraded", "conflict", "busy", "invalid", "storage"}

Operation ==
  [step: Steps, set: Slot!Generations, version: Nat, active: Snapshot,
   reopen: BOOLEAN, finish: {"keep", "restore", "degrade"}, code: Answers]

\* What is written in op: the types, the operation's set, and that the slot is
\* closed to the coordinator only when no operation is left.
OperationInv ==
  /\ op \in Operation
  /\ answer \in [SetIds -> Answers]
  /\ inFlight \in Slot!Generations
  /\ restarts \in 0..MaxRestarts
  /\ op.step \notin {"idle", "restoring"} => op.set \in SetIds
  /\ op.step # "idle" => phase \in {"serving", "draining"}
  /\ op.step = "restoring" => ~reservation
  /\ Restoring => phase = "serving"
  /\ accepting => phase = "serving"

\* The snapshot an operation took of the pointer is still true, or the pointer
\* has moved exactly as the operation wanted.
SnapshotInv ==
  /\ op.step \in {"applied"} \cup Uncommitted \cup Unknown \/ CleanUpOfCommand =>
       current.set = op.active.active
  /\ op.step \in {"applied"} \cup Uncommitted \cup Unknown =>
       op.version = op.active.version
  /\ op.step \in Uncommitted \/ CleanUpOfCommand =>
       pointer = op.active /\ ~Lived(op.set)
  /\ op.step = "loading" => op.active = NoSnapshot /\ ~Lived(op.set)
  /\ op.step = "applied" => pointer = NextPointer /\ setState[op.set] = "active"
  /\ op.step \in Unknown =>
       \/ pointer = op.active /\ ~Lived(op.set)
       \/ pointer = NextPointer /\ setState[op.set] = "active"
  /\ op.step \in {"restoreCommit", "committing", "applied"} \cup Unknown =>
       prepared = op.set
  /\ op.step = "restoring" => current.set = NoSet
  /\ op.step \in {"restorePrepare", "restoreCommit"} =>
       pointer = op.active /\ op.set = pointer.active
  /\ op.step = "cleanup" =>
       /\ op.code \in {"none", "invalid", "timeout", "conflict", "unknown"}
       /\ op.code = "none" <=> op.finish = "degrade"
       /\ op.finish = "degrade" => ~op.reopen

\* A COMMIT that is on its way is of a candidate whose caller knows nothing
\* for certain, in a process that admits no other command.
InFlightInv ==
  inFlight # NoSet =>
    /\ setState[inFlight] = "candidate"
    /\ answer[inFlight] \in Undecided
    /\ ~accepting
    /\ \/ op.step = "idle" /\ status.capability = "degraded"
       \/ op.step = "restoring"
       \/ op.step \in Unknown /\ op.set = inFlight

\* Runs are let in on the generation the pointer names, and on none while a
\* process restores or does not know how a commit ended.
AcceptInv ==
  /\ Restoring \/ op.step \in Unknown => ~accepting
  /\ accepting /\ op.step # "applied" => current.set = pointer.active

\* What the status says outside of a commit.
ReadyInv ==
  /\ op.step \in Unknown => status.capability = "degraded"
  /\ op.step = "loading" => current.set = pointer.active
  /\ op.step \in {"idle", "loading"} \cup Uncommitted \/ CleanUpOfCommand =>
       /\ status.capability # "degraded" => current.set = pointer.active
       /\ IsReady => status.version = pointer.version

\* What callers were told.
AnswerInv ==
  /\ CommandRuns => answer[op.set] \in Undecided
  /\ \A s \in SetIds :
       /\ answer[s] = "ok" => Lived(s)
       /\ answer[s] \in Refusals => ~Lived(s)
       /\ Lived(s) => answer[s] # "none"

\* Where the operation stands, without the answers and the runs.
StandingInv == SnapshotInv /\ InFlightInv /\ AcceptInv /\ ReadyInv

-----------------------------------------------------------------------------
(* The operation                                                           *)

\* What the operation keeps of its command while it goes from step to step.
SameCommand ==
  /\ op'.set = op.set
  /\ op'.version = op.version
  /\ op'.active = op.active

\* A step on, with all else as it was.
LEMMA GotoKeeps ==
  ASSUME op \in Operation, NEW step \in Steps, Goto(step)
  PROVE  op' \in Operation /\ op'.step = step /\ op'.finish = op.finish /\ SameCommand
BY DEF Goto, Operation, SameCommand

\* The cleanup keeps the command and notes how it ends.
LEMMA CleanUpKeeps ==
  ASSUME op \in Operation, NEW reopen \in BOOLEAN,
         NEW finish \in {"keep", "restore", "degrade"}, NEW code \in Answers,
         CleanUp(reopen, finish, code)
  PROVE  /\ op' \in Operation /\ op'.step = "cleanup" /\ SameCommand
         /\ op'.reopen = reopen /\ op'.finish = finish /\ op'.code = code
BY DEF CleanUp, Operation, SameCommand, Steps

\* The lock is free.
LEMMA IdleTyped ==
  Idle \in Operation /\ Idle.step = "idle" /\ Idle.finish = "keep" /\ Idle.set = NoSet
BY DEF Idle, Operation, Steps, Slot!Generations, Snapshot, Pointer, NoSnapshot, Answers

\* The operation that restores.
LEMMA RestoreTyped ==
  /\ [Idle EXCEPT !.step = "restoring"] \in Operation
  /\ [Idle EXCEPT !.step = "restoring"].step = "restoring"
BY IdleTyped DEF Operation, Steps

\* The operation of a command.
LEMMA AdmitTyped ==
  ASSUME NEW s \in SetIds, NEW version \in Nat,
         op' = [Idle EXCEPT !.step = "loading", !.set = s, !.version = version]
  PROVE  op' \in Operation /\ op'.step = "loading" /\ op'.set = s
BY IdleTyped DEF Operation, Steps, Slot!Generations

\* Telling a caller.
LEMMA TellTyped ==
  ASSUME answer \in [SetIds -> Answers], NEW s, NEW code \in Answers, Tell(s, code)
  PROVE  answer' \in [SetIds -> Answers]
BY DEF Tell

\* No call of the coordinator but the restore lets runs in while the manager
\* drains, and none drains.
LEMMA SlotCallsKeepPhase ==
  ASSUME accepting => phase = "serving", NEW s, NEW value \in BOOLEAN,
         \/ Slot!ReserveReplacement
         \/ Slot!Prepare(s)
         \/ Slot!Discard(value)
         \/ Slot!CancelReservation(value)
         \/ Slot!CommitReservation
         \/ Slot!SetAcceptingRuns(FALSE)
         \/ UNCHANGED slotVars
  PROVE  UNCHANGED phase /\ (accepting' => phase = "serving")
<1>1. CASE Slot!CancelReservation(value)
  BY <1>1 DEF Slot!CancelReservation
<1>2. CASE Slot!CommitReservation
  BY <1>2 DEF Slot!CommitReservation
<1>3. CASE Slot!ReserveReplacement \/ Slot!Prepare(s) \/ Slot!Discard(value)
             \/ Slot!SetAcceptingRuns(FALSE) \/ UNCHANGED slotVars
  BY <1>3 DEF Slot!ReserveReplacement, Slot!Prepare, Slot!Discard,
              Slot!SetAcceptingRuns, slotVars
<1> QED  BY <1>1, <1>2, <1>3

\* What is left to show once the new operation is known.
LEMMA OperationBuilt ==
  ASSUME OperationInv, op' \in Operation, answer' \in [SetIds -> Answers],
         inFlight' \in Slot!Generations, UNCHANGED <<restarts, phase>>,
         op'.step = "idle" \/ (op.step # "idle" /\ op'.set \in SetIds),
         op'.step # "restoring", Restoring' => Restoring,
         accepting' => phase = "serving"
  PROVE  OperationInv'
BY DEF OperationInv, Restoring

-----------------------------------------------------------------------------
(* The operation and its phase                                             *)

\* No step of the restore, an activation or the rest breaks OperationInv.
LEMMA OperationKept ==
  RegistryTypeOK /\ OperationInv /\ [ActivationNext]_vars => OperationInv'
<1> SUFFICES ASSUME RegistryTypeOK, OperationInv, [ActivationNext]_vars
             PROVE  OperationInv'
  OBVIOUS
<1>0. /\ pointer \in Snapshot /\ NoSnapshot \in Snapshot
      /\ pointer.active \in Slot!Generations
  BY DEF RegistryTypeOK, Snapshot, Pointer, NoSnapshot, Slot!Generations
<1> USE DEF OperationInv
<1>1. ASSUME NEW s \in SetIds, NEW version \in 0..pointer.version, Admit(s, version)
      PROVE  OperationInv'
  <2>1. version \in Nat
    BY DEF RegistryTypeOK, Pointer
  <2>2. op' \in Operation /\ op'.step = "loading" /\ op'.set = s
    BY <1>1, <2>1, AdmitTyped DEF Admit
  <2>3. answer' \in [SetIds -> Answers]
    BY <1>1 DEF Admit, Answers
  <2> QED
    BY <1>1, <2>2, <2>3 DEF Admit, Restoring, slotVars
<1>2. CASE RestoreLoads
  <2>1. CASE pointer.active = NoSet
    BY <1>2, <2>1, IdleTyped
       DEF RestoreLoads, Slot!SetAcceptingRuns, Release, Restoring
  <2>2. CASE pointer.active # NoSet
    <3>1. /\ op' \in Operation /\ op'.step = "restorePrepare"
          /\ op'.set = pointer.active /\ op'.set \in SetIds
      BY <1>0, <1>2, <2>2 DEF RestoreLoads, Operation, Steps, Slot!Generations
    <3> QED  BY <1>2, <2>2, <3>1 DEF RestoreLoads, Slot!ReserveReplacement, Restoring
  <2> QED  BY <2>1, <2>2
<1>3. CASE RestorePrepares
  <2>1. op' \in Operation /\ op'.step = "restoreCommit" /\ SameCommand
    BY <1>3, GotoKeeps DEF RestorePrepares, Steps
  <2> QED  BY <1>3, <2>1 DEF RestorePrepares, Slot!Prepare, SameCommand, Restoring
<1>4. CASE RestoreCommits
  BY <1>4, IdleTyped DEF RestoreCommits, Slot!CommitReservation, Release, Restoring
<1>5. CASE RestoreFails
  <2>1. CASE reservation
    BY <1>5, <2>1, CleanUpKeeps DEF RestoreFails, slotVars, SameCommand, Restoring, Answers
  <2>2. CASE ~reservation
    BY <1>5, <2>2, IdleTyped DEF RestoreFails, Degrade, Slot!SetAcceptingRuns, Release,
                                 Restoring
  <2> QED  BY <2>1, <2>2
<1>6. ASSUME ~Restoring, op.step # "idle",
             \/ op'.step = "idle" /\ op' \in Operation
             \/ /\ op' \in Operation /\ SameCommand
                /\ op'.step \notin {"restoring", "restorePrepare", "restoreCommit"}
                /\ op'.step = "cleanup" => op'.finish # "degrade",
             answer' \in [SetIds -> Answers], inFlight' \in Slot!Generations,
             UNCHANGED <<restarts, phase>>, accepting' => phase = "serving"
      PROVE  OperationInv'
  BY <1>6, OperationBuilt DEF Restoring, SameCommand
<1>7. CASE PrepareNext
  <2>1. /\ ~Restoring /\ op.step \notin {"idle", "cleanup"}
        /\ UNCHANGED <<inFlight, restarts>>
    BY <1>7
       DEF PrepareNext, ActivateLoads, ActivateLoadFails, CandidateInvalid, SlotBusy,
           Reserve, Materialize, MaterializeFails, MarkRefusedCandidate, GiveUp,
           AbandonedPrepares, AbandonedFails, Restoring
  <2>2. UNCHANGED phase /\ (accepting' => phase = "serving")
    BY <1>7, SlotCallsKeepPhase
       DEF PrepareNext, ActivateLoads, ActivateLoadFails, CandidateInvalid, SlotBusy,
           Reserve, Materialize, MaterializeFails, MarkRefusedCandidate, GiveUp,
           AbandonedPrepares, AbandonedFails, Degrade
  <2>3. answer' \in [SetIds -> Answers]
    <3>1. \/ UNCHANGED answer
          \/ \E code \in {"degraded", "conflict", "storage", "invalid", "busy", "timeout"} :
               Tell(op.set, code)
      BY <1>7
         DEF PrepareNext, ActivateLoads, ActivateLoadFails, CandidateInvalid, SlotBusy,
             Reserve, Materialize, MaterializeFails, MarkRefusedCandidate, GiveUp,
             AbandonedPrepares, AbandonedFails
    <3> QED  BY <3>1, TellTyped DEF Answers
  <2>4. \/ Release
        \/ \E step \in {"preparing", "committing", "marking", "abandoned"} : Goto(step)
        \/ \E finish \in {"keep", "restore"}, code \in {"invalid", "timeout"} :
             CleanUp(FALSE, finish, code)
        \/ op' = [op EXCEPT !.step = "candidate", !.active = pointer]
    BY <1>7
       DEF PrepareNext, ActivateLoads, ActivateLoadFails, CandidateInvalid, SlotBusy,
           Reserve, Materialize, MaterializeFails, MarkRefusedCandidate, GiveUp,
           AbandonedPrepares, AbandonedFails
  <2>5. \A step \in {"preparing", "committing", "marking", "abandoned"} :
          Goto(step) => op' \in Operation /\ op'.step = step /\ SameCommand
    BY GotoKeeps DEF Steps
  <2>6. \A finish \in {"keep", "restore"}, code \in {"invalid", "timeout"} :
          CleanUp(FALSE, finish, code) =>
            op' \in Operation /\ SameCommand /\ op'.step = "cleanup" /\ op'.finish = finish
    BY CleanUpKeeps DEF Answers
  <2>7. CASE op' = [op EXCEPT !.step = "candidate", !.active = pointer]
    <3>1. op' \in Operation /\ op'.step = "candidate" /\ op'.set = op.set
      BY <1>0, <2>7 DEF Operation, Steps
    <3> QED  BY <2>1, <2>2, <2>3, <3>1, OperationBuilt DEF Restoring
  <2>8. CASE Release
    BY <1>6, <2>1, <2>2, <2>3, <2>8, IdleTyped DEF Release
  <2>9. CASE \E step \in {"preparing", "committing", "marking", "abandoned"} : Goto(step)
    BY <1>6, <2>1, <2>2, <2>3, <2>5, <2>9
  <2>10. CASE \E finish \in {"keep", "restore"}, code \in {"invalid", "timeout"} :
                CleanUp(FALSE, finish, code)
    BY <1>6, <2>1, <2>2, <2>3, <2>6, <2>10
  <2> QED  BY <2>4, <2>7, <2>8, <2>9, <2>10
<1>8. CASE CleanupNext
  <2>1. CASE \E removed \in BOOLEAN : CleanupDiscards(removed)
    BY <2>1, SlotCallsKeepPhase
       DEF CleanupNext, CleanupDiscards, Slot!Discard, activationVars, Restoring
  <2>2. CASE CleanupEnds
    <3>1. UNCHANGED phase /\ (accepting' => phase = "serving")
      BY <2>2, SlotCallsKeepPhase DEF CleanupEnds, Operation
    <3>2. answer' \in [SetIds -> Answers]
      BY <2>2, TellTyped DEF CleanupEnds, Operation
    <3>3. op' \in Operation /\ op'.step = "idle"
      BY <2>2, IdleTyped DEF CleanupEnds, Release
    <3>4. UNCHANGED <<inFlight, restarts>>
      BY <2>2 DEF CleanupEnds
    <3> QED  BY <3>1, <3>2, <3>3, <3>4, OperationBuilt DEF Restoring
  <2> QED  BY <1>8, <2>1, <2>2 DEF CleanupNext
<1>9. CASE CommitNext \/ ReconcileNext
  <2> DEFINE Codes == {"unknown", "ok"}
             Ends == {"conflict", "invalid", "timeout", "unknown"}
             Later == {"applied", "reconciling", "failing"}
  <2>1. /\ ~Restoring /\ op.step \notin {"idle", "cleanup"}
        /\ UNCHANGED restarts
        /\ inFlight' \in {inFlight, op.set}
    BY <1>9
       DEF CommitNext, CommitApplies, CommitRejected, CommitTimesOut, CommitUnknown,
           LoseCommit, AnswerArrives, AnswerLost, ReconcileNext, ReconcileSeesActive,
           ReconcileSeesCandidate, ReconcileSeesEnded, ReconcileEnds, ReconcileFails,
           FenceCandidate, ReconcileRetries, ReconcileStops, Restoring
  <2>2. UNCHANGED phase /\ (accepting' => phase = "serving")
    BY <1>9, SlotCallsKeepPhase
       DEF CommitNext, CommitApplies, CommitRejected, CommitTimesOut, CommitUnknown,
           LoseCommit, AnswerArrives, AnswerLost, ReconcileNext, ReconcileSeesActive,
           ReconcileSeesCandidate, ReconcileSeesEnded, ReconcileEnds, ReconcileFails,
           FenceCandidate, ReconcileRetries, ReconcileStops, Degrade, Install
  <2>3. answer' \in [SetIds -> Answers]
    <3>1. UNCHANGED answer \/ \E code \in Codes : Tell(op.set, code)
      BY <1>9
         DEF CommitNext, CommitApplies, CommitRejected, CommitTimesOut, CommitUnknown,
             LoseCommit, AnswerArrives, AnswerLost, ReconcileNext, ReconcileSeesActive,
             ReconcileSeesCandidate, ReconcileSeesEnded, ReconcileEnds, ReconcileFails,
             FenceCandidate, ReconcileRetries, ReconcileStops, Install
    <3> QED  BY <3>1, TellTyped DEF Answers
  <2>4. \/ Release
        \/ \E step \in Later : Goto(step)
        \/ \E reopen \in BOOLEAN, code \in Ends : CleanUp(reopen, "restore", code)
    BY <1>9
       DEF CommitNext, CommitApplies, CommitRejected, CommitTimesOut, CommitUnknown,
           LoseCommit, AnswerArrives, AnswerLost, ReconcileNext, ReconcileSeesActive,
           ReconcileSeesCandidate, ReconcileSeesEnded, ReconcileEnds, ReconcileFails,
           FenceCandidate, ReconcileRetries, ReconcileStops, Install
  <2>5. \A step \in Later : Goto(step) => op' \in Operation /\ op'.step = step /\ SameCommand
    BY GotoKeeps DEF Steps
  <2>6. \A reopen \in BOOLEAN, code \in Ends :
          CleanUp(reopen, "restore", code) =>
            op' \in Operation /\ SameCommand /\ op'.step = "cleanup" /\ op'.finish = "restore"
    BY CleanUpKeeps DEF Answers
  <2>7. CASE Release
    BY <1>6, <2>1, <2>2, <2>3, <2>7, IdleTyped DEF Release, Operation
  <2>8. CASE \E step \in Later : Goto(step)
    BY <1>6, <2>1, <2>2, <2>3, <2>5, <2>8 DEF Operation
  <2>9. CASE \E reopen \in BOOLEAN, code \in Ends : CleanUp(reopen, "restore", code)
    BY <1>6, <2>1, <2>2, <2>3, <2>6, <2>9 DEF Operation
  <2> QED  BY <2>4, <2>7, <2>8, <2>9
<1>10. CASE CallerLeaves
  <2>1. answer' \in [SetIds -> Answers]
    BY <1>10, TellTyped DEF CallerLeaves, Answers
  <2> QED  BY <1>10, <2>1 DEF CallerLeaves, Restoring, slotVars
<1>11. ASSUME NEW applied \in BOOLEAN, InFlightDecided(applied) PROVE OperationInv'
  BY <1>11 DEF InFlightDecided, Restoring, slotVars, Slot!Generations
<1>12. CASE Administrator
  BY <1>12 DEF Administrator, Restoring, slotVars, activationVars
<1>13. CASE RunsAndReaper
  <2>1. UNCHANGED <<reservation, accepting, phase>>
    BY <1>13
       DEF RunsAndReaper, Slot!RunCalls, Slot!Capture, Slot!Release, Slot!ReaperSteps,
           Slot!ReaperWakes, Slot!ReaperCleaned
  <2> QED  BY <1>13, <2>1 DEF RunsAndReaper, Restoring, activationVars
<1>14. CASE Shutdown
  BY <1>14
     DEF Shutdown, Restoring, activationVars, Slot!BeginDraining, Slot!CleanupCurrent,
         Slot!Close
<1>15. CASE Restart
  <2>1. op' \in Operation /\ op'.step = "restoring"
    BY <1>15, RestoreTyped DEF Restart
  <2>2. answer' \in [SetIds -> Answers]
    BY <1>15 DEF Restart, Answers
  <2>3. restarts' \in 0..MaxRestarts
    BY <1>15, RestartsAssumption DEF Restart
  <2>4. inFlight' \in Slot!Generations
    BY <1>15 DEF Restart, Operation
  <2> QED  BY <1>15, <2>1, <2>2, <2>3, <2>4 DEF Restart, Slot!ProcessStarts, Restoring
<1>16. CASE UNCHANGED vars
  BY <1>16 DEF vars, activationVars, slotVars, Restoring
<1> QED
  BY <1>1, <1>2, <1>3, <1>4, <1>5, <1>7, <1>8, <1>9, <1>10, <1>11, <1>12, <1>13, <1>14,
     <1>15, <1>16
     DEF ActivationNext, RestoreNext

-----------------------------------------------------------------------------
(* The registry and the slot are used as their modules say                 *)

\* A command of the Agent, or what the administrator does, is a function of
\* the registry: the version the Agent sends is the one it names, and the
\* request of each command is its own.
LEMMA RegistryUsed == OperationInv /\ [ActivationNext]_vars => [RegistryNext]_registryVars
<1> SUFFICES ASSUME OperationInv, ActivationNext
             PROVE  RegistryNext \/ UNCHANGED registryVars
  BY DEF vars
<1>1. \A s \in SetIds : Command(s) \in Requests /\ <<s, "create">> \in Requests
                        /\ <<s, "discard">> \in Requests
  BY RequestsAssumption DEF Command
<1>2. ASSUME NEW s \in SetIds, MarkFailed(s, op.version, Command(s)) PROVE RegistryNext
  <2>1. MarkFailed(s, pointer.version, Command(s))
    BY <1>2 DEF MarkFailed
  <2> QED  BY <1>1, <2>1 DEF RegistryNext
<1>3. CASE PrepareNext \/ ReconcileNext
  <2>1. \/ op.set \in SetIds /\ MarkFailed(op.set, op.version, Command(op.set))
        \/ UNCHANGED registryVars
    BY <1>3
       DEF PrepareNext, ActivateLoads, ActivateLoadFails, CandidateInvalid, SlotBusy,
           Reserve, Materialize, MaterializeFails, MarkRefusedCandidate, GiveUp,
           AbandonedPrepares, AbandonedFails, ReconcileNext, ReconcileSeesActive,
           ReconcileSeesCandidate, ReconcileSeesEnded, ReconcileEnds, ReconcileFails,
           FenceCandidate, ReconcileRetries, ReconcileStops, OperationInv
  <2> QED  BY <1>2, <2>1
<1>4. CASE CommitNext
  <2>1. CASE CommitApplies
    <3>1. op.set \in SetIds /\ Activate(op.set, pointer.version, Command(op.set))
      BY <2>1 DEF CommitApplies, OperationInv, Activate, ActivateConflict
    <3> QED  BY <1>1, <3>1 DEF RegistryNext
  <2>2. CASE ~CommitApplies
    BY <1>4, <2>2
       DEF CommitNext, CommitRejected, CommitTimesOut, CommitUnknown, LoseCommit,
           AnswerArrives, AnswerLost
  <2> QED  BY <2>1, <2>2
<1>5. ASSUME NEW applied \in BOOLEAN, InFlightDecided(applied)
      PROVE  RegistryNext \/ UNCHANGED registryVars
  <2>1. inFlight \in SetIds
    BY <1>5 DEF InFlightDecided, OperationInv, Slot!Generations
  <2> QED  BY <1>1, <1>5, <2>1 DEF InFlightDecided, RegistryNext
<1>6. CASE Administrator
  BY <1>1, <1>6 DEF Administrator, RegistryNext
<1>7. CASE \/ \E s \in SetIds : \E version \in 0..pointer.version : Admit(s, version)
           \/ RestoreNext \/ CleanupNext \/ CallerLeaves \/ RunsAndReaper \/ Shutdown
           \/ Restart
  BY <1>7
     DEF Admit, RestoreNext, RestoreLoads, RestorePrepares, RestoreCommits, RestoreFails,
         CleanupNext, CleanupDiscards, CleanupEnds, CallerLeaves, RunsAndReaper, Shutdown,
         Restart
<1> QED  BY <1>3, <1>4, <1>5, <1>6, <1>7 DEF ActivationNext

\* The coordinator calls the slot as SkillGenerationSlot lets it: nothing once
\* the manager has drained, and no run is let in by hand but while serving.
LEMMA SlotUsed ==
  accepting \in BOOLEAN /\ OperationInv /\ [ActivationNext]_vars => [Slot!SlotNext]_slotVars
<1> SUFFICES ASSUME accepting \in BOOLEAN, OperationInv, ActivationNext
             PROVE  Slot!SlotNext \/ UNCHANGED slotVars
  BY DEF vars
<1>1. ASSUME op.step # "idle",
             \/ Slot!ReserveReplacement
             \/ \E s \in SetIds : Slot!Prepare(s)
             \/ \E value \in BOOLEAN : Slot!Discard(value) \/ Slot!CancelReservation(value)
             \/ Slot!CommitReservation
      PROVE  Slot!SlotNext
  BY <1>1 DEF OperationInv, Slot!SlotNext, Slot!CoordinatorCalls
<1>2. ASSUME Slot!SetAcceptingRuns(FALSE) PROVE Slot!SlotNext \/ UNCHANGED slotVars
  <2>1. CASE accepting = TRUE
    BY <1>2, <2>1 DEF OperationInv, Slot!SlotNext, Slot!CoordinatorCalls
  <2>2. CASE accepting = FALSE
    BY <1>2, <2>2 DEF Slot!SetAcceptingRuns, slotVars
  <2> QED  BY <2>1, <2>2
<1>3. CASE RestoreNext
  <2>1. CASE RestoreLoads
    <3>1. phase = "serving"
      BY <2>1 DEF RestoreLoads, OperationInv, Restoring
    <3>2. CASE Slot!SetAcceptingRuns(TRUE)
      <4>1. CASE accepting = TRUE
        BY <3>2, <4>1 DEF Slot!SetAcceptingRuns, slotVars
      <4>2. CASE accepting = FALSE
        BY <3>1, <3>2, <4>2 DEF Slot!SlotNext, Slot!CoordinatorCalls
      <4> QED  BY <4>1, <4>2
    <3>3. CASE Slot!ReserveReplacement
      BY <1>1, <2>1, <3>3 DEF RestoreLoads
    <3> QED  BY <2>1, <3>2, <3>3 DEF RestoreLoads
  <2>2. CASE RestorePrepares \/ RestoreCommits
    BY <1>1, <2>2 DEF RestorePrepares, RestoreCommits, OperationInv
  <2>3. CASE RestoreFails
    BY <1>2, <2>3 DEF RestoreFails, Degrade
  <2> QED  BY <1>3, <2>1, <2>2, <2>3 DEF RestoreNext
<1>4. CASE PrepareNext \/ ReconcileNext \/ CommitNext \/ CleanupNext
  <2>1. /\ op.step # "idle" /\ op.set \in SetIds
        /\ \/ Slot!ReserveReplacement
           \/ Slot!Prepare(op.set)
           \/ \E value \in BOOLEAN : Slot!Discard(value) \/ Slot!CancelReservation(value)
           \/ Slot!CommitReservation
           \/ Slot!SetAcceptingRuns(FALSE)
           \/ UNCHANGED slotVars
    BY <1>4
       DEF PrepareNext, ActivateLoads, ActivateLoadFails, CandidateInvalid, SlotBusy,
           Reserve, Materialize, MaterializeFails, MarkRefusedCandidate, GiveUp,
           AbandonedPrepares, AbandonedFails, ReconcileNext, ReconcileSeesActive,
           ReconcileSeesCandidate, ReconcileSeesEnded, ReconcileEnds, ReconcileFails,
           FenceCandidate, ReconcileRetries, ReconcileStops, CommitNext, CommitApplies,
           CommitRejected, CommitTimesOut, CommitUnknown, LoseCommit, AnswerArrives,
           AnswerLost, CleanupNext, CleanupDiscards, CleanupEnds, Degrade, Install,
           OperationInv, Operation
  <2> QED  BY <1>1, <1>2, <2>1
<1>5. CASE RunsAndReaper \/ Shutdown \/ Restart
  BY <1>5
     DEF RunsAndReaper, Shutdown, Restart, Slot!SlotNext, Slot!ManagerShutdown
<1>6. CASE \/ \E s \in SetIds : \E version \in 0..pointer.version : Admit(s, version)
           \/ CallerLeaves \/ Administrator
           \/ \E applied \in BOOLEAN : InFlightDecided(applied)
  BY <1>6 DEF Admit, CallerLeaves, Administrator, InFlightDecided
<1> QED  BY <1>3, <1>4, <1>5, <1>6 DEF ActivationNext

\* SlotProofs stands on the assumptions of this module.
LEMMA SlotAssumptions == SlotProofs!SlotNoSetAssumption /\ SlotProofs!RunsAssumption
<1>1. SlotProofs!RunsAssumption
  BY ActivationRunsAssumption DEF SlotProofs!RunsAssumption, SlotProofs!IsFiniteSet, IsFiniteSet
<1>2. SlotProofs!SlotNoSetAssumption
  BY NoSetAssumption DEF SlotProofs!SlotNoSetAssumption
<1> QED  BY <1>1, <1>2

\* The slot of this module is the one SlotProofs is about.
LEMMA SameSlot ==
  /\ Slot!SlotInit <=> SlotProofs!SlotInit
  /\ Slot!SlotTypeOK <=> SlotProofs!SlotTypeOK
  /\ [Slot!SlotNext]_slotVars <=> [SlotProofs!SlotNext]_(SlotProofs!slotVars)
<1>1. Slot!SlotInit <=> SlotProofs!SlotInit
  BY DEF Slot!SlotInit, SlotProofs!SlotInit, Slot!NoEntry, SlotProofs!NoEntry
<1>2. Slot!SlotTypeOK <=> SlotProofs!SlotTypeOK
  BY DEF Slot!SlotTypeOK, SlotProofs!SlotTypeOK, Slot!Generations, SlotProofs!Generations
<1>3. slotVars = SlotProofs!slotVars /\ (slotVars = SlotProofs!slotVars)'
  BY DEF slotVars, SlotProofs!slotVars
<1>4. Slot!RunCalls <=> SlotProofs!RunCalls
  BY DEF Slot!RunCalls, SlotProofs!RunCalls, Slot!Capture, SlotProofs!Capture,
         Slot!Release, SlotProofs!Release, Slot!HasLease, SlotProofs!HasLease,
         Slot!Generations, SlotProofs!Generations
<1>5. Slot!CoordinatorCalls <=> SlotProofs!CoordinatorCalls
  BY DEF Slot!CoordinatorCalls, SlotProofs!CoordinatorCalls,
         Slot!ReserveReplacement, SlotProofs!ReserveReplacement,
         Slot!Prepare, SlotProofs!Prepare, Slot!Discard, SlotProofs!Discard,
         Slot!CancelReservation, SlotProofs!CancelReservation,
         Slot!CommitReservation, SlotProofs!CommitReservation,
         Slot!SetAcceptingRuns, SlotProofs!SetAcceptingRuns
<1>6. Slot!ReaperSteps <=> SlotProofs!ReaperSteps
  BY DEF Slot!ReaperSteps, SlotProofs!ReaperSteps, Slot!ReaperWakes,
         SlotProofs!ReaperWakes, Slot!Reapable, SlotProofs!Reapable,
         Slot!ReaperCleaned, SlotProofs!ReaperCleaned, Slot!NoEntry, SlotProofs!NoEntry
<1>7. Slot!ManagerShutdown <=> SlotProofs!ManagerShutdown
  BY DEF Slot!ManagerShutdown, SlotProofs!ManagerShutdown, Slot!BeginDraining,
         SlotProofs!BeginDraining, Slot!CleanupCurrent, SlotProofs!CleanupCurrent,
         Slot!Close, SlotProofs!Close
<1>8. Slot!ProcessStarts <=> SlotProofs!ProcessStarts
  BY DEF Slot!ProcessStarts, SlotProofs!ProcessStarts, Slot!NoEntry, SlotProofs!NoEntry
<1>9. [Slot!SlotNext]_slotVars <=> [SlotProofs!SlotNext]_(SlotProofs!slotVars)
  BY <1>3, <1>4, <1>5, <1>6, <1>7, <1>8 DEF Slot!SlotNext, SlotProofs!SlotNext
<1> QED  BY <1>1, <1>2, <1>9

\* What the three modules keep, together.
PartsInv == RegistryTypeOK /\ OperationInv /\ SlotProofs!SlotInv

\* A process with an empty registry and a fresh slot.
LEMMA PartsStart == ActivationInit => PartsInv
<1> SUFFICES ASSUME ActivationInit PROVE PartsInv
  OBVIOUS
<1>1. RegistryTypeOK
  BY DEF ActivationInit, RegistryInit, RegistryTypeOK, SetStates, Pointer
<1>2. SlotProofs!SlotInv
  BY SameSlot, SlotAssumptions, SlotProofs!SlotStarts DEF ActivationInit
<1>3. OperationInv
  <2>1. answer \in [SetIds -> Answers] /\ restarts \in 0..MaxRestarts
    BY RestartsAssumption DEF ActivationInit, Answers
  <2> QED
    BY <2>1, RestoreTyped
       DEF ActivationInit, OperationInv, Slot!SlotInit, Slot!Generations, Restoring
<1> QED  BY <1>1, <1>2, <1>3 DEF PartsInv

\* No step of the platform breaks a part: the registry and the slot are only
\* used as their own modules allow.
LEMMA PartsKept == PartsInv /\ [ActivationNext]_vars => PartsInv'
<1> SUFFICES ASSUME PartsInv, [ActivationNext]_vars PROVE PartsInv'
  OBVIOUS
<1>1. RegistryTypeOK'
  BY RegistryUsed, RegistryTypesKept DEF PartsInv
<1>2. OperationInv'
  BY OperationKept DEF PartsInv
<1>3. accepting \in BOOLEAN
  BY DEF PartsInv, SlotProofs!SlotInv, SlotProofs!SlotTypeOK
<1>4. [SlotProofs!SlotNext]_(SlotProofs!slotVars)
  BY <1>3, SlotUsed, SameSlot DEF PartsInv
<1>5. SlotProofs!SlotInv'
  BY <1>4, SlotAssumptions, SlotProofs!SlotKept DEF PartsInv
<1> QED  BY <1>1, <1>2, <1>5 DEF PartsInv

\* The types of the registry, the operation with its phase, and the counters,
\* leases and directories of the slot hold in the composition.
THEOREM PartsCorrect == ActivationSpec => []PartsInv
BY PartsStart, PartsKept, PTL DEF ActivationSpec

\* Seen from the database, the Agent and the administrator are users of the
\* registry's functions: everything SkillRegistry_proofs shows of the registry
\* holds while Agents activate, crash and reconcile.
THEOREM ActivationUsesRegistry == ActivationSpec => RegistrySpec
<1>1. ActivationInit => RegistryInit
  BY DEF ActivationInit
<1>2. PartsInv /\ [ActivationNext]_vars => [RegistryNext]_registryVars
  BY RegistryUsed DEF PartsInv
<1> QED  BY <1>1, <1>2, PartsCorrect, PTL DEF ActivationSpec, RegistrySpec

\* Seen from the slot, the coordinator is the user SkillGenerationSlot assumes.
THEOREM ActivationUsesSlot == ActivationSpec => Slot!SlotSafety
<1>1. ActivationInit => Slot!SlotInit
  BY DEF ActivationInit
<1>2. PartsInv => accepting \in BOOLEAN
  BY DEF PartsInv, SlotProofs!SlotInv, SlotProofs!SlotTypeOK
<1>3. PartsInv /\ [ActivationNext]_vars => [Slot!SlotNext]_(Slot!slotVars)
  <2>1. slotVars = Slot!slotVars /\ (slotVars = Slot!slotVars)'
    BY DEF slotVars, Slot!slotVars
  <2> QED  BY <1>2, <2>1, SlotUsed DEF PartsInv
<1> QED  BY <1>1, <1>3, PartsCorrect, PTL DEF ActivationSpec, Slot!SlotSafety

-----------------------------------------------------------------------------
(* What a step does to the registry                                        *)

\* The pointer stays, and no set goes live or stops to be active.
NothingActivated ==
  /\ UNCHANGED pointer
  /\ \A s \in SetIds : /\ Lived(s)' <=> Lived(s)
                       /\ setState'[s] = "active" <=> setState[s] = "active"

\* Uploads, archives, new sets and discards.
LEMMA AdministratorActivatesNothing ==
  ASSUME RegistryTypeOK, Administrator
  PROVE  NothingActivated /\ UNCHANGED <<slotVars, activationVars>> /\ inFlight = NoSet
<1>1. UNCHANGED pointer /\ UNCHANGED <<slotVars, activationVars>> /\ inFlight = NoSet
  BY DEF Administrator, UploadSkill, ArchiveSkill, CreateSet, DiscardSet, setVars,
         RegistryFree
<1>2. UNCHANGED setState \/ \E s \in SetIds : /\ setState[s] \in {"absent", "candidate"}
                                              /\ \/ setState' = [setState EXCEPT ![s] = "candidate"]
                                                 \/ setState' = [setState EXCEPT ![s] = "discarded"]
  BY DEF Administrator, UploadSkill, ArchiveSkill, CreateSet, DiscardSet, setVars
<1> QED  BY <1>1, <1>2 DEF NothingActivated, Lived, RegistryTypeOK

\* mark_failed moves no pointer and ends only a candidate.
LEMMA MarkActivatesNothing ==
  ASSUME RegistryTypeOK, NEW s \in SetIds, NEW v, NEW q, MarkFailed(s, v, q)
  PROVE  NothingActivated
BY DEF MarkFailed, NothingActivated, Lived, RegistryTypeOK

\* Nor does a step that leaves the registry alone.
LEMMA UnchangedActivatesNothing ==
  ASSUME UNCHANGED registryVars
  PROVE  NothingActivated
BY DEF NothingActivated, Lived, registryVars

\* activate_agent_skill_set moves the pointer to a candidate, one version on,
\* and supersedes the active set.
LEMMA ActivateMoves ==
  ASSUME RegistryTypeOK, PointerMatchesStates, NEW s \in SetIds, NEW v, NEW q,
         Activate(s, v, q)
  PROVE  /\ v = pointer.version
         /\ pointer' = [active |-> s, previous |-> pointer.active, version |-> v + 1]
         /\ setState[s] = "candidate" /\ setState'[s] = "active"
         /\ \A t \in SetIds : Lived(t)' <=> (Lived(t) \/ t = s)
<1>1. \A t \in SetIds : t = pointer.active => setState[t] = "active"
  BY NoSetAssumption DEF PointerMatchesStates
<1>2. \A t \in SetIds : setState'[t] =
         IF t = s THEN "active" ELSE IF t = pointer.active THEN "superseded" ELSE setState[t]
  BY DEF Activate
<1>3. /\ v = pointer.version /\ setState[s] = "candidate"
      /\ pointer' = [active |-> s, previous |-> pointer.active, version |-> v + 1]
  BY DEF Activate, ActivateConflict
<1> QED  BY <1>1, <1>2, <1>3 DEF Lived

-----------------------------------------------------------------------------
(* What is served                                                          *)

\* A set that was activated is active or superseded for ever.
LEMMA LivedForEver ==
  ASSUME RegistryTypeOK, PointerMatchesStates, [RegistryNext]_registryVars,
         NEW s \in SetIds, Lived(s)
  PROVE  Lived(s)'
<1>1. ASSUME NEW t \in SetIds, NEW q \in Requests, Activate(t, pointer.version, q)
      PROVE  Lived(s)'
  BY <1>1, ActivateMoves
<1>2. ASSUME NEW t \in SetIds, setState[t] \in {"absent", "candidate"},
             NEW state, setState' = [setState EXCEPT ![t] = state]
      PROVE  Lived(s)'
  BY <1>2 DEF Lived, RegistryTypeOK
<1>3. CASE UNCHANGED setState
  BY <1>3 DEF Lived
<1> QED
  BY <1>1, <1>2, <1>3
     DEF RegistryNext, UploadSkill, ReplaceRevision, ArchiveSkill, CreateSet, DiscardSet,
         ClonePrevious, MarkFailed, setVars, registryVars

\* The served generation changes when a restore or an activation installs its
\* set and when the process is replaced; runs are given the served one.
LEMMA CurrentMoves ==
  ASSUME Slot!SlotTypeOK, [ActivationNext]_vars
  PROVE  /\ \/ RestoreCommits \/ AnswerArrives \/ ReconcileSeesActive \/ Restart
            \/ current'.set = current.set
         /\ \A l \in leases' : l \in leases \/ l[2] = current.set
<1>1. CASE RestoreNext \/ PrepareNext \/ CleanupNext
  BY <1>1
     DEF RestoreNext, RestoreLoads, RestorePrepares, RestoreCommits, RestoreFails,
         PrepareNext, ActivateLoads, ActivateLoadFails, CandidateInvalid, SlotBusy,
         Reserve, Materialize, MaterializeFails, MarkRefusedCandidate, GiveUp,
         AbandonedPrepares, AbandonedFails, CleanupNext, CleanupDiscards, CleanupEnds,
         Degrade, Slot!ReserveReplacement, Slot!Prepare, Slot!Discard,
         Slot!CancelReservation, Slot!CommitReservation, Slot!SetAcceptingRuns, slotVars
<1>2. CASE CommitNext \/ ReconcileNext
  BY <1>2
     DEF CommitNext, CommitApplies, CommitRejected, CommitTimesOut, CommitUnknown,
         LoseCommit, AnswerArrives, AnswerLost, ReconcileNext, ReconcileSeesActive,
         ReconcileSeesCandidate, ReconcileSeesEnded, ReconcileEnds, ReconcileFails,
         FenceCandidate, ReconcileRetries, ReconcileStops, Degrade, Install,
         Slot!CommitReservation, Slot!SetAcceptingRuns, slotVars
<1>3. CASE RunsAndReaper
  <2>1. ASSUME NEW r \in Runs, Slot!Capture(r)
        PROVE  current'.set = current.set /\ \A l \in leases' : l \in leases \/ l[2] = current.set
    <3>1. leases' = leases \cup {<<r, current.set>>} /\ <<r, current.set>>[2] = current.set
      BY <2>1 DEF Slot!Capture
    <3>2. current'.set = current.set
      BY <2>1 DEF Slot!Capture, Slot!SlotTypeOK
    <3> QED  BY <3>1, <3>2
  <2>2. ASSUME NEW r \in Runs, NEW s, Slot!Release(r, s)
        PROVE  current'.set = current.set /\ leases' \subseteq leases
    BY <2>2 DEF Slot!Release, Slot!SlotTypeOK
  <2>3. CASE Slot!ReaperSteps
    BY <2>3 DEF Slot!ReaperSteps, Slot!ReaperWakes, Slot!ReaperCleaned
  <2> QED  BY <1>3, <2>1, <2>2, <2>3 DEF RunsAndReaper, Slot!RunCalls
<1>4. CASE Shutdown \/ Restart
  BY <1>4
     DEF Shutdown, Slot!BeginDraining, Slot!CleanupCurrent, Slot!Close, Restart,
         Slot!ProcessStarts
<1>5. CASE \/ \E s \in SetIds : \E version \in 0..pointer.version : Admit(s, version)
           \/ CallerLeaves \/ Administrator
           \/ \E applied \in BOOLEAN : InFlightDecided(applied)
           \/ UNCHANGED vars
  BY <1>5 DEF Admit, CallerLeaves, Administrator, InFlightDecided, vars, slotVars
<1> QED  BY <1>1, <1>2, <1>3, <1>4, <1>5 DEF ActivationNext

\* What an operation installs was activated.
LEMMA InstalledIsActive ==
  ASSUME RegistryTypeOK, PointerMatchesStates, SnapshotInv, OperationInv,
         RestoreCommits \/ AnswerArrives \/ ReconcileSeesActive
  PROVE  /\ current'.set = op.set /\ op.set \in SetIds
         /\ setState[op.set] = "active" /\ UNCHANGED registryVars
<1>1. prepared = op.set /\ op.set \in SetIds
  BY DEF RestoreCommits, AnswerArrives, ReconcileSeesActive, SnapshotInv, Unknown, OperationInv
<1>2. current'.set = prepared /\ UNCHANGED registryVars
  BY DEF RestoreCommits, AnswerArrives, ReconcileSeesActive, Install, Slot!CommitReservation
<1>3. setState[op.set] = "active"
  BY <1>1, NoSetAssumption
     DEF RestoreCommits, AnswerArrives, ReconcileSeesActive, SnapshotInv, PointerMatchesStates
<1> QED  BY <1>1, <1>2, <1>3

\* A step serves no set that was not activated.
LEMMA ServedKept ==
  /\ PartsInv /\ PointerMatchesStates /\ SnapshotInv /\ ServedSetsWereActivated
  /\ [ActivationNext]_vars
  => ServedSetsWereActivated'
<1> SUFFICES ASSUME PartsInv, PointerMatchesStates, SnapshotInv, ServedSetsWereActivated,
                    [ActivationNext]_vars
             PROVE  ServedSetsWereActivated'
  OBVIOUS
<1>1. \A s \in SetIds : Lived(s) => Lived(s)'
  BY RegistryUsed, LivedForEver DEF PartsInv
<1>2. Slot!SlotTypeOK /\ OperationInv /\ RegistryTypeOK
  BY SameSlot DEF PartsInv, SlotProofs!SlotInv
<1>3. current'.set # NoSet => current'.set \in SetIds /\ setState'[current'.set] \in {"active", "superseded"}
  <2>1. CASE RestoreCommits \/ AnswerArrives \/ ReconcileSeesActive
    BY <1>2, <2>1, InstalledIsActive DEF registryVars, PartsInv
  <2>2. CASE Restart
    BY <2>2 DEF Restart, Slot!ProcessStarts
  <2>3. CASE current'.set = current.set
    BY <1>1, <1>2, <2>3 DEF ServedSetsWereActivated, Lived, Slot!SlotTypeOK, Slot!Generations
  <2> QED  BY <1>2, <2>1, <2>2, <2>3, CurrentMoves
<1>4. \A l \in leases' : l[2] # NoSet => l[2] \in SetIds /\ setState'[l[2]] \in {"active", "superseded"}
  <2>1. \A l \in leases' : l \in leases \/ l[2] = current.set
    BY <1>2, CurrentMoves
  <2>2. \A l \in leases : l[2] # NoSet => l[2] \in SetIds /\ Lived(l[2])
    BY <1>2 DEF ServedSetsWereActivated, Lived, Slot!SlotTypeOK, Slot!Generations
  <2>3. current.set # NoSet => current.set \in SetIds /\ Lived(current.set)
    BY <1>2 DEF ServedSetsWereActivated, Lived, Slot!SlotTypeOK, Slot!Generations
  <2> QED  BY <1>1, <2>1, <2>2, <2>3 DEF Lived
<1> QED  BY <1>3, <1>4 DEF ServedSetsWereActivated, Lived

-----------------------------------------------------------------------------
(* What callers were told                                                  *)

\* Only a caller that still waits is told.
LEMMA TellEffect ==
  ASSUME answer \in [SetIds -> Answers], NEW s \in SetIds, NEW code, Tell(s, code)
  PROVE  \A t \in SetIds :
           answer'[t] = IF t = s /\ answer[s] = "waiting" THEN code ELSE answer[t]
BY DEF Tell

\* The command goes on, or ends.
SameCommandOrNone ==
  CommandRuns' => CommandRuns /\ op'.set = op.set

\* A step that activates nothing and tells nobody.
LEMMA NobodyTold ==
  ASSUME AnswerInv, NothingActivated, UNCHANGED answer, SameCommandOrNone
  PROVE  AnswerInv'
BY DEF AnswerInv, NothingActivated, SameCommandOrNone

\* The caller is told what promises nothing, or, at the end of the command,
\* what became of its set.
LEMMA CallerTold ==
  ASSUME AnswerInv, NothingActivated, answer \in [SetIds -> Answers], op.set \in SetIds,
         NEW code, Tell(op.set, code), SameCommandOrNone,
         \/ code \in Undecided
         \/ code \in Refusals /\ ~Lived(op.set) /\ ~CommandRuns'
         \/ code = "ok" /\ Lived(op.set) /\ ~CommandRuns'
  PROVE  AnswerInv'
<1>1. \A t \in SetIds :
        answer'[t] = IF t = op.set /\ answer[op.set] = "waiting" THEN code ELSE answer[t]
  BY TellEffect
<1>2. \A t \in SetIds : Lived(t)' <=> Lived(t)
  BY DEF NothingActivated
<1>3. CommandRuns' => answer'[op'.set] \in Undecided
  BY <1>1 DEF AnswerInv, SameCommandOrNone, Undecided
<1>4. ASSUME NEW t \in SetIds
      PROVE  /\ answer'[t] = "ok" => Lived(t)
             /\ answer'[t] \in Refusals => ~Lived(t)
             /\ Lived(t) => answer'[t] # "none"
  BY <1>1 DEF AnswerInv, Undecided, Refusals
<1> QED  BY <1>2, <1>3, <1>4 DEF AnswerInv

\* A set goes live of which nothing was promised.
LEMMA NobodyToldOfActivation ==
  ASSUME AnswerInv, UNCHANGED answer, SameCommandOrNone, NEW s \in SetIds,
         answer[s] \in Undecided,
         \A t \in SetIds : Lived(t)' <=> (Lived(t) \/ t = s)
  PROVE  AnswerInv'
<1>1. CommandRuns' => answer'[op'.set] \in Undecided
  BY DEF AnswerInv, SameCommandOrNone
<1> QED  BY <1>1 DEF AnswerInv, Undecided, Refusals

-----------------------------------------------------------------------------
(* Where the operation stands                                              *)

\* The steps that activate nothing: what the restore keeps.
LEMMA RestoreKeeps ==
  ASSUME OperationInv, RegistryTypeOK, PointerMatchesStates, StandingInv, RestoreNext
  PROVE  StandingInv' /\ SameCommandOrNone /\ UNCHANGED <<registryVars, answer>>
<1> USE NoSetAssumption
    DEF OperationInv, Operation, RegistryTypeOK, StandingInv, SnapshotInv, InFlightInv,
        AcceptInv, ReadyInv, Uncommitted, Unknown, CleanUpOfCommand, NextPointer, Restoring,
        IsReady, StatusWith, CommandRuns, SameCommandOrNone, Idle, NoSnapshot, Lived,
        registryVars
<1>1. CASE RestoreLoads /\ pointer.active = NoSet
  BY <1>1 DEF RestoreLoads, Slot!SetAcceptingRuns, RestoreStatus, Release, RegistryFree
<1>2. CASE RestoreLoads /\ pointer.active # NoSet
  <2>1. /\ op'.step = "restorePrepare" /\ op'.active = pointer
        /\ op'.set = pointer.active
    BY <1>2 DEF RestoreLoads
  <2> QED  BY <1>2, <2>1 DEF RestoreLoads, Slot!ReserveReplacement, RegistryFree
<1>3. CASE RestorePrepares
  BY <1>3 DEF RestorePrepares, Slot!Prepare, Goto
<1>4. CASE RestoreCommits
  BY <1>4 DEF RestoreCommits, Slot!CommitReservation, Release
<1>5. CASE RestoreFails /\ reservation
  <2>1. /\ op'.step = "cleanup" /\ op'.finish = "degrade" /\ op'.code = "none"
        /\ ~op'.reopen
    BY <1>5, CleanUpKeeps DEF RestoreFails, Answers
  <2> QED  BY <1>5, <2>1 DEF RestoreFails, slotVars
<1>6. CASE RestoreFails /\ ~reservation
  BY <1>6 DEF RestoreFails, Degrade, Slot!SetAcceptingRuns, Release
<1> QED  BY <1>1, <1>2, <1>3, <1>4, <1>5, <1>6 DEF RestoreNext

\* What an activation keeps until its commit is sent.
LEMMA PrepareKeeps ==
  ASSUME OperationInv, RegistryTypeOK, PointerMatchesStates, StandingInv, PrepareNext
  PROVE  StandingInv' /\ SameCommandOrNone /\ NothingActivated
<1> USE NoSetAssumption
    DEF OperationInv, Operation, RegistryTypeOK, StandingInv, SnapshotInv, InFlightInv,
        AcceptInv, ReadyInv, Uncommitted, Unknown, CleanUpOfCommand, NextPointer, Restoring,
        IsReady, StatusWith, CommandRuns, SameCommandOrNone, Idle, NoSnapshot,
        NothingActivated
<1>1. NothingActivated
  <2>1. \/ UNCHANGED registryVars
        \/ op.set \in SetIds /\ MarkFailed(op.set, op.version, Command(op.set))
    BY DEF PrepareNext, ActivateLoads, ActivateLoadFails, CandidateInvalid, SlotBusy,
           Reserve, Materialize, MaterializeFails, MarkRefusedCandidate, GiveUp,
           AbandonedPrepares, AbandonedFails
  <2> QED  BY <2>1, MarkActivatesNothing, UnchangedActivatesNothing
<1>2. CASE ActivateLoads /\ ~IsConsistent(pointer)
  BY <1>1, <1>2 DEF ActivateLoads, Degrade, Slot!SetAcceptingRuns, Release
<1>3. CASE ActivateLoads /\ IsConsistent(pointer) /\ pointer.version # op.version
  BY <1>1, <1>3 DEF ActivateLoads, Release, slotVars
<1>4. CASE ActivateLoads /\ IsConsistent(pointer) /\ pointer.version = op.version
  <2>1. op'.step = "candidate" /\ op'.active = pointer /\ op'.set = op.set
        /\ op'.version = op.version
    BY <1>4 DEF ActivateLoads
  <2> QED  BY <1>1, <1>4, <2>1 DEF ActivateLoads, IsConsistent, slotVars
<1>5. CASE ActivateLoadFails
  <2>1. pointer.active = NoSet <=> pointer.version = 0
    BY DEF PointerMatchesStates
  <2> QED  BY <1>1, <1>5, <2>1 DEF ActivateLoadFails, RestoreStatus, Release, slotVars
<1>6. CASE CandidateInvalid
  BY <1>1, <1>6 DEF CandidateInvalid, RestoreStatus, Release, slotVars
<1>7. CASE SlotBusy
  BY <1>1, <1>7 DEF SlotBusy, Release, slotVars
<1>8. CASE Reserve
  BY <1>1, <1>8 DEF Reserve, Slot!ReserveReplacement, Goto
<1>9. CASE \E valid \in BOOLEAN : Materialize(valid)
  BY <1>1, <1>9 DEF Materialize, Slot!Prepare, Goto
<1>10. CASE MaterializeFails
  BY <1>1, <1>10 DEF MaterializeFails, Goto, slotVars
<1>11. CASE \E applied \in BOOLEAN : MarkRefusedCandidate(applied)
  BY <1>1, <1>11 DEF MarkRefusedCandidate, RestoreStatus, CleanUp, slotVars
<1>12. CASE GiveUp /\ op.step = "preparing"
  BY <1>1, <1>12 DEF GiveUp, Goto, slotVars
<1>13. CASE GiveUp /\ op.step = "marking"
  <2>1. /\ op'.step = "cleanup" /\ op'.finish = "keep" /\ op'.code = "timeout"
        /\ SameCommand
    BY <1>13, CleanUpKeeps DEF GiveUp, Answers
  <2> QED  BY <1>1, <1>13, <2>1 DEF GiveUp, SameCommand, slotVars
<1>14. CASE GiveUp /\ op.step \in {"loading", "candidate"}
  <2>1. op' = Idle
    BY <1>14 DEF GiveUp, Release
  <2> QED  BY <1>1, <1>14, <2>1 DEF GiveUp, slotVars
<1>15. CASE AbandonedPrepares
  BY <1>1, <1>15 DEF AbandonedPrepares, Slot!Prepare, CleanUp
<1>16. CASE AbandonedFails
  BY <1>1, <1>16 DEF AbandonedFails, CleanUp, slotVars
<1>17. GiveUp => op.step \in {"preparing", "marking", "loading", "candidate"}
  BY DEF GiveUp
<1> HIDE DEF StandingInv, SameCommandOrNone, NothingActivated
<1> QED
  BY <1>1, <1>2, <1>3, <1>4, <1>5, <1>6, <1>7, <1>8, <1>9, <1>10, <1>11, <1>12, <1>13,
     <1>14, <1>15, <1>16, <1>17
     DEF PrepareNext

\* What the cleanup keeps.
LEMMA CleanupKeeps ==
  ASSUME OperationInv, RegistryTypeOK, PointerMatchesStates, StandingInv, CleanupNext
  PROVE  StandingInv' /\ SameCommandOrNone /\ UNCHANGED registryVars
<1> USE NoSetAssumption
    DEF OperationInv, Operation, RegistryTypeOK, StandingInv, SnapshotInv, InFlightInv,
        AcceptInv, ReadyInv, Uncommitted, Unknown, CleanUpOfCommand, NextPointer, Restoring,
        IsReady, StatusWith, CommandRuns, SameCommandOrNone, Idle, NoSnapshot, Lived,
        registryVars
<1>1. CASE \E removed \in BOOLEAN : CleanupDiscards(removed)
  BY <1>1 DEF CleanupDiscards, Slot!Discard, activationVars
<1>2. CASE CleanupEnds
  BY <1>2 DEF CleanupEnds, Slot!CancelReservation, RestoreStatus, Release
<1> QED  BY <1>1, <1>2 DEF CleanupNext

\* What the commit keeps, but for the step that applies it.
LEMMA CommitKeeps ==
  ASSUME OperationInv, RegistryTypeOK, PointerMatchesStates, StandingInv, AnswerInv,
         CommitNext, ~CommitApplies
  PROVE  StandingInv' /\ SameCommandOrNone /\ UNCHANGED registryVars
<1> USE NoSetAssumption
    DEF OperationInv, Operation, RegistryTypeOK, StandingInv, SnapshotInv, InFlightInv,
        AcceptInv, ReadyInv, Uncommitted, Unknown, CleanUpOfCommand, NextPointer, Restoring,
        IsReady, StatusWith, CommandRuns, SameCommandOrNone, Idle, NoSnapshot, Lived,
        registryVars
<1>1. CASE CommitRejected \/ CommitTimesOut
  <2>1. PICK code \in {"conflict", "invalid", "timeout"} : CleanUp(FALSE, "restore", code)
    BY <1>1 DEF CommitRejected, CommitTimesOut
  <2> QED  BY <1>1, <2>1 DEF CommitRejected, CommitTimesOut, CleanUp, slotVars
<1>2. CASE CommitUnknown(FALSE)
  BY <1>2 DEF CommitUnknown, LoseCommit, Degrade, Slot!SetAcceptingRuns, Goto
<1>3. CASE CommitUnknown(TRUE)
  <2>1. setState[op.set] = "candidate" /\ answer[op.set] \in Undecided
    BY <1>3 DEF CommitUnknown, LoseCommit, ActivateConflict, AnswerInv
  <2>2. answer'[op.set] \in Undecided
    BY <1>3, <2>1 DEF CommitUnknown, LoseCommit, Tell, Undecided
  <2> QED
    BY <1>3, <2>1, <2>2
       DEF CommitUnknown, LoseCommit, Degrade, Slot!SetAcceptingRuns, Goto
<1>4. CASE AnswerArrives
  BY <1>4 DEF AnswerArrives, Install, Slot!CommitReservation, Release
<1>5. CASE AnswerLost
  BY <1>5 DEF AnswerLost, Degrade, Slot!SetAcceptingRuns, Goto
<1> HIDE DEF StandingInv, SameCommandOrNone
<1> QED  BY <1>1, <1>2, <1>3, <1>4, <1>5 DEF CommitNext

\* What the reconciliation keeps.
LEMMA ReconcileKeeps ==
  ASSUME OperationInv, RegistryTypeOK, PointerMatchesStates, StandingInv, ReconcileNext
  PROVE  StandingInv' /\ SameCommandOrNone /\ NothingActivated
<1> USE NoSetAssumption
    DEF OperationInv, Operation, RegistryTypeOK, StandingInv, SnapshotInv, InFlightInv,
        AcceptInv, ReadyInv, Uncommitted, Unknown, CleanUpOfCommand, NextPointer, Restoring,
        IsReady, StatusWith, CommandRuns, SameCommandOrNone, Idle, NoSnapshot,
        NothingActivated
<1>1. NothingActivated
  <2>1. \/ UNCHANGED registryVars
        \/ op.set \in SetIds /\ MarkFailed(op.set, op.version, Command(op.set))
    BY DEF ReconcileNext, ReconcileSeesActive, ReconcileSeesCandidate, ReconcileSeesEnded,
           ReconcileEnds, ReconcileFails, FenceCandidate, ReconcileRetries, ReconcileStops
  <2> QED  BY <2>1, MarkActivatesNothing, UnchangedActivatesNothing
<1>2. CASE ReconcileSeesActive
  <2>1. inFlight = NoSet
    BY <1>2 DEF ReconcileSeesActive
  <2> QED
    BY <1>1, <1>2, <2>1 DEF ReconcileSeesActive, Install, Slot!CommitReservation, Release
<1>3. CASE ReconcileSeesCandidate
  BY <1>1, <1>3 DEF ReconcileSeesCandidate, Goto, slotVars, registryVars, Lived
<1>4. CASE ReconcileSeesEnded
  <2>1. inFlight = NoSet /\ ~Lived(op.set)
    BY <1>4 DEF ReconcileSeesEnded, ReconcileEnds, Lived
  <2>2. /\ op'.step = "cleanup" /\ op'.finish = "restore" /\ op'.code = "unknown"
        /\ SameCommand
    BY <1>4, CleanUpKeeps DEF ReconcileSeesEnded, ReconcileEnds, Answers
  <2> QED
    BY <1>1, <1>4, <2>1, <2>2
       DEF ReconcileSeesEnded, ReconcileEnds, PointerUnchanged, SameCommand, slotVars
<1>5. CASE ReconcileFails
  <2>1. inFlight = NoSet /\ ~Lived(op.set) /\ pointer = op.active
    BY <1>5 DEF ReconcileFails, FenceCandidate, RegistryFree, MarkFailed, Lived
  <2>2. /\ op'.step = "cleanup" /\ op'.finish = "restore" /\ op'.code = "unknown"
        /\ SameCommand
    BY <1>5, CleanUpKeeps DEF ReconcileFails, FenceCandidate, Answers
  <2> QED
    BY <1>1, <1>5, <2>1, <2>2 DEF ReconcileFails, FenceCandidate, SameCommand, slotVars
<1>6. CASE ReconcileRetries(TRUE)
  BY <1>1, <1>6 DEF ReconcileRetries, RegistryFree, Goto, slotVars
<1>7. CASE ReconcileRetries(FALSE)
  BY <1>1, <1>7 DEF ReconcileRetries, Goto, slotVars, registryVars
<1>8. CASE ReconcileStops
  BY <1>1, <1>8 DEF ReconcileStops, Release, slotVars, registryVars
<1> HIDE DEF StandingInv, SameCommandOrNone, NothingActivated
<1> QED
  BY <1>1, <1>2, <1>3, <1>4, <1>5, <1>6, <1>7, <1>8 DEF ReconcileNext

\* A set goes live: by the commit of the operation, or by one that was on its
\* way when the operation lost sight of it.
LEMMA ActivationKeeps ==
  ASSUME OperationInv, RegistryTypeOK, PointerMatchesStates, StandingInv, AnswerInv,
         CommitApplies \/ InFlightDecided(TRUE)
  PROVE  StandingInv' /\ AnswerInv'
<1> USE NoSetAssumption
    DEF OperationInv, Operation, RegistryTypeOK, StandingInv, SnapshotInv, InFlightInv,
        AcceptInv, ReadyInv, Uncommitted, Unknown, CleanUpOfCommand, NextPointer, Restoring,
        IsReady, CommandRuns, SameCommandOrNone
<1>1. CASE CommitApplies
  <2>1. /\ op'.step = "applied" /\ SameCommand
        /\ op.set \in SetIds /\ inFlight = NoSet /\ UNCHANGED <<slotVars, status, answer, inFlight>>
    BY <1>1, GotoKeeps DEF CommitApplies, RegistryFree, Steps
  <2>2. /\ op.version = pointer.version
        /\ pointer' = [active |-> op.set, previous |-> pointer.active, version |-> op.version + 1]
        /\ setState'[op.set] = "active"
        /\ \A t \in SetIds : Lived(t)' <=> (Lived(t) \/ t = op.set)
    BY <1>1, <2>1, ActivateMoves DEF CommitApplies
  <2>3. SameCommandOrNone /\ answer[op.set] \in Undecided
    BY <1>1, <2>1 DEF CommitApplies, SameCommand, AnswerInv
  <2>4. AnswerInv'
    BY <2>1, <2>2, <2>3, NobodyToldOfActivation
  <2> QED  BY <1>1, <2>1, <2>2, <2>4 DEF CommitApplies, SameCommand, slotVars
<1>2. CASE InFlightDecided(TRUE)
  <2>1. /\ inFlight \in SetIds /\ inFlight' = NoSet /\ UNCHANGED <<slotVars, op, status, answer>>
        /\ setState[inFlight] = "candidate" /\ answer[inFlight] \in Undecided
    BY <1>2 DEF InFlightDecided, Slot!Generations
  <2>2. /\ pointer' = [active |-> inFlight, previous |-> pointer.active,
                       version |-> pointer.version + 1]
        /\ setState'[inFlight] = "active"
        /\ \A t \in SetIds : Lived(t)' <=> (Lived(t) \/ t = inFlight)
    BY <1>2, <2>1, ActivateMoves DEF InFlightDecided
  <2>3. SameCommandOrNone
    BY <2>1
  <2>4. AnswerInv'
    BY <2>1, <2>2, <2>3, NobodyToldOfActivation
  <2>5. op.step \in Unknown => pointer = op.active
    BY <2>1 DEF Lived
  <2> QED  BY <2>1, <2>2, <2>4, <2>5 DEF slotVars
<1> QED  BY <1>1, <1>2

\* The steps of the rest of the platform.
LEMMA RestKeeps ==
  ASSUME OperationInv, RegistryTypeOK, PointerMatchesStates, StandingInv,
         Slot!SlotTypeOK,
         \/ Administrator \/ RunsAndReaper \/ Shutdown \/ CallerLeaves
         \/ InFlightDecided(FALSE) \/ UNCHANGED vars
  PROVE  StandingInv' /\ SameCommandOrNone /\ NothingActivated
<1> USE NoSetAssumption
    DEF OperationInv, Operation, RegistryTypeOK, StandingInv, SnapshotInv, InFlightInv,
        AcceptInv, ReadyInv, Uncommitted, Unknown, CleanUpOfCommand, NextPointer, Restoring,
        IsReady, CommandRuns, SameCommandOrNone, NothingActivated
<1>1. CASE Administrator
  BY <1>1, AdministratorActivatesNothing DEF slotVars, activationVars
<1>2. CASE RunsAndReaper \/ Shutdown
  <2>1. /\ UNCHANGED registryVars /\ UNCHANGED activationVars
        /\ current'.set = current.set /\ UNCHANGED <<prepared, reservation>>
        /\ accepting' => accepting
    <3>1. ASSUME NEW r \in Runs, Slot!Capture(r)
          PROVE  /\ current'.set = current.set
                 /\ UNCHANGED <<prepared, reservation, accepting>>
      BY <3>1 DEF Slot!Capture, Slot!SlotTypeOK
    <3>4. ASSUME NEW r \in Runs, NEW s, Slot!Release(r, s)
          PROVE  /\ current'.set = current.set
                 /\ UNCHANGED <<prepared, reservation, accepting>>
      BY <3>4 DEF Slot!Release, Slot!SlotTypeOK
    <3>2. CASE Slot!ReaperSteps \/ Shutdown
      BY <1>2, <3>2
         DEF RunsAndReaper, Slot!ReaperSteps, Slot!ReaperWakes, Slot!ReaperCleaned, Shutdown,
             Slot!BeginDraining, Slot!CleanupCurrent, Slot!Close
    <3>3. CASE RunsAndReaper /\ Slot!RunCalls
      <4>1. /\ current'.set = current.set
            /\ UNCHANGED <<prepared, reservation, accepting>>
        BY <3>1, <3>3, <3>4 DEF Slot!RunCalls
      <4> QED  BY <3>3, <4>1 DEF RunsAndReaper
    <3> QED  BY <1>2, <3>2, <3>3 DEF RunsAndReaper
  <2> QED  BY <2>1, UnchangedActivatesNothing DEF activationVars, registryVars
<1>3. CASE CallerLeaves
  <2>1. inFlight = NoSet
    BY <1>3 DEF CallerLeaves
  <2> QED  BY <1>3, <2>1, UnchangedActivatesNothing DEF CallerLeaves, slotVars
<1>4. CASE InFlightDecided(FALSE)
  BY <1>4, UnchangedActivatesNothing DEF InFlightDecided, slotVars
<1>5. CASE UNCHANGED vars
  BY <1>5, UnchangedActivatesNothing DEF vars, registryVars, slotVars, activationVars
<1> QED  BY <1>1, <1>2, <1>3, <1>4, <1>5

\* A command is admitted.
LEMMA AdmitKeeps ==
  ASSUME OperationInv, RegistryTypeOK, PointerMatchesStates, StandingInv, AnswerInv,
         NEW s \in SetIds, NEW version \in 0..pointer.version, Admit(s, version)
  PROVE  StandingInv' /\ AnswerInv'
<1>1. /\ op.step = "idle" /\ answer[s] = "none" /\ ~Lived(s) /\ inFlight = NoSet
      /\ current.set = pointer.active /\ status.capability # "degraded"
  BY DEF Admit, AnswerInv, StandingInv, InFlightInv, ReadyInv, Unknown
<1>2. UNCHANGED <<registryVars, slotVars, status, inFlight>> /\ NothingActivated
  BY UnchangedActivatesNothing DEF Admit
<1>3. op'.step = "loading" /\ op'.set = s /\ op'.active = NoSnapshot
  BY IdleTyped DEF Admit, Idle
<1>4. answer' = [answer EXCEPT ![s] = "waiting"] /\ answer \in [SetIds -> Answers]
  BY DEF Admit, OperationInv
<1>5. AnswerInv'
  BY <1>1, <1>2, <1>3, <1>4 DEF AnswerInv, NothingActivated, CommandRuns, Undecided, Refusals
<1>6. StandingInv'
  BY <1>1, <1>2, <1>3
     DEF StandingInv, SnapshotInv, InFlightInv, AcceptInv, ReadyInv, Uncommitted, Unknown,
         CleanUpOfCommand, Restoring, IsReady, NothingActivated, slotVars, registryVars
<1> QED  BY <1>5, <1>6

\* The process is replaced.  What it had sent may still take effect; nobody is
\* left who waits.
LEMMA RestartKeeps ==
  ASSUME OperationInv, RegistryTypeOK, StandingInv, AnswerInv, Restart
  PROVE  StandingInv' /\ AnswerInv'
<1>1. /\ op'.step = "restoring" /\ current'.set = NoSet /\ ~accepting' /\ ~reservation'
      /\ UNCHANGED registryVars /\ NothingActivated
  BY RestoreTyped, UnchangedActivatesNothing DEF Restart, Slot!ProcessStarts
<1>2. \A s \in SetIds :
        answer'[s] = IF answer[s] = "waiting" THEN "timeout" ELSE answer[s]
  BY DEF Restart
<1>3. inFlight' # NoSet =>
        inFlight' \in SetIds /\ setState[inFlight'] = "candidate"
        /\ answer[inFlight'] \in Undecided
  <2>1. CASE inFlight' = inFlight
    BY <2>1 DEF StandingInv, InFlightInv, OperationInv, Slot!Generations
  <2>2. CASE inFlight' # inFlight
    BY <2>2
       DEF Restart, ActivateConflict, OperationInv, AnswerInv, CommandRuns, Uncommitted
  <2> QED  BY <2>1, <2>2
<1>4. InFlightInv'
  BY <1>1, <1>2, <1>3 DEF InFlightInv, Undecided, registryVars
<1>5. AnswerInv'
  BY <1>1, <1>2
     DEF AnswerInv, NothingActivated, CommandRuns, Uncommitted, Unknown, CleanUpOfCommand,
         Refusals
<1> QED
  BY <1>1, <1>4, <1>5
     DEF StandingInv, SnapshotInv, AcceptInv, ReadyInv, Uncommitted, Unknown,
         CleanUpOfCommand, Restoring

-----------------------------------------------------------------------------
(* What callers are told, step by step                                     *)

\* Every step of a command that does not activate tells its caller the truth.
LEMMA AnswersKept ==
  ASSUME OperationInv, RegistryTypeOK, StandingInv, AnswerInv, NothingActivated,
         SameCommandOrNone,
         PrepareNext \/ CleanupNext \/ CommitNext \/ ReconcileNext \/ CallerLeaves
  PROVE  AnswerInv'
<1>1. answer \in [SetIds -> Answers] /\ op.set \in SetIds
  BY DEF OperationInv, PrepareNext, ActivateLoads, ActivateLoadFails, CandidateInvalid,
         SlotBusy, Reserve, Materialize, MaterializeFails, MarkRefusedCandidate, GiveUp,
         AbandonedPrepares, AbandonedFails, CleanupNext, CleanupDiscards, CleanupEnds,
         CommitNext, CommitApplies, CommitRejected, CommitTimesOut, CommitUnknown, LoseCommit,
         AnswerArrives, AnswerLost, ReconcileNext, ReconcileSeesActive,
         ReconcileSeesCandidate, ReconcileSeesEnded, ReconcileEnds, ReconcileFails,
         FenceCandidate, ReconcileRetries, ReconcileStops, CallerLeaves
<1>2. \/ UNCHANGED answer
      \/ Tell(op.set, "timeout") \/ Tell(op.set, "unknown")
      \/ \E code \in Refusals : /\ Tell(op.set, code)
                                /\ Release
                                /\ ~Lived(op.set)
      \/ Tell(op.set, "ok") /\ Release /\ Lived(op.set)
  <2>1. CASE PrepareNext
    <3>1. op.step \in {"loading", "candidate"} => ~Lived(op.set)
      BY DEF StandingInv, SnapshotInv, Uncommitted
    <3> QED
      BY <2>1, <3>1
         DEF PrepareNext, ActivateLoads, ActivateLoadFails, CandidateInvalid,
             SlotBusy, Reserve, Materialize, MaterializeFails, MarkRefusedCandidate, GiveUp,
             AbandonedPrepares, AbandonedFails, Refusals
  <2>2. CASE CleanupNext
    BY <2>2
       DEF CleanupNext, CleanupDiscards, CleanupEnds, activationVars, StandingInv,
           SnapshotInv, CleanUpOfCommand, Refusals
  <2>3. CASE CommitNext \/ ReconcileNext
    <3>1. AnswerArrives \/ ReconcileSeesActive => Lived(op.set)
      BY DEF AnswerArrives, ReconcileSeesActive, StandingInv, SnapshotInv, Lived
    <3> QED
      BY <2>3, <3>1
         DEF CommitNext, CommitApplies, CommitRejected, CommitTimesOut, CommitUnknown,
             LoseCommit, AnswerArrives, AnswerLost, ReconcileNext, ReconcileSeesActive,
             ReconcileSeesCandidate, ReconcileSeesEnded, ReconcileEnds, ReconcileFails,
             FenceCandidate, ReconcileRetries, ReconcileStops, Install
  <2>4. CASE CallerLeaves
    BY <2>4 DEF CallerLeaves
  <2> QED  BY <2>1, <2>2, <2>3, <2>4
<1>3. Release => ~CommandRuns'
  BY IdleTyped DEF Release, CommandRuns, Uncommitted, Unknown, CleanUpOfCommand
<1>4. CASE UNCHANGED answer
  BY <1>4, NobodyTold
<1>5. CASE Tell(op.set, "timeout") \/ Tell(op.set, "unknown")
  BY <1>1, <1>5, CallerTold DEF Undecided
<1>6. ASSUME NEW code \in Refusals, Tell(op.set, code), Release, ~Lived(op.set)
      PROVE  AnswerInv'
  BY <1>1, <1>3, <1>6, CallerTold
<1>7. CASE Tell(op.set, "ok") /\ Release /\ Lived(op.set)
  BY <1>1, <1>3, <1>7, CallerTold
<1> QED  BY <1>2, <1>4, <1>5, <1>6, <1>7

-----------------------------------------------------------------------------
(* The theorems                                                            *)

\* The inductive invariant of the activation.
ActivationInv ==
  /\ PartsInv
  /\ PointerMatchesStates
  /\ StandingInv
  /\ AnswerInv
  /\ ServedSetsWereActivated

\* The first process, before it restored.
LEMMA ActivationStarts ==
  ActivationInit => StandingInv /\ AnswerInv /\ ServedSetsWereActivated
<1> SUFFICES ASSUME ActivationInit
             PROVE  StandingInv /\ AnswerInv /\ ServedSetsWereActivated
  OBVIOUS
<1>1. op.step = "restoring"
  BY RestoreTyped DEF ActivationInit
<1>2. \A s \in SetIds : setState[s] = "absent" /\ answer[s] = "none"
  BY DEF ActivationInit, RegistryInit
<1>3. /\ current.set = NoSet /\ leases = {} /\ ~accepting /\ inFlight = NoSet
  BY DEF ActivationInit, Slot!SlotInit
<1> QED
  BY <1>1, <1>2, <1>3
     DEF StandingInv, SnapshotInv, InFlightInv, AcceptInv, ReadyInv, AnswerInv,
         ServedSetsWereActivated, Restoring, Uncommitted, Unknown, CleanUpOfCommand,
         CommandRuns, Refusals, Lived

\* The invariant is inductive: one case per kind of step.
LEMMA ActivationKept ==
  ASSUME ActivationInv, [ActivationNext]_vars
  PROVE  StandingInv' /\ AnswerInv' /\ ServedSetsWereActivated'
<1>1. /\ OperationInv /\ RegistryTypeOK /\ PointerMatchesStates /\ StandingInv /\ AnswerInv
      /\ Slot!SlotTypeOK
  BY SameSlot DEF ActivationInv, PartsInv, SlotProofs!SlotInv
<1>2. ServedSetsWereActivated'
  BY <1>1, ServedKept DEF ActivationInv, StandingInv
<1>0. SUFFICES StandingInv' /\ AnswerInv'
  BY <1>2
<1>3. CASE RestoreNext
  BY <1>1, <1>3, RestoreKeeps, UnchangedActivatesNothing, NobodyTold
<1>4. CASE PrepareNext
  BY <1>1, <1>4, PrepareKeeps, AnswersKept
<1>5. CASE CleanupNext
  BY <1>1, <1>5, CleanupKeeps, UnchangedActivatesNothing, AnswersKept
<1>6. CASE CommitNext /\ ~CommitApplies
  BY <1>1, <1>6, CommitKeeps, UnchangedActivatesNothing, AnswersKept
<1>7. CASE CommitApplies \/ InFlightDecided(TRUE)
  BY <1>1, <1>7, ActivationKeeps
<1>8. CASE ReconcileNext
  BY <1>1, <1>8, ReconcileKeeps, AnswersKept
<1>9. CASE CallerLeaves
  BY <1>1, <1>9, RestKeeps, AnswersKept
<1>10. CASE Administrator \/ RunsAndReaper \/ Shutdown \/ InFlightDecided(FALSE)
            \/ UNCHANGED vars
  <2>1. UNCHANGED answer
    BY <1>1, <1>10, AdministratorActivatesNothing
       DEF RunsAndReaper, Shutdown, InFlightDecided, vars, activationVars
  <2> QED  BY <1>1, <1>10, <2>1, RestKeeps, NobodyTold
<1>11. CASE Restart
  BY <1>1, <1>11, RestartKeeps
<1>12. ASSUME NEW s \in SetIds, NEW version \in 0..pointer.version, Admit(s, version)
       PROVE  StandingInv' /\ AnswerInv'
  BY <1>1, <1>12, AdmitKeeps
<1> QED
  BY <1>3, <1>4, <1>5, <1>6, <1>7, <1>8, <1>9, <1>10, <1>11, <1>12
     DEF ActivationNext

\* The inductive invariant holds while Agents restore, activate, lose answers,
\* reconcile, drain and die.
THEOREM ActivationInvariant == ActivationSpec => []ActivationInv
<1>1. ActivationInit => StandingInv /\ AnswerInv /\ ServedSetsWereActivated
  BY ActivationStarts
<1>2. PartsInv /\ PointerMatchesStates /\ StandingInv /\ AnswerInv /\ ServedSetsWereActivated
      /\ [ActivationNext]_vars
      => (StandingInv /\ AnswerInv /\ ServedSetsWereActivated)'
  BY ActivationKept DEF ActivationInv
<1>3. ActivationSpec => []PartsInv /\ []PointerMatchesStates
  BY PartsCorrect, ActivationUsesRegistry, PointerCorrect, PTL
<1>4. PartsInv /\ PointerMatchesStates /\ StandingInv /\ AnswerInv /\ ServedSetsWereActivated
      => ActivationInv
  BY DEF ActivationInv
<1> QED  BY <1>1, <1>2, <1>3, <1>4, PTL DEF ActivationSpec

\* A process that calls itself ready, between two operations, serves the set
\* and shows the version of the pointer (status_snapshot of the coordinator).
THEOREM ReadyCorrect == ActivationSpec => []ReadyMeansLoaded
<1>1. ActivationInv => ReadyMeansLoaded
  BY DEF ActivationInv, StandingInv, ReadyInv, ReadyMeansLoaded, IsReady
<1> QED  BY <1>1, ActivationInvariant, PTL

\* Runs are let in on the generation the pointer names, or, between the commit
\* and the swap, on the one that was active before it.
THEOREM AcceptedCorrect == ActivationSpec => []AcceptedRunsAreCurrent
<1>1. ActivationInv => AcceptedRunsAreCurrent
  BY DEF ActivationInv, StandingInv, AcceptInv, SnapshotInv, AcceptedRunsAreCurrent
<1> QED  BY <1>1, ActivationInvariant, PTL

\* No run is served by a set that was not activated.
THEOREM ServedCorrect == ActivationSpec => []ServedSetsWereActivated
<1>1. ActivationInv => ServedSetsWereActivated
  BY DEF ActivationInv
<1> QED  BY <1>1, ActivationInvariant, PTL

\* The log of the registry holds an activation of exactly the sets that live
\* or have lived.
LEMMA LogTellsWhoLived ==
  ASSUME RegistryTypeOK, EventsInv, NEW s \in SetIds
  PROVE  WasActivated(s) <=> Lived(s)
<1>1. ASSUME Lived(s) PROVE WasActivated(s)
  <2>1. EndedBy(s, "activate")
    BY <1>1 DEF EventsInv, Lived
  <2> QED  BY <2>1 DEF EndedBy, EndsOf, WasActivated
<1>2. ASSUME NEW e \in events, e.action = "activate", e.target = s
      PROVE  Lived(s)
  <2>1. e \in EndsOf(s)
    BY <1>2 DEF EndsOf, Ending
  <2>2. ~EndedBy(s, "fail") /\ ~EndedBy(s, "discard")
    BY <1>2, <2>1 DEF EndedBy
  <2> QED  BY <2>1, <2>2 DEF EventsInv, Lived, RegistryTypeOK, SetStates
<1> QED  BY <1>1, <1>2 DEF WasActivated

\* What a caller was told of its activation is never reversed: "ok" only of a
\* set that went live, a refusal only of one that never does.
THEOREM AnswersCorrect == ActivationSpec => []AnswersAreFinal
<1>1. ActivationInv /\ EventsInv => AnswersAreFinal
  <2> SUFFICES ASSUME ActivationInv, EventsInv, NEW s \in SetIds
               PROVE  /\ answer[s] = "ok" => WasActivated(s)
                      /\ answer[s] \in Refusals => ~WasActivated(s) /\ inFlight # s
    BY DEF AnswersAreFinal, Refusals
  <2>1. WasActivated(s) <=> Lived(s)
    BY LogTellsWhoLived DEF ActivationInv, PartsInv
  <2>2. /\ answer[s] = "ok" => Lived(s)
        /\ answer[s] \in Refusals => ~Lived(s)
    BY DEF ActivationInv, AnswerInv
  <2>3. inFlight = s => answer[s] \in Undecided
    BY NoSetAssumption DEF ActivationInv, StandingInv, InFlightInv
  <2> QED  BY <2>1, <2>2, <2>3 DEF Refusals, Undecided
<1>2. ActivationSpec => []EventsInv
  BY ActivationUsesRegistry, LogInvariant, PTL
<1> QED  BY <1>1, <1>2, ActivationInvariant, PTL

\* No run loses the files of its generation and runs are let in only on one
\* that is on disk, whatever the coordinator does with the slot.
THEOREM RunsKeepTheirFiles ==
  ActivationSpec => [](Slot!LeasedDirectoryPresent /\ Slot!AcceptedGenerationPresent)
<1>1. PartsInv => Slot!LeasedDirectoryPresent /\ Slot!AcceptedGenerationPresent
  BY DEF PartsInv, SlotProofs!SlotInv, SlotProofs!LeasedDirectoryPresent,
         SlotProofs!AcceptedGenerationPresent, Slot!LeasedDirectoryPresent,
         Slot!AcceptedGenerationPresent
<1> QED  BY <1>1, PartsCorrect, PTL

-----------------------------------------------------------------------------
(* Types                                                                   *)

StatusTypeOK ==
  status \in [capability: {"unconfigured", "preparing", "ready", "degraded"},
              active: Slot!Generations, loaded: Slot!Generations,
              previous: Slot!Generations, version: Nat]

\* A status is written from a snapshot of the pointer and a loaded set.
LEMMA StatusTyped ==
  ASSUME NEW capability \in {"unconfigured", "preparing", "ready", "degraded"},
         NEW snapshot \in Snapshot, NEW loaded \in Slot!Generations,
         status' = StatusWith(capability, snapshot, loaded)
  PROVE  StatusTypeOK'
BY DEF StatusTypeOK, StatusWith, Snapshot, Pointer, Slot!Generations

\* What a step writes to the status.
LEMMA StatusWritten ==
  ASSUME OperationInv, [ActivationNext]_vars
  PROVE  \/ UNCHANGED status
         \/ \E capability \in {"unconfigured", "preparing", "ready", "degraded"},
               snapshot \in {pointer, op.active, NoSnapshot, NextPointer},
               loaded \in {current.set, op.set, NoSet} :
              status' = StatusWith(capability, snapshot, loaded)
<1>1. CASE RestoreNext
  BY <1>1
     DEF RestoreNext, RestoreLoads, RestorePrepares, RestoreCommits, RestoreFails, Degrade,
         RestoreStatus
<1>2. CASE PrepareNext
  BY <1>2
     DEF PrepareNext, ActivateLoads, ActivateLoadFails, CandidateInvalid, SlotBusy,
         Reserve, Materialize, MaterializeFails, MarkRefusedCandidate, GiveUp,
         AbandonedPrepares, AbandonedFails, Degrade, RestoreStatus
<1>3. CASE CleanupNext
  BY <1>3 DEF CleanupNext, CleanupDiscards, CleanupEnds, RestoreStatus, activationVars
<1>4. CASE CommitNext \/ ReconcileNext
  BY <1>4
     DEF CommitNext, CommitApplies, CommitRejected, CommitTimesOut, CommitUnknown,
         LoseCommit, AnswerArrives, AnswerLost, ReconcileNext, ReconcileSeesActive,
         ReconcileSeesCandidate, ReconcileSeesEnded, ReconcileEnds, ReconcileFails,
         FenceCandidate, ReconcileRetries, ReconcileStops, Degrade, Install, NextPointer
<1>5. CASE \/ \E s \in SetIds : \E version \in 0..pointer.version : Admit(s, version)
           \/ CallerLeaves \/ Administrator \/ RunsAndReaper \/ Shutdown \/ Restart
           \/ \E applied \in BOOLEAN : InFlightDecided(applied)
           \/ UNCHANGED vars
  BY <1>5
     DEF Admit, CallerLeaves, Administrator, RunsAndReaper, Shutdown, Restart,
         InFlightDecided, activationVars, vars
<1> QED  BY <1>1, <1>2, <1>3, <1>4, <1>5 DEF ActivationNext

\* Type correctness of the composition.
THEOREM ActivationTypesCorrect == ActivationSpec => []ActivationTypeOK
<1>1. ActivationInit => StatusTypeOK
  BY DEF ActivationInit, StatusTypeOK, StatusWith, NoSnapshot, Slot!Generations
<1>2. PartsInv /\ StatusTypeOK /\ [ActivationNext]_vars => StatusTypeOK'
  <2> SUFFICES ASSUME PartsInv, StatusTypeOK, [ActivationNext]_vars
               PROVE  StatusTypeOK'
    OBVIOUS
  <2>1. /\ {pointer, op.active, NoSnapshot, NextPointer} \subseteq Snapshot
        /\ {current.set, op.set, NoSet} \subseteq Slot!Generations
    BY SameSlot
       DEF PartsInv, OperationInv, Operation, RegistryTypeOK, SlotProofs!SlotInv,
           Slot!SlotTypeOK, Slot!Generations, Snapshot, Pointer, NoSnapshot, NextPointer
  <2>2. CASE UNCHANGED status
    BY <2>2 DEF StatusTypeOK
  <2>3. CASE ~UNCHANGED status
    BY <2>1, <2>3, StatusWritten, StatusTyped DEF PartsInv
  <2> QED  BY <2>2, <2>3
<1>3. PartsInv /\ StatusTypeOK => ActivationTypeOK
  BY SameSlot
     DEF PartsInv, StatusTypeOK, ActivationTypeOK, OperationInv, Operation,
         SlotProofs!SlotInv
<1> QED  BY <1>1, <1>2, <1>3, PartsCorrect, PTL DEF ActivationSpec
=============================================================================
