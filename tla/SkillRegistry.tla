--------------------------- MODULE SkillRegistry ---------------------------
(***************************************************************************)
(* The skill_registry schema: the Skill library (skills and their          *)
(* immutable revisions), the runtime sets built from them, the pointer to  *)
(* the active set and the log of control events.                           *)
(*                                                                         *)
(* Every SQL function of skill_set_schema.py takes one advisory lock and   *)
(* runs in one transaction, so each is one action here.  A request that    *)
(* the code answers from the event log (a replay) changes nothing and is   *)
(* therefore no action.                                                    *)
(***************************************************************************)
EXTENDS Naturals, FiniteSets

CONSTANTS
  SetIds,          \* identities gen_random_uuid() hands to runtime sets
  Skills,          \* identities of library entries
  Revisions,       \* identities of uploaded revisions
  Requests,        \* request ids; the assertion nonce equals the request id
  SkillOf,         \* the library entry a revision belongs to
  CandidateQuota,  \* candidates that may wait at once (20 in the code)
  NoSet,           \* SQL NULL in a set id column
  NoRevision       \* a library entry that was never uploaded

ASSUME SkillOfAssumption == SkillOf \in [Revisions -> Skills]
ASSUME NoSetAssumption == NoSet \notin SetIds
ASSUME NoRevisionAssumption == NoRevision \notin Revisions
ASSUME QuotaAssumption == CandidateQuota \in Nat \ {0}

VARIABLES
  listing,    \* [Skills -> "absent" | "listed" | "archived"]: skills.archived_at
  currentOf,  \* [Skills -> Revisions]: skills.current_revision_id
  uploaded,   \* revisions that have a row, all in state 'published'
  setState,   \* [SetIds -> state]: agent_skill_sets.state, "absent" before insertion
  items,      \* [SetIds -> SUBSET Revisions]: agent_skill_set_items
  pointer,    \* the row of active_agent_skill_sets
  events      \* skill_set_control_events

libraryVars == <<listing, currentOf, uploaded>>
setVars == <<setState, items, pointer, events>>
registryVars == <<listing, currentOf, uploaded, setState, items, pointer, events>>

SetStates ==
  {"absent", "candidate", "active", "superseded", "failed", "discarded"}

Event == [action: {"create", "discard", "clone", "activate", "fail"},
          target: SetIds, request: Requests, version: Nat]

Pointer == [active: SetIds \cup {NoSet}, previous: SetIds \cup {NoSet},
            version: Nat]

RegistryTypeOK ==
  /\ listing \in [Skills -> {"absent", "listed", "archived"}]
  /\ currentOf \in [Skills -> Revisions \cup {NoRevision}]
  /\ uploaded \in SUBSET Revisions
  /\ setState \in [SetIds -> SetStates]
  /\ items \in [SetIds -> SUBSET Revisions]
  /\ pointer \in Pointer
  /\ events \in SUBSET Event

RegistryInit ==
  /\ listing = [k \in Skills |-> "absent"]
  /\ currentOf = [k \in Skills |-> NoRevision]
  /\ uploaded = {}
  /\ setState = [s \in SetIds |-> "absent"]
  /\ items = [s \in SetIds |-> {}]
  /\ pointer = [active |-> NoSet, previous |-> NoSet, version |-> 0]
  /\ events = {}

-----------------------------------------------------------------------------
(* Reading the schema                                                      *)

\* A revision that may enter a set: published, its skill not archived.
Available(r) == r \in uploaded /\ listing[SkillOf[r]] = "listed"

ActiveItems == IF pointer.active = NoSet THEN {} ELSE items[pointer.active]

\* The join of the active pointer with its items, by skill.
InActiveSet(k) == \E r \in ActiveItems : SkillOf[r] = k

\* The nonce is UNIQUE over the whole event table, whatever the action.
NonceUnused(q) == \A e \in events : e.request # q

Candidates == {s \in SetIds : setState[s] = "candidate"}

Record(action, s, q, v) ==
  events' = events \cup
    {[action |-> action, target |-> s, request |-> q, version |-> v]}

-----------------------------------------------------------------------------
(* The library: repository.py                                              *)

\* create_upload_revision for a name no listed skill has.
UploadSkill(r) ==
  LET k == SkillOf[r] IN
  /\ listing[k] = "absent"
  /\ listing' = [listing EXCEPT ![k] = "listed"]
  /\ currentOf' = [currentOf EXCEPT ![k] = r]
  /\ uploaded' = uploaded \cup {r}
  /\ UNCHANGED setVars

\* create_upload_revision with a target skill: the digest the administrator
\* saw must still be the current one, and the current revision follows the
\* upload only while the skill is not in the active set.
ReplaceRevision(r, expected) ==
  LET k == SkillOf[r] IN
  /\ listing[k] = "listed"
  /\ currentOf[k] = expected
  /\ r \notin uploaded
  /\ uploaded' = uploaded \cup {r}
  /\ currentOf' = IF InActiveSet(k) THEN currentOf
                                    ELSE [currentOf EXCEPT ![k] = r]
  /\ UNCHANGED listing
  /\ UNCHANGED setVars

\* Variant: archiving trusts the library view and never asks the active set.
ArchiveSkillUnguarded(k, expected) ==
  /\ listing[k] = "listed"
  /\ currentOf[k] = expected
  /\ listing' = [listing EXCEPT ![k] = "archived"]
  /\ UNCHANGED <<currentOf, uploaded>>
  /\ UNCHANGED setVars

\* archive_skill, and the guard trigger of schema version 10 behind it.
ArchiveSkill(k, expected) ==
  /\ listing[k] = "listed"
  /\ currentOf[k] = expected
  /\ ~InActiveSet(k)
  /\ listing' = [listing EXCEPT ![k] = "archived"]
  /\ UNCHANGED <<currentOf, uploaded>>
  /\ UNCHANGED setVars

-----------------------------------------------------------------------------
(* Runtime sets: skill_set_schema.py                                       *)

\* create_agent_skill_set; the deferred trigger of schema version 8 checks
\* the contents again at commit, inside the same advisory lock.
CreateSet(s, revisions, q) ==
  /\ NonceUnused(q)
  /\ setState[s] = "absent"
  /\ Cardinality(Candidates) < CandidateQuota
  /\ \A r \in revisions : Available(r)
  /\ \A r1, r2 \in revisions : SkillOf[r1] = SkillOf[r2] => r1 = r2
  /\ setState' = [setState EXCEPT ![s] = "candidate"]
  /\ items' = [items EXCEPT ![s] = revisions]
  /\ Record("create", s, q, 0)
  /\ UNCHANGED pointer
  /\ UNCHANGED libraryVars

\* Variant: a discard that does not look at the state of the set.
DiscardAnySet(s, q) ==
  /\ NonceUnused(q)
  /\ setState[s] # "absent"
  /\ setState' = [setState EXCEPT ![s] = "discarded"]
  /\ Record("discard", s, q, 0)
  /\ UNCHANGED <<items, pointer>>
  /\ UNCHANGED libraryVars

\* discard_agent_skill_set
DiscardSet(s, q) ==
  /\ NonceUnused(q)
  /\ setState[s] = "candidate"
  /\ setState' = [setState EXCEPT ![s] = "discarded"]
  /\ Record("discard", s, q, 0)
  /\ UNCHANGED <<items, pointer>>
  /\ UNCHANGED libraryVars

\* clone_previous_agent_skill_set: a rollback is a new candidate with the
\* items of the previous set, never the previous set itself.
ClonePrevious(s, version, previous, q) ==
  /\ NonceUnused(q)
  /\ setState[s] = "absent"
  /\ pointer.version > 0
  /\ pointer.version = version
  /\ pointer.previous = previous
  /\ previous # NoSet
  /\ setState[previous] = "superseded"
  /\ \A r \in items[previous] : Available(r)
  /\ Cardinality(Candidates) < CandidateQuota
  /\ setState' = [setState EXCEPT ![s] = "candidate"]
  /\ items' = [items EXCEPT ![s] = items[previous]]
  /\ Record("clone", s, q, 0)
  /\ UNCHANGED pointer
  /\ UNCHANGED libraryVars

\* Variant: a superseded set may be activated again.
ActivateConflictLoose(s, version, q) ==
  \/ ~NonceUnused(q)
  \/ pointer.version # version
  \/ setState[s] \notin {"candidate", "superseded"}

\* What the guards of activate_agent_skill_set ask, split by the error the
\* function raises, because the agent acts on which of them failed.
ActivateConflict(s, version, q) ==
  \/ ~NonceUnused(q)
  \/ pointer.version # version
  \/ setState[s] # "candidate"

ActivateInvalid(s) == \E r \in items[s] : ~Available(r)

\* Variant: the old active set is left in state active.
ActivateKeepingOld(s, version, q) ==
  /\ ~ActivateConflict(s, version, q)
  /\ ~ActivateInvalid(s)
  /\ setState' = [setState EXCEPT ![s] = "active"]
  /\ pointer' = [active |-> s, previous |-> pointer.active,
                 version |-> version + 1]
  /\ Record("activate", s, q, version + 1)
  /\ UNCHANGED <<listing, uploaded, items, currentOf>>

\* activate_agent_skill_set with the trigger sync_current_skill_revisions:
\* the active set is superseded, the candidate takes over, the pointer moves
\* by one version and every skill in the set points at the set's revision.
Activate(s, version, q) ==
  /\ ~ActivateConflict(s, version, q)
  /\ ~ActivateInvalid(s)
  /\ setState' = [t \in SetIds |->
       IF t = s THEN "active"
       ELSE IF t = pointer.active THEN "superseded" ELSE setState[t]]
  /\ pointer' = [active |-> s, previous |-> pointer.active,
                 version |-> version + 1]
  /\ currentOf' = [k \in Skills |->
       IF \E r \in items[s] : SkillOf[r] = k
       THEN CHOOSE r \in items[s] : SkillOf[r] = k
       ELSE currentOf[k]]
  /\ Record("activate", s, q, version + 1)
  /\ UNCHANGED <<listing, uploaded, items>>

\* Variant: the failure is recorded as an error of the set, a state the
\* column does not allow.
MarkError(s, version, q) ==
  /\ NonceUnused(q)
  /\ pointer.version = version
  /\ setState[s] = "candidate"
  /\ setState' = [setState EXCEPT ![s] = "error"]
  /\ Record("fail", s, q, 0)
  /\ UNCHANGED <<items, pointer>>
  /\ UNCHANGED libraryVars

\* mark_agent_skill_set_failed
MarkFailed(s, version, q) ==
  /\ NonceUnused(q)
  /\ pointer.version = version
  /\ setState[s] = "candidate"
  /\ setState' = [setState EXCEPT ![s] = "failed"]
  /\ Record("fail", s, q, 0)
  /\ UNCHANGED <<items, pointer>>
  /\ UNCHANGED libraryVars

RegistryNext ==
  \/ \E r \in Revisions : UploadSkill(r)
  \/ \E r, expected \in Revisions : ReplaceRevision(r, expected)
  \/ \E k \in Skills, expected \in Revisions : ArchiveSkill(k, expected)
  \/ \E s \in SetIds, revisions \in SUBSET Revisions, q \in Requests :
        CreateSet(s, revisions, q)
  \/ \E s \in SetIds, q \in Requests : DiscardSet(s, q)
  \/ \E s, previous \in SetIds, q \in Requests :
        ClonePrevious(s, pointer.version, previous, q)
  \/ \E s \in SetIds, q \in Requests : Activate(s, pointer.version, q)
  \/ \E s \in SetIds, q \in Requests : MarkFailed(s, pointer.version, q)

RegistrySpec == RegistryInit /\ [][RegistryNext]_registryVars

-----------------------------------------------------------------------------
(* Properties                                                              *)

\* The pointer and the set states tell the same story: the pointed set is
\* the only active one, the previous one is superseded, and there is no
\* pointer before the first activation.  Two columns of two tables, written
\* by activate_agent_skill_set and read apart by reconcile and load_active.
PointerMatchesStates ==
  /\ {s \in SetIds : setState[s] = "active"} =
       IF pointer.active = NoSet THEN {} ELSE {pointer.active}
  /\ pointer.active = NoSet <=> pointer.version = 0
  /\ pointer.previous = NoSet <=> pointer.version < 2
  /\ pointer.previous # NoSet => setState[pointer.previous] = "superseded"

\* Whatever order archives, uploads and activations are committed in, the
\* set the agent loads holds only published revisions of listed skills, and
\* the library shows for each of its skills exactly the loaded revision.
ActiveSetIsCurrent ==
  \A r \in ActiveItems : Available(r) /\ currentOf[SkillOf[r]] = r

\* The event log explains every set: an activated set has exactly one
\* activation event and no failure or discard, a failed or discarded one has
\* exactly one such event, and the activation versions run 1..version
\* without gaps.  This is what an unknown commit is reconciled against.
EventsExplainStates ==
  /\ \A s \in SetIds :
       LET ends == {e \in events : e.target = s
                      /\ e.action \in {"activate", "fail", "discard"}} IN
       CASE setState[s] \in {"absent", "candidate"} -> ends = {}
         [] setState[s] \in {"active", "superseded"} ->
              Cardinality(ends) = 1 /\ \A e \in ends : e.action = "activate"
         [] setState[s] = "failed" ->
              Cardinality(ends) = 1 /\ \A e \in ends : e.action = "fail"
         [] setState[s] = "discarded" ->
              Cardinality(ends) = 1 /\ \A e \in ends : e.action = "discard"
  /\ {e.version : e \in {f \in events : f.action = "activate"}}
       = 1..pointer.version

\* The i-th activated set, read from the event log.
ActivatedAt(i) ==
  CHOOSE s \in SetIds : \E e \in events :
    e.action = "activate" /\ e.version = i /\ e.target = s

Log == INSTANCE ActivationLog
         WITH log <- [i \in 1..pointer.version |-> ActivatedAt(i)]

\* The registry implements the activation log.
ImplementsActivationLog == Log!LogSpec
=============================================================================
