---------------------------- MODULE SkillLifecycle ----------------------------
(***************************************************************************)
(* One product action on a Skill (enable, disable, replace, delete), as    *)
(* the web server makes it from requests to the Skill Registry and to the  *)
(* Agent: lifecycle-handler.ts, admin-skill-lifecycle-commands.ts and the  *)
(* upload handler of src/apps/web/src/app/api/v1/admin/assistant/skills.   *)
(*                                                                         *)
(* The web server keeps no state between its requests.  It reads the       *)
(* library and the active set, writes a new set, has the Agent activate it *)
(* against the version it read, and reads again to see what happened.      *)
(* Each request may fail or lose its answer; other administrators work     *)
(* meanwhile.  The Registry and the Agent appear as the web server sees    *)
(* them; SkillRegistry and SkillActivation are their own modules.          *)
(***************************************************************************)
EXTENDS Naturals, FiniteSets

CONSTANTS Consoles,       \* panels of administrators, each with at most one request
          Skills,
          NoSkill,
          MaxUploads,     \* bound: revisions uploaded of each Skill
          MaxSets,        \* bound: runtime sets ever created
          MaxRequests,    \* bound: requests asked of the web server
          MaxSkillFaults  \* bound: lost answers, failed calls, restarts of the Agent

ASSUME LifecycleAssumption == /\ NoSkill \notin Skills
                              /\ MaxUploads \in Nat \ {0}
                              /\ MaxSets \in Nat \ {0}
                              /\ MaxRequests \in Nat
                              /\ MaxSkillFaults \in Nat

VARIABLES library,     \* Registry: what is listed, the current revision, how many there are
          sets,        \* Registry: runtime sets with their state and their revisions
          activeSet,   \* Registry: the active set, 0 before the first activation
          version,     \* Registry: activationVersion
          loadedSet,   \* Agent: the set it runs
          agentSet,    \* Agent: the active set and the version of its status
          job,         \* Agent: the activation that holds its lock
          command,     \* web server: the request of each console
          unresolved,  \* consoles that wait for an unknown result to be confirmed
          tookEffect,  \* requests whose result held at some time while they ran
          requests, skillFaults

lifecycleVars == <<library, sets, activeSet, version, loadedSet, agentSet, job, command,
                   unresolved, tookEffect, requests, skillFaults>>

RevisionsOf(k) == {k} \X (1..MaxUploads)
AllRevisions == Skills \X (1..MaxUploads)
NoSet == [state |-> "absent", items |-> {}]
NoJob == [set |-> 0, expected |-> 0, step |-> "none"]
NoCommand == [pc |-> "idle", op |-> "none", skill |-> NoSkill, reads |-> {}, fresh |-> 0,
              enabled |-> FALSE, current |-> 0, listed |-> 0, active |-> 0, expected |-> 0,
              next |-> {}, candidate |-> 0, code |-> "none"]

\* No request under way: some Skills were uploaded, and some of them are enabled.
LifecycleInit ==
  /\ \E listed \in SUBSET Skills : \E enabled \in SUBSET listed :
       /\ library = [k \in Skills |-> IF k \in listed
                                     THEN [state |-> "listed", current |-> 1, uploads |-> 1]
                                     ELSE [state |-> "absent", current |-> 0, uploads |-> 0]]
       /\ activeSet = IF enabled = {} THEN 0 ELSE 1
       /\ sets = [s \in 1..MaxSets |-> IF s = activeSet
                                      THEN [state |-> "active", items |-> enabled \X {1}]
                                      ELSE NoSet]
  /\ version = activeSet
  /\ loadedSet = activeSet /\ agentSet = [active |-> activeSet, version |-> version]
  /\ job = NoJob
  /\ command = [c \in Consoles |-> NoCommand]
  /\ unresolved = {} /\ tookEffect = {}
  /\ requests = 0 /\ skillFaults = 0

-----------------------------------------------------------------------------
registryState == <<library, sets, activeSet, version>>
agentState == <<loadedSet, agentSet, job>>
Quiet == UNCHANGED <<registryState, agentState, unresolved, tookEffect>>
CallFails == /\ skillFaults < MaxSkillFaults /\ skillFaults' = skillFaults + 1
             /\ UNCHANGED requests
CallWorks == UNCHANGED <<requests, skillFaults>>

ItemsOf(s) == IF s = 0 THEN {} ELSE sets[s].items
Has(items, k) == items \cap RevisionsOf(k) # {}
Listed(k) == library[k].state = "listed"

Step(c, pc) == command' = [command EXCEPT ![c].pc = pc]
\* The request ends; what it is judged by is kept until the panel has its answer.
AnswerWith(c, code) ==
  command' = [command EXCEPT ![c] =
    [NoCommand EXCEPT !.pc = "answered", !.op = command[c].op, !.skill = command[c].skill,
                      !.listed = command[c].listed, !.candidate = command[c].candidate,
                      !.code = code]]

\* What the administrator asked for, as it shows in the active set.
Holds(cmd, items) ==
  CASE cmd.op = "enable"  -> Has(items, cmd.skill)
    [] cmd.op = "replace" -> cmd.fresh = 0 \/ <<cmd.skill, cmd.fresh>> \in items
                               \/ ~Has(items, cmd.skill)
    [] OTHER              -> ~Has(items, cmd.skill)
\* The requests whose result holds once the active set has these items.
NowHolds(items) == {c \in Consoles : command[c].pc \notin {"idle", "answered"}
                                     /\ Holds(command[c], items)}

\* mutate: one request at a time, none while a result is unknown.  The buttons
\* follow a list that may be out of date, so that any operation may be asked
\* of a Skill that is, or was, in the library.
Ask(c, op, k) ==
  /\ command[c] = NoCommand /\ c \notin unresolved
  /\ library[k].state # "absent"
  /\ requests < MaxRequests /\ requests' = requests + 1
  /\ command' = [command EXCEPT ![c] =
       [NoCommand EXCEPT !.pc = IF op = "replace" THEN "upload" ELSE "read", !.op = op,
                         !.skill = k, !.reads = IF op = "replace" THEN {}
                                                ELSE {"skill", "revisions", "runtime"}]]
  /\ tookEffect' = IF Holds([op |-> op, skill |-> k, fresh |-> 0], ItemsOf(activeSet))
                   THEN tookEffect \cup {c} ELSE tookEffect \ {c}
  /\ UNCHANGED <<registryState, agentState, unresolved, skillFaults>>

\* The panel takes the answer, refreshes its list, and blocks if the result is unknown.
TakeAnswer(c) ==
  /\ command[c].pc = "answered"
  /\ unresolved' = IF command[c].code = "unknown" THEN unresolved \cup {c} ELSE unresolved
  /\ command' = [command EXCEPT ![c] = NoCommand]
  /\ tookEffect' = tookEffect \ {c}
  /\ UNCHANGED <<registryState, agentState>> /\ CallWorks

\* A later list shows the expected state, or the administrator reloads the page.
Confirm(c) == /\ c \in unresolved /\ unresolved' = unresolved \ {c}
              /\ UNCHANGED <<registryState, agentState, command, tookEffect>> /\ CallWorks

-----------------------------------------------------------------------------
\* Uploads, in the Registry.  A new Skill is not enabled by its upload.
UploadNew(c, k) ==
  /\ command[c] = NoCommand /\ c \notin unresolved
  /\ library[k].state = "absent"
  /\ library' = [library EXCEPT ![k] = [state |-> "listed", current |-> 1, uploads |-> 1]]
  /\ UNCHANGED <<sets, activeSet, version, agentState, command, unresolved, tookEffect>>
  /\ CallWorks

\* The replacement of an enabled Skill becomes current only with its activation.
UploadReplacement(c) ==
  LET k == command[c].skill
      n == library[k].uploads + 1
  IN /\ command[c].pc = "upload" /\ Listed(k) /\ n <= MaxUploads
     /\ library' = [library EXCEPT ![k].uploads = n,
                      ![k].current = IF Has(ItemsOf(activeSet), k) THEN @ ELSE n]
     /\ \/ command' = [command EXCEPT ![c].pc = "read", ![c].fresh = n,
                                      ![c].reads = {"skill"}] /\ CallWorks
        \/ AnswerWith(c, "unavailable") /\ CallFails
     /\ tookEffect' = IF Has(ItemsOf(activeSet), k) THEN tookEffect \ {c} ELSE tookEffect
     /\ UNCHANGED <<sets, activeSet, version, agentState, unresolved>>

RefuseUpload(c) ==
  /\ command[c].pc = "upload"
  /\ ~Listed(command[c].skill) \/ library[command[c].skill].uploads = MaxUploads
  /\ AnswerWith(c, "conflict") /\ CallWorks /\ Quiet

-----------------------------------------------------------------------------
\* findSkill, listSkillRevisionIds and runtimeStatus: three reads in any order
\* (the upload handler reads the runtime only after the Skill).
ReadSkill(c) ==
  LET k == command[c].skill IN
  /\ command[c].pc = "read" /\ "skill" \in command[c].reads
  /\ command' = [command EXCEPT ![c].reads = (@ \ {"skill"}) \cup
                      (IF command[c].op = "replace" THEN {"runtime"} ELSE {}),
                   ![c].enabled = Has(ItemsOf(activeSet), k),
                   ![c].current = IF Listed(k) THEN library[k].current ELSE 0]
  /\ Quiet /\ CallWorks

ReadRevisions(c) ==
  LET k == command[c].skill IN
  /\ command[c].pc = "read" /\ "revisions" \in command[c].reads
  /\ command' = [command EXCEPT ![c].reads = @ \ {"revisions"},
                   ![c].listed = IF Listed(k) THEN library[k].uploads ELSE 0]
  /\ Quiet /\ CallWorks

ReadRuntime(c) ==
  /\ command[c].pc = "read" /\ "runtime" \in command[c].reads
  /\ "skill" \in command[c].reads => command[c].op # "replace"
  /\ command' = [command EXCEPT ![c].reads = @ \ {"runtime"}, ![c].active = activeSet,
                                ![c].expected = version]
  /\ Quiet /\ CallWorks

\* Any read, and any request after them, may end without an answer.
CallLost(c) ==
  /\ command[c].pc \in {"upload", "read", "before", "create", "after", "archive"}
  /\ AnswerWith(c, "unavailable") /\ CallFails /\ Quiet

\* The set that was read, without the revisions the list names for the Skill.
Others(cmd) == {r \in ItemsOf(cmd.active) : ~(r[1] = cmd.skill /\ r[2] <= cmd.listed)}
NextItems(cmd) ==
  CASE cmd.op = "enable"  -> Others(cmd) \cup {<<cmd.skill, cmd.current>>}
    [] cmd.op = "replace" -> {IF r = <<cmd.skill, cmd.current>> THEN <<cmd.skill, cmd.fresh>>
                              ELSE r : r \in ItemsOf(cmd.active)}
    [] OTHER              -> Others(cmd)

NeedsActivation(cmd) ==
  CASE cmd.op = "enable"  -> ~cmd.enabled \/ <<cmd.skill, cmd.current>> \notin ItemsOf(cmd.active)
    [] cmd.op = "replace" -> cmd.current # cmd.fresh
    [] OTHER              -> cmd.enabled

\* The replacement must still be the inactive current revision, or find the
\* enabled revision it is to take the place of.
Misfits(cmd) ==
  CASE cmd.op = "enable"  -> cmd.current > cmd.listed
    [] cmd.op = "replace" -> /\ cmd.enabled \/ cmd.current # cmd.fresh
                             /\ ~cmd.enabled \/ <<cmd.skill, cmd.current>> \notin ItemsOf(cmd.active)
    [] OTHER              -> FALSE

Decide(c) ==
  LET cmd == command[c] IN
  /\ cmd.pc = "read" /\ cmd.reads = {}
  /\ IF cmd.current = 0 THEN AnswerWith(c, "not_found")
     ELSE IF Misfits(cmd) THEN AnswerWith(c, "conflict")
     ELSE IF NeedsActivation(cmd)
     THEN command' = [command EXCEPT ![c].pc = "before", ![c].next = NextItems(cmd),
                                     ![c].reads = {"registry", "agent"}]
     ELSE IF cmd.op = "delete" THEN Step(c, "archive")
     ELSE AnswerWith(c, "ok")
  /\ Quiet /\ CallWorks

-----------------------------------------------------------------------------
\* applySkillSet.  Both sides must show the version the request started from.
RegistryAgrees(cmd) == version = cmd.expected
AgentAgrees(cmd) == agentSet.version = cmd.expected /\ agentSet.active = loadedSet

CheckBefore(c, side) ==
  LET cmd == command[c]
      agrees == IF side = "registry" THEN RegistryAgrees(cmd) ELSE AgentAgrees(cmd)
  IN /\ cmd.pc = "before" /\ side \in cmd.reads
     /\ IF ~agrees THEN AnswerWith(c, "conflict")
        ELSE command' = [command EXCEPT ![c].reads = @ \ {side},
                           ![c].pc = IF cmd.reads = {side} THEN "create" ELSE @]
     /\ Quiet /\ CallWorks

\* The Registry accepts listed revisions, one for each Skill.
Insertable(items) ==
  /\ \A r \in items : Listed(r[1])
  /\ \A r1, r2 \in items : r1[1] = r2[1] => r1 = r2

\* createSkillSet; without its answer the web server does not know the set.
CreateCandidate(c) ==
  LET unused == {s \in 1..MaxSets : sets[s] = NoSet} IN
  /\ command[c].pc = "create"
  /\ IF Insertable(command[c].next)
     THEN \E s \in unused :
            /\ \A t \in unused : s <= t
            /\ sets' = [sets EXCEPT ![s] = [state |-> "candidate", items |-> command[c].next]]
            /\ \/ command' = [command EXCEPT ![c].pc = "activate", ![c].candidate = s] /\ CallWorks
               \/ AnswerWith(c, "unavailable") /\ CallFails
     ELSE AnswerWith(c, "unavailable") /\ CallWorks /\ UNCHANGED sets
  /\ UNCHANGED <<library, activeSet, version, agentState, unresolved, tookEffect>>

\* The Agent: one activation at a time, busy answers to the others.
Waiting(c) == command[c].pc = "activate"
AgentTakes(c) ==
  /\ Waiting(c) /\ job = NoJob
  /\ job' = [set |-> command[c].candidate, expected |-> command[c].expected,
             step |-> "preparing"]
  /\ UNCHANGED <<registryState, loadedSet, agentSet, command, unresolved, tookEffect>>
  /\ CallWorks
AgentBusy(c) ==
  /\ Waiting(c) /\ job.set \notin {0, command[c].candidate}
  /\ command' = [command EXCEPT ![c].pc = "discard", ![c].code = "unavailable"]
  /\ Quiet /\ CallWorks

\* The answer reaches the request that asked for this set, if it still waits.
Report(pc, code) ==
  command' = [c \in Consoles |-> IF Waiting(c) /\ command[c].candidate = job.set
                                 THEN [command[c] EXCEPT !.pc = pc, !.code = code]
                                 ELSE command[c]]

\* A defect the checks must find: the version of the pointer is not compared.
ActivatableAnyVersion == sets[job.set].state = "candidate" /\ Insertable(sets[job.set].items)

\* What activate_agent_skill_set asks.
Activatable == /\ version = job.expected
               /\ sets[job.set].state = "candidate"
               /\ Insertable(sets[job.set].items)

AgentRefuses ==
  /\ job.step = "preparing"
  /\ IF version # job.expected
     THEN Report("discard", "conflict") /\ CallWorks /\ UNCHANGED sets
     ELSE /\ Report("discard", "unavailable")
          /\ IF Activatable THEN CallFails ELSE CallWorks
          /\ sets' \in {sets, IF sets[job.set].state = "candidate"
                              THEN [sets EXCEPT ![job.set].state = "failed"] ELSE sets}
  /\ job' = NoJob
  /\ UNCHANGED <<library, activeSet, version, loadedSet, agentSet, unresolved, tookEffect>>

\* The commit moves the pointer, and with it the current revisions.
AgentCommits ==
  LET items == sets[job.set].items
  IN /\ job.step = "preparing" /\ Activatable
     /\ sets' = [t \in 1..MaxSets |->
          IF t = job.set THEN [sets[t] EXCEPT !.state = "active"]
          ELSE IF t = activeSet THEN [sets[t] EXCEPT !.state = "superseded"] ELSE sets[t]]
     /\ activeSet' = job.set /\ version' = version + 1
     /\ library' = [k \in Skills |->
          IF Has(items, k)
          THEN [library[k] EXCEPT !.current = CHOOSE n \in 1..MaxUploads : <<k, n>> \in items]
          ELSE library[k]]
     /\ tookEffect' = tookEffect \cup NowHolds(items)
     /\ \/ job' = [job EXCEPT !.step = "committed"] /\ UNCHANGED command /\ CallWorks
        \/ job' = [job EXCEPT !.step = "unknown"]
           /\ Report("failed", "unknown") /\ CallFails
     /\ UNCHANGED <<loadedSet, agentSet, unresolved>>

\* A defect the checks must find: the status runs ahead of the pointer.
AgentSwapsAhead ==
  /\ job.step \in {"committed", "unknown"}
  /\ loadedSet' = activeSet
  /\ agentSet' = [active |-> activeSet, version |-> version + 1]
  /\ job' = NoJob
  /\ Report("after", "none")
  /\ UNCHANGED <<registryState, unresolved, tookEffect>> /\ CallWorks

\* The swap of the runtime slot, or the discovery that the unknown commit was taken.
AgentSwaps ==
  /\ job.step \in {"committed", "unknown"}
  /\ loadedSet' = activeSet
  /\ agentSet' = [active |-> activeSet, version |-> version]
  /\ job' = NoJob
  /\ Report("after", "none")
  /\ UNCHANGED <<registryState, unresolved, tookEffect>> /\ CallWorks

\* Deadlines of the Agent and of the client, lost answers, a restart of the
\* Agent: the web server is told nothing of what the activation came to.
ActivationLost(c) ==
  /\ Waiting(c)
  /\ command' = [command EXCEPT ![c].pc = "discard", ![c].code = "unavailable"]
  /\ CallFails /\ Quiet
AgentRestarts ==
  /\ job # NoJob /\ job' = NoJob
  /\ loadedSet' = activeSet /\ agentSet' = [active |-> activeSet, version |-> version]
  /\ Report("discard", "unavailable")
  /\ CallFails
  /\ UNCHANGED <<registryState, unresolved, tookEffect>>

\* discardSkillSet, whose failure is swallowed; a set that is not a candidate stays.
Discard(c) ==
  /\ command[c].pc = "discard"
  /\ \/ /\ sets' = IF sets[command[c].candidate].state = "candidate"
                   THEN [sets EXCEPT ![command[c].candidate].state = "discarded"] ELSE sets
        /\ CallWorks
     \/ UNCHANGED sets /\ CallFails
  /\ Step(c, "failed")
  /\ UNCHANGED <<library, activeSet, version, agentState, unresolved, tookEffect>>

\* The reads after the activation: both sides must show the new set and its version.
CheckAfter(c) ==
  LET cmd == command[c] IN
  /\ cmd.pc = "after"
  /\ IF activeSet = cmd.candidate /\ agentSet.active = cmd.candidate
        /\ loadedSet = cmd.candidate /\ version = cmd.expected + 1
     THEN Step(c, "succeeded")
     ELSE command' = [command EXCEPT ![c].pc = "failed", ![c].code = "unknown"]
  /\ Quiet /\ CallWorks

\* The audit record is written in the end; success without it counts as unknown.
Audit(c) ==
  /\ \/ command[c].pc = "failed" /\ AnswerWith(c, command[c].code) /\ CallWorks
     \/ /\ command[c].pc = "succeeded" /\ CallWorks
        /\ IF command[c].op = "delete" THEN Step(c, "archive") ELSE AnswerWith(c, "ok")
     \/ command[c].pc = "succeeded" /\ AnswerWith(c, "unknown") /\ CallFails
  /\ Quiet

\* A defect the checks must find: an active Skill is archived.
ArchiveActive(c) ==
  LET granted == Listed(command[c].skill) IN
  /\ command[c].pc = "archive"
  /\ library' = IF granted THEN [library EXCEPT ![command[c].skill].state = "archived"]
                ELSE library
  /\ AnswerWith(c, IF granted THEN "ok" ELSE "conflict") /\ CallWorks
  /\ UNCHANGED <<sets, activeSet, version, agentState, unresolved, tookEffect>>

\* archiveSkill: refused while the Skill is active or when its content has changed.
Archive(c) ==
  LET k == command[c].skill
      granted == Listed(k) /\ ~Has(ItemsOf(activeSet), k)
                   /\ library[k].current = command[c].current
  IN /\ command[c].pc = "archive"
     /\ library' = IF granted THEN [library EXCEPT ![k].state = "archived"] ELSE library
     /\ \/ AnswerWith(c, IF granted THEN "ok" ELSE "conflict") /\ CallWorks
        \/ granted /\ AnswerWith(c, "unavailable") /\ CallFails
     /\ UNCHANGED <<sets, activeSet, version, agentState, unresolved, tookEffect>>

-----------------------------------------------------------------------------
WebStep(c) ==
  \/ \E k \in Skills : UploadNew(c, k) \/ \E op \in {"enable", "disable", "delete", "replace"} :
                                            Ask(c, op, k)
  \/ TakeAnswer(c) \/ Confirm(c) \/ UploadReplacement(c) \/ RefuseUpload(c)
  \/ ReadSkill(c) \/ ReadRevisions(c) \/ ReadRuntime(c) \/ CallLost(c) \/ Decide(c)
  \/ \E side \in {"registry", "agent"} : CheckBefore(c, side)
  \/ CreateCandidate(c) \/ Discard(c) \/ CheckAfter(c) \/ Audit(c) \/ Archive(c)
AgentStep ==
  \/ AgentRefuses \/ AgentCommits \/ AgentSwaps \/ AgentRestarts
  \/ \E c \in Consoles : AgentTakes(c) \/ AgentBusy(c) \/ ActivationLost(c)

LifecycleNext == (\E c \in Consoles : WebStep(c)) \/ AgentStep
LifecycleSpec == LifecycleInit /\ [][LifecycleNext]_lifecycleVars

-----------------------------------------------------------------------------
\* The shape of the state.
LifecycleTypeOK ==
  /\ library \in [Skills -> [state : {"absent", "listed", "archived"},
                             current : 0..MaxUploads, uploads : 0..MaxUploads]]
  /\ sets \in [1..MaxSets -> [state : {"absent", "candidate", "active", "superseded",
                                       "failed", "discarded"},
                              items : SUBSET AllRevisions]]
  /\ {activeSet, loadedSet, agentSet.active} \subseteq 0..MaxSets
  /\ version \in Nat /\ agentSet.version \in 0..version
  /\ job.set \in 0..MaxSets /\ job.expected \in 0..version
  /\ job.step \in {"none", "preparing", "committed", "unknown"}
  /\ unresolved \subseteq Consoles /\ tookEffect \subseteq Consoles
  /\ requests \in 0..MaxRequests /\ skillFaults \in 0..MaxSkillFaults
  /\ \A c \in Consoles :
       /\ command[c].skill \in Skills \cup {NoSkill}
       /\ command[c].candidate \in 0..MaxSets
       /\ command[c].next \subseteq AllRevisions

\* An activation changes the Skill it was asked for and no other one, although
\* the new set was put together from earlier reads and other administrators
\* changed the set since: their changes are never lost.
OnlyTheNamedSkillChanges ==
  [][activeSet' # activeSet =>
       \E k \in Skills : {r \in ItemsOf(activeSet) : r[1] # k}
                           = {r \in ItemsOf(activeSet)' : r[1] # k}]_lifecycleVars

\* What an answer says is what happened.  After "ok" the result held at some
\* time during the request (unless another revision of the Skill was uploaded
\* behind the list it read), and a deleted Skill is gone for good: archived,
\* and in no active set.  After "conflict" its activation never came to be.
AnswersTookEffect ==
  \A c \in Consoles : LET cmd == command[c] IN cmd.pc = "answered" =>
    /\ cmd.code = "ok" => \/ c \in tookEffect
                          \/ cmd.op # "replace" /\ library[cmd.skill].uploads > cmd.listed
    /\ cmd.code = "ok" /\ cmd.op = "delete" =>
         library[cmd.skill].state = "archived" /\ ~Has(ItemsOf(activeSet), cmd.skill)
    /\ cmd.code = "conflict" /\ cmd.op # "delete" /\ cmd.candidate # 0 =>
         sets[cmd.candidate].state \notin {"active", "superseded"}

\* The design says of enabling and disabling that a failure leaves the runtime
\* as it was (docs/superpowers/specs/2026-08-07-simple-skill-management-design.md).
FailureKeepsRuntime ==
  \A c \in Consoles : LET cmd == command[c] IN
    cmd.pc = "answered" /\ cmd.op \in {"enable", "disable"} /\ cmd.code = "unavailable"
      /\ cmd.candidate # 0
    => sets[cmd.candidate].state \notin {"active", "superseded"}
=============================================================================
