------------------------- MODULE SkillLifecycle_proofs -------------------------
(***************************************************************************)
(* Proofs about SkillLifecycle: what the web server answers is what        *)
(* happened, and an activation changes the Skill it was asked for and no   *)
(* other one, for any number of consoles, Skills, uploads and sets.        *)
(*                                                                         *)
(* The argument is the optimistic one of the code.  The version that a     *)
(* request reads stands for the active set that it reads with it, because  *)
(* every activation counts it up; the items of a set never change; and a   *)
(* set belongs to the one request that created it, also after the Agent    *)
(* lost that request.                                                      *)
(***************************************************************************)
EXTENDS SkillLifecycle, TLAPS

CommandRecords ==
  [pc : {"idle", "upload", "read", "before", "create", "activate", "discard", "after", "failed",
         "succeeded", "archive", "answered"},
   op : {"none", "enable", "disable", "delete", "replace"}, skill : Skills \cup {NoSkill},
   reads : SUBSET {"skill", "revisions", "runtime", "registry", "agent"},
   fresh : 0..MaxUploads, enabled : BOOLEAN, current : 0..MaxUploads, listed : 0..MaxUploads,
   active : 0..MaxSets, expected : Nat, next : SUBSET AllRevisions, candidate : 0..MaxSets,
   code : {"none", "ok", "conflict", "not_found", "unavailable", "unknown"}]
SkillRecords == [state : {"absent", "listed", "archived"}, current : 0..MaxUploads,
                 uploads : 0..MaxUploads]
SetRecords == [state : {"absent", "candidate", "active", "superseded", "failed", "discarded"},
               items : SUBSET AllRevisions]

CommandShape == /\ command \in [Consoles -> CommandRecords]
                /\ job \in [set : 0..MaxSets, expected : Nat,
                            step : {"none", "preparing", "committed", "unknown"}]

Created(s) == sets[s].state # "absent"
Unactivated(s) == sets[s].state \notin {"active", "superseded"}
\* Two sets of revisions that differ in no Skill but k.
SameBut(k, items, others) ==
  \A r \in AllRevisions : r[1] # k => (r \in items <=> r \in others)
Uploaded(items) == \A r \in items : r[2] <= library[r[1]].uploads

LibraryInv ==
  /\ \A k \in Skills :
       /\ library[k].state = "absent" => library[k].uploads = 0
       /\ library[k].state # "absent" => /\ library[k].current >= 1
                                         /\ library[k].current <= library[k].uploads
       /\ library[k].state = "archived" => ~Has(ItemsOf(activeSet), k)
  /\ \A s \in 1..MaxSets : Uploaded(sets[s].items)
  /\ activeSet # 0 => sets[activeSet].state = "active"
  /\ version = 0 => activeSet = 0

\* The set of an activation that still fits the version differs in one Skill
\* from the active one, whoever waits for it.
JobInv ==
  /\ job.step = "none" => job = NoJob
  /\ job.step # "none" => job.set # 0 /\ Created(job.set)
  /\ job.step = "preparing" =>
       /\ Unactivated(job.set)
       /\ version = job.expected =>
            \E k \in Skills : SameBut(k, sets[job.set].items, ItemsOf(activeSet))

\* The version that a request read stands for the set that it read with it.
VersionOK(cmd) ==
  /\ cmd.expected <= version
  /\ version = cmd.expected => activeSet = cmd.active
  /\ cmd.active # 0 => Created(cmd.active)

\* The set that a request puts together and creates.
CandidateOK(cmd) ==
  /\ cmd.candidate # 0 => Created(cmd.candidate)
  /\ cmd.pc \in {"idle", "upload", "read", "before", "create"} => cmd.candidate = 0
  /\ cmd.pc \in {"before", "create", "activate"} =>
       SameBut(cmd.skill, cmd.next, ItemsOf(cmd.active))
  /\ cmd.pc \in {"before", "create"} => Uploaded(cmd.next)
  /\ cmd.pc \in {"activate", "after"} =>
       cmd.candidate # 0 /\ sets[cmd.candidate].items = cmd.next
  /\ cmd.pc = "activate" /\ job.set # cmd.candidate => sets[cmd.candidate].state = "candidate"

Underway(cmd) == cmd.pc \notin {"idle", "answered"}
\* Another revision was uploaded behind the list that the request read.
Outdated(cmd) == cmd.op # "replace" /\ library[cmd.skill].uploads > cmd.listed

\* What a request finds to hold is among what took effect.
EffectOK(c, cmd, took) ==
  /\ cmd.pc # "idle" => /\ cmd.skill \in Skills /\ cmd.op # "none"
                        /\ library[cmd.skill].state # "absent"
  /\ Underway(cmd) /\ Holds(cmd, ItemsOf(activeSet)) => c \in took
  /\ cmd.pc = "upload" => cmd.op = "replace" /\ cmd.fresh = 0
  /\ Underway(cmd) => cmd.fresh <= library[cmd.skill].uploads
  /\ cmd.pc = "read" /\ "skill" \notin cmd.reads =>
       /\ cmd.current <= library[cmd.skill].uploads
       /\ cmd.enabled /\ cmd.op = "enable" => c \in took
       /\ ~cmd.enabled /\ cmd.op # "enable" => c \in took
  /\ cmd.pc = "read" /\ cmd.op = "replace" => cmd.fresh # 0 /\ "revisions" \notin cmd.reads
  /\ cmd.pc = "read" /\ cmd.reads = {} /\ cmd.op = "replace"
       /\ <<cmd.skill, cmd.fresh>> \in ItemsOf(cmd.active) => c \in took
  /\ cmd.pc \in {"before", "create", "activate", "after"} => Holds(cmd, cmd.next) \/ Outdated(cmd)
  /\ cmd.pc = "succeeded" => c \in took \/ Outdated(cmd)
  /\ cmd.pc = "archive" => cmd.op = "delete"

\* The answers, and what will be answered.
AnswerOK(c, cmd, took) ==
  /\ cmd.pc \notin {"discard", "failed", "answered"} => cmd.code = "none"
  /\ Underway(cmd) => cmd.code # "ok"
  /\ cmd.code = "ok" => c \in took \/ Outdated(cmd)
  /\ cmd.code = "ok" /\ cmd.op = "delete" => library[cmd.skill].state = "archived"
  /\ cmd.code = "conflict" /\ cmd.op # "delete" /\ cmd.candidate # 0 =>
       Unactivated(cmd.candidate) /\ job.set # cmd.candidate

CommandOK(c, cmd, took) ==
  VersionOK(cmd) /\ CandidateOK(cmd) /\ EffectOK(c, cmd, took) /\ AnswerOK(c, cmd, took)

CommandsInv ==
  /\ \A c \in Consoles : CommandOK(c, command[c], tookEffect)
  /\ \A c, d \in Consoles :
       command[c].candidate # 0 /\ command[c].candidate = command[d].candidate => c = d

LifecycleInv == /\ LifecycleTypeOK /\ CommandShape
                /\ LibraryInv /\ JobInv /\ CommandsInv

-----------------------------------------------------------------------------
\* The types, put together from those of the variables.
LEMMA TypesFollow ==
  ASSUME LifecycleInv, CommandShape',
         library' \in [Skills -> SkillRecords], sets' \in [1..MaxSets -> SetRecords],
         {activeSet', loadedSet', agentSet'.active} \subseteq 0..MaxSets,
         version' \in Nat, agentSet'.version \in 0..version', job'.expected <= version',
         unresolved' \subseteq Consoles, tookEffect' \subseteq Consoles,
         requests' \in 0..MaxRequests, skillFaults' \in 0..MaxSkillFaults
  PROVE  LifecycleTypeOK'
<1>1. \A c \in Consoles : /\ command'[c].skill \in Skills \cup {NoSkill}
                          /\ command'[c].candidate \in 0..MaxSets
                          /\ command'[c].next \subseteq AllRevisions
  BY DEF CommandShape, CommandRecords
<1>2. /\ job'.set \in 0..MaxSets /\ job'.expected \in 0..version'
      /\ job'.step \in {"none", "preparing", "committed", "unknown"}
  BY DEF CommandShape
<1> QED BY <1>1, <1>2 DEF LifecycleTypeOK, SkillRecords, SetRecords

\* The facts of the types that the steps use.
LEMMA TypesGive ==
  ASSUME LifecycleInv
  PROVE  /\ library \in [Skills -> SkillRecords] /\ sets \in [1..MaxSets -> SetRecords]
         /\ activeSet \in 0..MaxSets /\ loadedSet \in 0..MaxSets /\ agentSet.active \in 0..MaxSets
         /\ version \in Nat /\ agentSet.version \in 0..version /\ job.expected <= version
         /\ unresolved \subseteq Consoles /\ tookEffect \subseteq Consoles
         /\ requests \in 0..MaxRequests /\ skillFaults \in 0..MaxSkillFaults
         /\ command \in [Consoles -> CommandRecords]
         /\ job.set \in 0..MaxSets /\ job.expected \in Nat
         /\ \A s \in 1..MaxSets : sets[s].items \subseteq AllRevisions
BY LifecycleAssumption
DEF LifecycleInv, LifecycleTypeOK, CommandShape, SkillRecords, SetRecords

\* The counters of the bounds stay within them.
LEMMA CountersKept ==
  ASSUME LifecycleInv, CallWorks \/ CallFails
  PROVE  requests' \in 0..MaxRequests /\ skillFaults' \in 0..MaxSkillFaults
BY LifecycleAssumption DEF LifecycleInv, LifecycleTypeOK, CallWorks, CallFails

\* What a set that was created holds, and what the library counts, only grows.
Growth ==
  /\ \A s \in 1..MaxSets : Created(s) => Created(s)' /\ sets'[s].items = sets[s].items
  /\ \A k \in Skills : library[k].state # "absent" =>
       /\ library'[k].state # "absent" /\ library'[k].uploads >= library[k].uploads
       /\ library[k].state = "archived" => library'[k].state = "archived"

\* A set is changed by the request that created it, which discards it.
OwnSetOnly(c) ==
  \A s \in 1..MaxSets : Created(s) =>
    \/ sets'[s].state = sets[s].state
    \/ s = command[c].candidate /\ sets[s].state = "candidate" /\ sets'[s].state = "discarded"

\* The other requests do not notice what the web server does for one of them.
LEMMA OthersStay ==
  ASSUME LifecycleInv, NEW c \in Consoles, NEW d \in Consoles, d # c,
         UNCHANGED <<activeSet, version, agentState>>,
         library' \in [Skills -> SkillRecords], sets' \in [1..MaxSets -> SetRecords],
         Growth, OwnSetOnly(c), command'[d] = command[d],
         d \in tookEffect => d \in tookEffect'
  PROVE  CommandOK(d, command[d], tookEffect)'
<1> PICK cmd \in CommandRecords : cmd = command[d]
  BY TypesGive
<1>0. CommandOK(d, cmd, tookEffect) /\ command'[d] = cmd
  BY DEF LifecycleInv, CommandsInv
<1>1. /\ cmd.skill \in Skills \cup {NoSkill} /\ cmd.candidate \in 0..MaxSets
      /\ cmd.active \in 0..MaxSets /\ cmd.expected \in Nat
      /\ cmd.next \subseteq AllRevisions /\ cmd.listed \in Nat /\ cmd.fresh \in Nat
      /\ cmd.current \in Nat
  BY LifecycleAssumption DEF CommandRecords
<1>2. cmd.candidate # 0 => cmd.candidate # command[c].candidate
  BY DEF LifecycleInv, CommandsInv
<1>3. job' = job /\ activeSet' = activeSet /\ version' = version
  BY DEF agentState
<1>4. \A s \in 0..MaxSets : (s = 0 \/ Created(s)) => ItemsOf(s)' = ItemsOf(s)
  BY LifecycleAssumption DEF Growth, ItemsOf
<1>5. activeSet \in 0..MaxSets /\ (activeSet # 0 => Created(activeSet))
  BY TypesGive DEF LifecycleInv, LibraryInv, Created
<1>6. ItemsOf(activeSet)' = ItemsOf(activeSet)
  BY <1>3, <1>4, <1>5
<1>7. ItemsOf(cmd.active)' = ItemsOf(cmd.active)
  BY <1>0, <1>1, <1>4 DEF CommandOK, VersionOK
<1>8. \A k \in Skills : library[k].state # "absent" =>
        /\ library'[k].state # "absent" /\ library'[k].uploads >= library[k].uploads
        /\ library[k].uploads \in Nat /\ library'[k].uploads \in Nat
  BY TypesGive, LifecycleAssumption DEF Growth, SkillRecords
<1>9. VersionOK(cmd)'
  BY <1>0, <1>1, <1>3 DEF CommandOK, VersionOK, Growth
<1>10. Uploaded(cmd.next) => Uploaded(cmd.next)'
  <2> SUFFICES ASSUME Uploaded(cmd.next), NEW r \in cmd.next PROVE r[2] <= library'[r[1]].uploads
    BY DEF Uploaded
  <2>1. r[1] \in Skills /\ r[2] \in 1..MaxUploads /\ r[2] <= library[r[1]].uploads
    BY <1>1 DEF Uploaded, AllRevisions
  <2>2. library[r[1]].state # "absent"
    BY <2>1, LifecycleAssumption DEF LifecycleInv, LibraryInv
  <2> QED BY <1>8, <2>1, <2>2, LifecycleAssumption
<1>11. CandidateOK(cmd)'
  <2>1. cmd.candidate # 0 => /\ Created(cmd.candidate)'
                             /\ sets'[cmd.candidate].items = sets[cmd.candidate].items
                             /\ sets'[cmd.candidate].state = sets[cmd.candidate].state
    BY <1>0, <1>1, <1>2 DEF CommandOK, CandidateOK, Growth, OwnSetOnly
  <2> QED BY <1>0, <1>3, <1>7, <1>10, <2>1 DEF CommandOK, CandidateOK, SameBut
<1>12. EffectOK(d, cmd, tookEffect)'
  <2>1. cmd.skill \in Skills /\ library[cmd.skill].state # "absent" /\ Outdated(cmd) => Outdated(cmd)'
    BY <1>1, <1>8 DEF Outdated
  <2>2. Holds(cmd, cmd.next)' <=> Holds(cmd, cmd.next)
    BY DEF Holds, Has
  <2>3. Holds(cmd, ItemsOf(activeSet))' <=> Holds(cmd, ItemsOf(activeSet))
    BY <1>6 DEF Holds, Has
  <2>4. cmd.skill \in Skills /\ library[cmd.skill].state # "absent" =>
          /\ library'[cmd.skill].state # "absent"
          /\ cmd.fresh <= library[cmd.skill].uploads => cmd.fresh <= library'[cmd.skill].uploads
          /\ cmd.current <= library[cmd.skill].uploads => cmd.current <= library'[cmd.skill].uploads
    BY <1>1, <1>8
  <2>5. /\ Underway(cmd) => cmd.pc # "idle"
        /\ cmd.pc \in {"read", "before", "create", "activate", "after", "succeeded"} =>
             cmd.pc # "idle"
    BY DEF Underway
  <2> QED BY <1>0, <1>7, <2>1, <2>2, <2>3, <2>4, <2>5 DEF CommandOK, EffectOK, Underway
<1>13. AnswerOK(d, cmd, tookEffect)'
  <2>1. cmd.candidate # 0 => sets'[cmd.candidate].state = sets[cmd.candidate].state
    BY <1>0, <1>1, <1>2 DEF CommandOK, CandidateOK, OwnSetOnly
  <2>2. cmd.code = "ok" => cmd.pc # "idle"
    BY <1>0 DEF CommandOK, AnswerOK
  <2>3. cmd.code = "ok" => cmd.skill \in Skills /\ library[cmd.skill].state # "absent"
    BY <1>0, <2>2 DEF CommandOK, EffectOK
  <2>4. cmd.code = "ok" /\ Outdated(cmd) => Outdated(cmd)'
    BY <1>1, <1>8, <2>3 DEF Outdated
  <2> QED BY <1>0, <1>3, <2>1, <2>3, <2>4
          DEF CommandOK, AnswerOK, Underway, Unactivated, Growth
<1> QED BY <1>0, <1>9, <1>11, <1>12, <1>13 DEF CommandOK, VersionOK, CandidateOK, EffectOK, AnswerOK,
                                           Underway, Outdated, SameBut, Uploaded, Created

\* A step of the web server for c, which leaves the pointer and the Agent alone,
\* keeps the invariant when it keeps what is said of c and of the library.
LEMMA WebKeeps ==
  ASSUME LifecycleInv, NEW c \in Consoles, NEW q \in CommandRecords,
         command' = [command EXCEPT ![c] = q],
         UNCHANGED <<activeSet, version, agentState>>,
         library' \in [Skills -> SkillRecords], sets' \in [1..MaxSets -> SetRecords],
         Growth, OwnSetOnly(c), LibraryInv',
         unresolved' \subseteq Consoles, tookEffect' \subseteq Consoles,
         \A d \in Consoles \ {c} : d \in tookEffect => d \in tookEffect',
         requests' \in 0..MaxRequests, skillFaults' \in 0..MaxSkillFaults,
         q.candidate # 0 => q.candidate = command[c].candidate \/ ~Created(q.candidate),
         CommandOK(c, command[c], tookEffect)'
  PROVE  LifecycleInv'
<1>1. /\ command'[c] = q /\ \A d \in Consoles \ {c} : command'[d] = command[d]
  BY TypesGive
<1>2. CommandShape'
  BY DEF LifecycleInv, CommandShape, agentState
<1>3. LifecycleTypeOK'
  <2>1. /\ {activeSet', loadedSet', agentSet'.active} \subseteq 0..MaxSets
        /\ version' \in Nat /\ agentSet'.version \in 0..version' /\ job'.expected <= version'
    BY TypesGive DEF agentState
  <2> QED BY <1>2, <2>1, TypesFollow
<1>4. JobInv'
  <2>1. UNCHANGED <<job, version, activeSet>>
    BY DEF agentState
  <2>2. job.set # 0 /\ Created(job.set) =>
          /\ Created(job.set)' /\ sets'[job.set].items = sets[job.set].items
          /\ Unactivated(job.set) => Unactivated(job.set)'
    BY <2>1, TypesGive DEF Growth, OwnSetOnly, Unactivated, Created
  <2>3. ItemsOf(activeSet)' = ItemsOf(activeSet)
    <3>1. activeSet # 0 => Created(activeSet)
      BY DEF LifecycleInv, LibraryInv, Created
    <3> QED BY <2>1, <3>1, TypesGive DEF Growth, ItemsOf
  <2> QED BY <2>1, <2>2, <2>3 DEF LifecycleInv, JobInv, SameBut, Created, Unactivated
<1>5. CommandsInv'
  <2>1. \A d \in Consoles : CommandOK(d, command[d], tookEffect)'
    BY <1>1, OthersStay
  <2>2. \A d \in Consoles : command[d].candidate # 0 => Created(command[d].candidate)
    BY DEF LifecycleInv, CommandsInv, CommandOK, CandidateOK
  <2>3. \A d \in Consoles \ {c} : q.candidate # 0 => q.candidate # command[d].candidate
    BY <2>2 DEF LifecycleInv, CommandsInv
  <2> QED BY <1>1, <2>1, <2>3 DEF LifecycleInv, CommandsInv
<1> QED BY <1>2, <1>3, <1>4, <1>5 DEF LifecycleInv

\* The special case of a step that only moves the request.
LEMMA MoveKeeps ==
  ASSUME LifecycleInv, NEW c \in Consoles, NEW q \in CommandRecords,
         command' = [command EXCEPT ![c] = q],
         UNCHANGED <<registryState, agentState, tookEffect>>, unresolved' \subseteq Consoles,
         requests' \in 0..MaxRequests, skillFaults' \in 0..MaxSkillFaults,
         q.candidate # 0 => q.candidate = command[c].candidate,
         CommandOK(c, q, tookEffect)
  PROVE  LifecycleInv'
<1>1. UNCHANGED <<library, sets, activeSet, version, job, tookEffect>>
  BY DEF registryState, agentState
<1>2. Growth /\ OwnSetOnly(c)
  BY <1>1, TypesGive, LifecycleAssumption DEF Growth, OwnSetOnly, Created, SkillRecords
<1>3. LibraryInv'
  BY <1>1 DEF LifecycleInv, LibraryInv, Has, ItemsOf, Uploaded
<1>4. command'[c] = q
  BY TypesGive
<1>5. CommandOK(c, command[c], tookEffect)'
  BY <1>1, <1>4 DEF CommandOK, VersionOK, CandidateOK, EffectOK, AnswerOK, Underway, Outdated, SameBut,
                    Uploaded, Created, Unactivated, ItemsOf, Holds, Has
<1>6. tookEffect \subseteq Consoles /\ library \in [Skills -> SkillRecords]
      /\ sets \in [1..MaxSets -> SetRecords]
  BY TypesGive
<1> QED BY <1>1, <1>2, <1>3, <1>5, <1>6, WebKeeps

\* What is left of a request that is answered.
Codes == {"ok", "conflict", "not_found", "unavailable", "unknown", "none"}
AnswerOf(cmd, code) ==
  [NoCommand EXCEPT !.pc = "answered", !.op = cmd.op, !.skill = cmd.skill,
                    !.listed = cmd.listed, !.candidate = cmd.candidate, !.code = code]

LEMMA NoCommandShape == NoCommand \in CommandRecords
<1>1. 0 \in 0..MaxUploads /\ 0 \in 0..MaxSets
  BY LifecycleAssumption
<1> QED BY <1>1 DEF NoCommand, CommandRecords

LEMMA AnswerShape ==
  ASSUME LifecycleInv, NEW c \in Consoles, NEW code \in Codes, AnswerWith(c, code)
  PROVE  /\ AnswerOf(command[c], code) \in CommandRecords
         /\ command' = [command EXCEPT ![c] = AnswerOf(command[c], code)]
<1>1. command[c] \in CommandRecords
  BY TypesGive
<1>2. AnswerOf(command[c], code) \in CommandRecords
  BY <1>1, NoCommandShape DEF CommandRecords, AnswerOf, Codes
<1>3. command' = [command EXCEPT ![c] = AnswerOf(command[c], code)]
  BY DEF AnswerWith, AnswerOf
<1> QED BY <1>2, <1>3

\* A request that ends without having changed anything in this step.
LEMMA AnswerKeeps ==
  ASSUME LifecycleInv, NEW c \in Consoles, NEW code \in Codes, AnswerWith(c, code),
         Quiet, CallWorks \/ CallFails, command[c].pc # "idle",
         code = "ok" => /\ c \in tookEffect \/ Outdated(command[c])
                        /\ command[c].op # "delete",
         code = "conflict" => command[c].candidate = 0 \/ command[c].code = "conflict"
  PROVE  LifecycleInv'
<1>1. PICK cmd \in CommandRecords : cmd = command[c]
  BY TypesGive
<1>2. PICK q \in CommandRecords : q = AnswerOf(cmd, code)
  BY <1>1, AnswerShape
<1>3. command' = [command EXCEPT ![c] = q]
  BY <1>1, <1>2, AnswerShape
<1>4. /\ q.pc = "answered" /\ q.op = cmd.op /\ q.skill = cmd.skill /\ q.listed = cmd.listed
      /\ q.active = 0 /\ q.expected = 0 /\ q.candidate = cmd.candidate /\ q.code = code
  BY <1>2 DEF AnswerOf, NoCommand
<1>5. CommandOK(c, cmd, tookEffect)
  BY <1>1 DEF LifecycleInv, CommandsInv
<1>6. VersionOK(q)
  BY <1>4, TypesGive DEF VersionOK, LifecycleInv, LibraryInv
<1>7. CandidateOK(q)
  BY <1>4, <1>5 DEF CommandOK, CandidateOK
<1>8. EffectOK(c, q, tookEffect)
  BY <1>1, <1>4, <1>5 DEF CommandOK, EffectOK, Underway
<1>9. AnswerOK(c, q, tookEffect)
  BY <1>1, <1>4, <1>5 DEF CommandOK, AnswerOK, Underway, Outdated
<1>10. CommandOK(c, q, tookEffect)
  BY <1>6, <1>7, <1>8, <1>9 DEF CommandOK
<1>11. /\ UNCHANGED <<registryState, agentState, tookEffect>> /\ unresolved' \subseteq Consoles
       /\ requests' \in 0..MaxRequests /\ skillFaults' \in 0..MaxSkillFaults
  BY TypesGive, CountersKept DEF Quiet
<1> QED BY <1>1, <1>3, <1>4, <1>10, <1>11, MoveKeeps

\* The steps of the panel.
LEMMA AskKeeps ==
  ASSUME LifecycleInv, NEW c \in Consoles, NEW k \in Skills,
         NEW op \in {"enable", "disable", "delete", "replace"}, Ask(c, op, k)
  PROVE  LifecycleInv'
<1> DEFINE item == [NoCommand EXCEPT !.pc = IF op = "replace" THEN "upload" ELSE "read", !.op = op,
                         !.skill = k, !.reads = IF op = "replace" THEN {}
                                                ELSE {"skill", "revisions", "runtime"}]
<1>1. item \in CommandRecords
  BY NoCommandShape DEF CommandRecords
<1>2. PICK q \in CommandRecords : q = item
  BY <1>1
<1>3. command' = [command EXCEPT ![c] = q]
  BY <1>2 DEF Ask
<1>4. /\ q.op = op /\ q.skill = k /\ q.fresh = 0 /\ q.active = 0 /\ q.expected = 0
      /\ q.candidate = 0 /\ q.code = "none"
      /\ IF op = "replace" THEN q.pc = "upload" ELSE q.pc = "read" /\ "skill" \in q.reads
  BY <1>2 DEF NoCommand
<1> HIDE DEF item
<1>5. /\ UNCHANGED <<registryState, agentState, unresolved, skillFaults>>
      /\ library[k].state # "absent" /\ requests < MaxRequests /\ requests' = requests + 1
      /\ tookEffect' = IF Holds([op |-> op, skill |-> k, fresh |-> 0], ItemsOf(activeSet))
                       THEN tookEffect \cup {c} ELSE tookEffect \ {c}
  BY DEF Ask
<1>6. UNCHANGED <<library, sets, activeSet, version, job>>
  BY <1>5 DEF registryState, agentState
<1>7. Growth /\ OwnSetOnly(c)
  BY <1>6, TypesGive, LifecycleAssumption DEF Growth, OwnSetOnly, Created, SkillRecords
<1>8. LibraryInv'
  BY <1>6 DEF LifecycleInv, LibraryInv, Has, ItemsOf, Uploaded
<1>9. Holds(q, ItemsOf(activeSet)) => c \in tookEffect'
  BY <1>4, <1>5 DEF Holds
<1>10. CommandOK(c, q, tookEffect')
  <2>1. VersionOK(q)
    BY <1>4, TypesGive DEF VersionOK, LifecycleInv, LibraryInv
  <2>2. CandidateOK(q)
    BY <1>4 DEF CandidateOK
  <2>3. 0 <= library[k].uploads
    BY TypesGive, LifecycleAssumption DEF SkillRecords
  <2>4. EffectOK(c, q, tookEffect')
    BY <1>4, <1>5, <1>9, <2>3 DEF EffectOK, Underway
  <2>5. AnswerOK(c, q, tookEffect')
    BY <1>4 DEF AnswerOK, Underway
  <2> QED BY <2>1, <2>2, <2>4, <2>5 DEF CommandOK
<1>11. command'[c] = q
  BY <1>3, TypesGive
<1>12. CommandOK(c, command[c], tookEffect)'
  BY <1>6, <1>10, <1>11 DEF CommandOK, VersionOK, CandidateOK, EffectOK, AnswerOK, Underway, Outdated,
                    SameBut, Uploaded, Created, Unactivated, ItemsOf, Holds, Has
<1>13. /\ tookEffect' \subseteq Consoles /\ unresolved' \subseteq Consoles
       /\ \A d \in Consoles \ {c} : d \in tookEffect => d \in tookEffect'
       /\ library' \in [Skills -> SkillRecords] /\ sets' \in [1..MaxSets -> SetRecords]
  BY <1>5, <1>6, TypesGive
<1>14. requests' \in 0..MaxRequests /\ skillFaults' \in 0..MaxSkillFaults
  BY <1>5, TypesGive, LifecycleAssumption
<1> QED BY <1>3, <1>4, <1>5, <1>6, <1>7, <1>8, <1>12, <1>13, <1>14, WebKeeps

LEMMA PanelKeeps ==
  ASSUME LifecycleInv, NEW c \in Consoles, TakeAnswer(c) \/ Confirm(c)
  PROVE  LifecycleInv'
<1>1. UNCHANGED <<library, sets, activeSet, version, agentState>>
  BY DEF TakeAnswer, Confirm, registryState
<1>2. Growth /\ OwnSetOnly(c)
  BY <1>1, TypesGive, LifecycleAssumption DEF Growth, OwnSetOnly, Created, SkillRecords
<1>3. LibraryInv'
  BY <1>1 DEF LifecycleInv, LibraryInv, Has, ItemsOf, Uploaded
<1>4. requests' \in 0..MaxRequests /\ skillFaults' \in 0..MaxSkillFaults
  BY CountersKept DEF TakeAnswer, Confirm
<1>5. library' \in [Skills -> SkillRecords] /\ sets' \in [1..MaxSets -> SetRecords]
  BY <1>1, TypesGive
<1>6. CASE TakeAnswer(c)
  <2>1. PICK q \in CommandRecords : q = NoCommand
    BY NoCommandShape
  <2>2. command' = [command EXCEPT ![c] = q] /\ tookEffect' = tookEffect \ {c}
    BY <1>6, <2>1 DEF TakeAnswer
  <2>3. /\ q.pc = "idle" /\ q.active = 0 /\ q.expected = 0 /\ q.candidate = 0 /\ q.code = "none"
    BY <2>1 DEF NoCommand
  <2>4. VersionOK(q)
    BY <2>3, TypesGive DEF VersionOK, LifecycleInv, LibraryInv
  <2>5. CandidateOK(q) /\ EffectOK(c, q, tookEffect') /\ AnswerOK(c, q, tookEffect')
    BY <2>3 DEF CandidateOK, EffectOK, AnswerOK, Underway
  <2>6. command'[c] = q
    BY <2>2, TypesGive
  <2>7. UNCHANGED job
    BY <1>1 DEF agentState
  <2>8. CommandOK(c, command[c], tookEffect)'
    BY <1>1, <2>4, <2>5, <2>6, <2>7 DEF CommandOK, VersionOK, CandidateOK, EffectOK, AnswerOK, Underway,
                    Outdated, SameBut, Uploaded, Created, Unactivated, ItemsOf, Holds, Has
  <2>9. /\ tookEffect' \subseteq Consoles /\ unresolved' \subseteq Consoles
        /\ \A d \in Consoles \ {c} : d \in tookEffect => d \in tookEffect'
    BY <1>6, <2>2, TypesGive DEF TakeAnswer
  <2> QED BY <1>1, <1>2, <1>3, <1>4, <1>5, <2>2, <2>3, <2>8, <2>9, WebKeeps
<1>7. CASE Confirm(c)
  <2>1. PICK q \in CommandRecords : q = command[c]
    BY TypesGive
  <2>2. command' = [command EXCEPT ![c] = q]
    BY <1>7, <2>1, TypesGive DEF Confirm
  <2>3. CommandOK(c, q, tookEffect)
    BY <2>1 DEF LifecycleInv, CommandsInv
  <2>4. unresolved' \subseteq Consoles /\ UNCHANGED <<registryState, agentState, tookEffect>>
    BY <1>7, TypesGive DEF Confirm
  <2> QED BY <1>4, <2>1, <2>2, <2>3, <2>4, MoveKeeps
<1> QED BY <1>6, <1>7

\* Facts about a request under way that every step of it starts from.
LEMMA CommandFacts ==
  ASSUME LifecycleInv, NEW c \in Consoles
  PROVE  /\ command[c] \in CommandRecords
         /\ CommandOK(c, command[c], tookEffect)
         /\ ItemsOf(activeSet) \subseteq AllRevisions
         /\ ItemsOf(command[c].active) \subseteq AllRevisions
         /\ Uploaded(ItemsOf(activeSet)) /\ Uploaded(ItemsOf(command[c].active))
         /\ command[c].pc # "idle" =>
              /\ command[c].skill \in Skills /\ library[command[c].skill] \in SkillRecords
              /\ library[command[c].skill].state # "absent"
<1>1. command[c] \in CommandRecords /\ command[c].active \in 0..MaxSets
  BY TypesGive DEF CommandRecords
<1>2. CommandOK(c, command[c], tookEffect)
  BY DEF LifecycleInv, CommandsInv
<1>3. \A s \in 0..MaxSets : ItemsOf(s) \subseteq AllRevisions /\ Uploaded(ItemsOf(s))
  BY TypesGive, LifecycleAssumption DEF ItemsOf, LifecycleInv, LibraryInv, Uploaded
<1> QED BY <1>1, <1>2, <1>3, TypesGive DEF CommandOK, EffectOK

\* The reads before the decision.
LEMMA ReadSkillKeeps ==
  ASSUME LifecycleInv, NEW c \in Consoles, ReadSkill(c)
  PROVE  LifecycleInv'
<1>1. PICK cmd \in CommandRecords : cmd = command[c]
  BY TypesGive
<1>2. PICK k \in Skills : k = cmd.skill
  BY <1>1, CommandFacts DEF ReadSkill
<1> DEFINE reads == (cmd.reads \ {"skill"}) \cup (IF cmd.op = "replace" THEN {"runtime"} ELSE {})
           enabled == Has(ItemsOf(activeSet), k)
           current == IF Listed(k) THEN library[k].current ELSE 0
           item == [cmd EXCEPT !.reads = reads, !.enabled = enabled, !.current = current]
<1>3. /\ cmd.pc = "read" /\ "skill" \in cmd.reads /\ Quiet /\ CallWorks
      /\ command' = [command EXCEPT ![c] = item]
  BY <1>1, <1>2, TypesGive DEF ReadSkill
<1>4. current \in 0..MaxUploads /\ current <= library[k].uploads
  BY TypesGive, LifecycleAssumption DEF SkillRecords, LifecycleInv, LibraryInv, Listed
<1>5. reads \in SUBSET {"skill", "revisions", "runtime", "registry", "agent"} /\ enabled \in BOOLEAN
  BY DEF CommandRecords, Has
<1>6. PICK q \in CommandRecords : q = item
  BY <1>4, <1>5 DEF CommandRecords
<1>7. /\ q.pc = "read" /\ q.op = cmd.op /\ q.skill = k /\ q.fresh = cmd.fresh
      /\ q.listed = cmd.listed /\ q.active = cmd.active /\ q.expected = cmd.expected
      /\ q.next = cmd.next /\ q.candidate = cmd.candidate /\ q.code = cmd.code
      /\ q.current = current /\ q.reads = reads
  BY <1>2, <1>3, <1>6 DEF CommandRecords
<1>8. q.enabled <=> Has(ItemsOf(activeSet), k)
  BY <1>6 DEF CommandRecords
<1> HIDE DEF item, enabled, current
<1>9. CommandOK(c, cmd, tookEffect)
  BY <1>1 DEF LifecycleInv, CommandsInv
<1>10. VersionOK(q) /\ CandidateOK(q) /\ AnswerOK(c, q, tookEffect)
  BY <1>2, <1>3, <1>7, <1>9
  DEF CommandOK, VersionOK, CandidateOK, AnswerOK, Underway, Outdated
<1>11. EffectOK(c, q, tookEffect)
  <2>1. Holds(q, ItemsOf(activeSet)) <=> Holds(cmd, ItemsOf(activeSet))
    BY <1>2, <1>7 DEF Holds
  <2>2. Holds(q, ItemsOf(activeSet)) => c \in tookEffect
    BY <1>3, <1>9, <2>1 DEF CommandOK, EffectOK, Underway
  <2>3. q.enabled /\ q.op = "enable" => Holds(q, ItemsOf(activeSet))
    BY <1>7, <1>8 DEF Holds
  <2>4. ~q.enabled /\ q.op # "enable" => Holds(q, ItemsOf(activeSet))
    BY <1>7, <1>8 DEF Holds
  <2>5. q.op = "replace" => q.reads # {}
    BY <1>7
  <2> QED BY <1>2, <1>3, <1>4, <1>7, <1>9, <2>2, <2>3, <2>4, <2>5
          DEF CommandOK, EffectOK, Underway, Outdated
<1>12. CommandOK(c, q, tookEffect)
  BY <1>10, <1>11 DEF CommandOK
<1> QED BY <1>1, <1>3, <1>6, <1>7, <1>12, MoveKeeps, CountersKept, TypesGive DEF Quiet

LEMMA ReadRevisionsKeeps ==
  ASSUME LifecycleInv, NEW c \in Consoles, ReadRevisions(c)
  PROVE  LifecycleInv'
<1>1. PICK cmd \in CommandRecords : cmd = command[c]
  BY TypesGive
<1>2. PICK k \in Skills : k = cmd.skill
  BY <1>1, CommandFacts DEF ReadRevisions
<1> DEFINE listed == IF Listed(k) THEN library[k].uploads ELSE 0
           item == [cmd EXCEPT !.reads = cmd.reads \ {"revisions"}, !.listed = listed]
<1>3. /\ cmd.pc = "read" /\ "revisions" \in cmd.reads /\ Quiet /\ CallWorks
      /\ command' = [command EXCEPT ![c] = item]
  BY <1>1, <1>2, TypesGive DEF ReadRevisions
<1>4. listed \in 0..MaxUploads
  BY TypesGive, LifecycleAssumption DEF SkillRecords
<1>5. PICK q \in CommandRecords : q = item
  BY <1>4 DEF CommandRecords
<1>6. /\ q.pc = "read" /\ q.op = cmd.op /\ q.skill = k /\ q.fresh = cmd.fresh
      /\ q.enabled = cmd.enabled /\ q.current = cmd.current
      /\ q.active = cmd.active /\ q.expected = cmd.expected
      /\ q.next = cmd.next /\ q.candidate = cmd.candidate /\ q.code = cmd.code
      /\ q.reads = cmd.reads \ {"revisions"}
  BY <1>2, <1>3, <1>5 DEF CommandRecords
<1> HIDE DEF item
<1>7. CommandOK(c, cmd, tookEffect)
  BY <1>1 DEF LifecycleInv, CommandsInv
<1>8. VersionOK(q) /\ CandidateOK(q) /\ AnswerOK(c, q, tookEffect)
  BY <1>2, <1>3, <1>6, <1>7
  DEF CommandOK, VersionOK, CandidateOK, AnswerOK, Underway, Outdated
<1>9. EffectOK(c, q, tookEffect)
  <2>1. Holds(q, ItemsOf(activeSet)) <=> Holds(cmd, ItemsOf(activeSet))
    BY <1>2, <1>6 DEF Holds
  <2>2. "skill" \notin q.reads => "skill" \notin cmd.reads
    BY <1>6
  <2>3. q.op # "replace"
    BY <1>3, <1>6, <1>7 DEF CommandOK, EffectOK
  <2> QED BY <1>2, <1>3, <1>6, <1>7, <2>1, <2>2, <2>3 DEF CommandOK, EffectOK, Underway
<1>10. CommandOK(c, q, tookEffect)
  BY <1>8, <1>9 DEF CommandOK
<1> QED BY <1>1, <1>3, <1>5, <1>6, <1>10, MoveKeeps, CountersKept, TypesGive DEF Quiet

LEMMA ReadRuntimeKeeps ==
  ASSUME LifecycleInv, NEW c \in Consoles, ReadRuntime(c)
  PROVE  LifecycleInv'
<1>1. PICK cmd \in CommandRecords : cmd = command[c]
  BY TypesGive
<1>2. PICK k \in Skills : k = cmd.skill
  BY <1>1, CommandFacts DEF ReadRuntime
<1> DEFINE item == [cmd EXCEPT !.reads = cmd.reads \ {"runtime"}, !.active = activeSet,
                               !.expected = version]
<1>3. /\ cmd.pc = "read" /\ Quiet /\ CallWorks
      /\ "skill" \in cmd.reads => cmd.op # "replace"
      /\ command' = [command EXCEPT ![c] = item]
  BY <1>1, TypesGive DEF ReadRuntime
<1>4. PICK q \in CommandRecords : q = item
  BY TypesGive DEF CommandRecords
<1>5. /\ q.pc = "read" /\ q.op = cmd.op /\ q.skill = k /\ q.fresh = cmd.fresh
      /\ q.enabled = cmd.enabled /\ q.current = cmd.current /\ q.listed = cmd.listed
      /\ q.active = activeSet /\ q.expected = version
      /\ q.next = cmd.next /\ q.candidate = cmd.candidate /\ q.code = cmd.code
      /\ q.reads = cmd.reads \ {"runtime"}
  BY <1>2, <1>3, <1>4 DEF CommandRecords
<1> HIDE DEF item
<1>6. CommandOK(c, cmd, tookEffect)
  BY <1>1 DEF LifecycleInv, CommandsInv
<1>7. VersionOK(q)
  BY <1>5, TypesGive DEF VersionOK, LifecycleInv, LibraryInv, Created
<1>8. CandidateOK(q) /\ AnswerOK(c, q, tookEffect)
  BY <1>2, <1>3, <1>5, <1>6 DEF CommandOK, CandidateOK, AnswerOK, Underway, Outdated
<1>9. EffectOK(c, q, tookEffect)
  <2>1. Holds(q, ItemsOf(activeSet)) <=> Holds(cmd, ItemsOf(activeSet))
    BY <1>2, <1>5 DEF Holds
  <2>2. Holds(q, ItemsOf(activeSet)) => c \in tookEffect
    BY <1>3, <1>6, <2>1 DEF CommandOK, EffectOK, Underway
  <2>3. q.op = "replace" /\ <<q.skill, q.fresh>> \in ItemsOf(q.active)
          => Holds(q, ItemsOf(activeSet))
    BY <1>5 DEF Holds
  <2>4. "skill" \notin q.reads => "skill" \notin cmd.reads
    BY <1>5
  <2>5. "revisions" \notin cmd.reads => "revisions" \notin q.reads
    BY <1>5
  <2> QED BY <1>2, <1>3, <1>5, <1>6, <2>1, <2>2, <2>3, <2>4, <2>5
          DEF CommandOK, EffectOK, Underway
<1>10. CommandOK(c, q, tookEffect)
  BY <1>7, <1>8, <1>9 DEF CommandOK
<1> QED BY <1>1, <1>3, <1>4, <1>5, <1>10, MoveKeeps, CountersKept, TypesGive DEF Quiet

\* The next set differs from the one that was read in no other Skill, names
\* uploaded revisions only, and brings about what was asked for.
LEMMA NextItemsFit ==
  ASSUME LifecycleInv, NEW c \in Consoles, NEW cmd \in CommandRecords, cmd = command[c],
         cmd.pc = "read", cmd.reads = {}, cmd.current # 0, ~Misfits(cmd), NeedsActivation(cmd)
  PROVE  /\ NextItems(cmd) \in SUBSET AllRevisions
         /\ SameBut(cmd.skill, NextItems(cmd), ItemsOf(cmd.active))
         /\ Uploaded(NextItems(cmd))
         /\ Holds(cmd, NextItems(cmd)) \/ Outdated(cmd)
<1> DEFINE items == ItemsOf(cmd.active)
           now == <<cmd.skill, cmd.current>>
           new == <<cmd.skill, cmd.fresh>>
<1>1. /\ cmd.skill \in Skills /\ cmd.op # "none" /\ items \subseteq AllRevisions /\ Uploaded(items)
      /\ CommandOK(c, cmd, tookEffect) /\ library[cmd.skill] \in SkillRecords
  BY CommandFacts DEF CommandOK, EffectOK
<1>2. /\ cmd.current \in 1..MaxUploads /\ cmd.current <= library[cmd.skill].uploads
      /\ cmd.fresh \in 0..MaxUploads /\ cmd.fresh <= library[cmd.skill].uploads
      /\ cmd.op = "replace" => cmd.fresh \in 1..MaxUploads
  BY <1>1, LifecycleAssumption DEF CommandRecords, CommandOK, EffectOK, Underway
<1>3. now \in AllRevisions /\ now[1] = cmd.skill /\ now[2] = cmd.current
  BY <1>1, <1>2 DEF AllRevisions
<1>4. cmd.op = "replace" => new \in AllRevisions /\ new[1] = cmd.skill /\ new[2] = cmd.fresh
  BY <1>1, <1>2 DEF AllRevisions
<1> HIDE DEF items, now, new
<1>5. Others(cmd) \subseteq items /\ \A r \in items : r[1] # cmd.skill => r \in Others(cmd)
  BY DEF Others, items
<1>6. CASE cmd.op = "enable"
  <2>1. NextItems(cmd) = Others(cmd) \cup {now}
    BY <1>6 DEF NextItems, now
  <2>2. Has(NextItems(cmd), cmd.skill)
    <3>1. now \in RevisionsOf(cmd.skill)
      BY <1>1, <1>2 DEF RevisionsOf, now
    <3> QED BY <2>1, <3>1 DEF Has
  <2>3. SameBut(cmd.skill, NextItems(cmd), items)
    BY <1>3, <1>5, <2>1 DEF SameBut
  <2>4. Uploaded(NextItems(cmd))
    BY <1>1, <1>2, <1>3, <1>5, <2>1 DEF Uploaded
  <2> QED BY <1>1, <1>3, <1>5, <1>6, <2>1, <2>2, <2>3, <2>4 DEF Holds, items
<1>7. CASE cmd.op = "replace"
  <2>1. NextItems(cmd) = {IF r = now THEN new ELSE r : r \in items}
    BY <1>7 DEF NextItems, now, new, items
  <2>2. now \in items
    BY <1>7 DEF Misfits, NeedsActivation, now, items
  <2>3. new \in NextItems(cmd)
    BY <2>1, <2>2
  <2>4. SameBut(cmd.skill, NextItems(cmd), items)
    BY <1>3, <1>4, <1>7, <2>1 DEF SameBut
  <2>5. Uploaded(NextItems(cmd))
    BY <1>1, <1>2, <1>4, <1>7, <2>1 DEF Uploaded
  <2>6. NextItems(cmd) \in SUBSET AllRevisions
    BY <1>1, <1>4, <1>7, <2>1
  <2> QED BY <1>7, <2>3, <2>4, <2>5, <2>6 DEF Holds, items, new
<1>8. CASE cmd.op \in {"disable", "delete"}
  <2>1. NextItems(cmd) = Others(cmd)
    BY <1>8 DEF NextItems
  <2>2. Has(Others(cmd), cmd.skill) => Outdated(cmd)
    <3> SUFFICES ASSUME Has(Others(cmd), cmd.skill) PROVE Outdated(cmd)
      OBVIOUS
    <3>1. PICK r \in Others(cmd) : r \in RevisionsOf(cmd.skill)
      BY DEF Has
    <3>2. r \in items /\ r[1] = cmd.skill /\ r[2] \in 1..MaxUploads /\ ~(r[2] <= cmd.listed)
      BY <3>1 DEF RevisionsOf, Others, items
    <3>3. r[2] <= library[cmd.skill].uploads
      BY <1>1, <3>2 DEF Uploaded
    <3>4. cmd.listed \in 0..MaxUploads /\ library[cmd.skill].uploads \in 0..MaxUploads
      BY <1>1 DEF CommandRecords, SkillRecords
    <3>5. library[cmd.skill].uploads > cmd.listed
      BY <3>2, <3>3, <3>4, LifecycleAssumption
    <3> QED BY <1>8, <3>5 DEF Outdated
  <2>3. SameBut(cmd.skill, NextItems(cmd), items)
    BY <1>5, <2>1 DEF SameBut
  <2>4. Uploaded(NextItems(cmd))
    BY <1>1, <1>5, <2>1 DEF Uploaded
  <2> QED BY <1>1, <1>5, <1>8, <2>1, <2>2, <2>3, <2>4 DEF Holds, items
<1> QED BY <1>1, <1>6, <1>7, <1>8 DEF CommandRecords

\* A request goes on to pc with a code and keeps everything else.
LEMMA PlaceKeeps ==
  ASSUME LifecycleInv, NEW c \in Consoles, Quiet, CallWorks \/ CallFails,
         NEW pc \in {"discard", "failed", "succeeded", "archive"},
         NEW code \in Codes \ {"ok", "conflict"},
         Underway(command[c]),
         \/ command' = [command EXCEPT ![c].pc = pc, ![c].code = code]
         \/ command' = [command EXCEPT ![c].pc = pc] /\ command[c].code = code,
         pc \in {"archive", "succeeded"} => code = "none",
         pc = "succeeded" => c \in tookEffect \/ Outdated(command[c]),
         pc = "archive" => command[c].op = "delete"
  PROVE  LifecycleInv'
<1>1. PICK cmd \in CommandRecords : cmd = command[c]
  BY TypesGive
<1> DEFINE item == [cmd EXCEPT !.pc = pc, !.code = code]
<1>2. PICK q \in CommandRecords : q = item
  BY DEF CommandRecords, Codes
<1>3. /\ q.pc = pc /\ q.op = cmd.op /\ q.skill = cmd.skill /\ q.fresh = cmd.fresh
      /\ q.enabled = cmd.enabled /\ q.current = cmd.current /\ q.listed = cmd.listed
      /\ q.active = cmd.active /\ q.expected = cmd.expected
      /\ q.next = cmd.next /\ q.candidate = cmd.candidate /\ q.code = code
      /\ q.reads = cmd.reads
  BY <1>2 DEF CommandRecords
<1>4. command' = [command EXCEPT ![c] = q]
  <2>1. command[c] = cmd /\ command \in [Consoles -> CommandRecords]
    BY <1>1, TypesGive
  <2>2. CASE command' = [command EXCEPT ![c].pc = pc, ![c].code = code]
    BY <1>2, <2>1, <2>2
  <2>3. CASE command' = [command EXCEPT ![c].pc = pc] /\ command[c].code = code
    <3>1. [cmd EXCEPT !.pc = pc] = [cmd EXCEPT !.pc = pc, !.code = code]
      BY <2>1, <2>3 DEF CommandRecords
    <3> QED BY <1>2, <2>1, <2>3, <3>1
  <2> QED BY <2>2, <2>3
<1> HIDE DEF item
<1>5. CommandOK(c, cmd, tookEffect)
  BY <1>1 DEF LifecycleInv, CommandsInv
<1>6. VersionOK(q) /\ CandidateOK(q) /\ AnswerOK(c, q, tookEffect)
  BY <1>1, <1>3, <1>5 DEF CommandOK, VersionOK, CandidateOK, AnswerOK, Underway
<1>7. EffectOK(c, q, tookEffect)
  <2>1. Holds(q, ItemsOf(activeSet)) <=> Holds(cmd, ItemsOf(activeSet))
    BY <1>3 DEF Holds
  <2> QED BY <1>1, <1>3, <1>5, <2>1 DEF CommandOK, EffectOK, Underway, Outdated
<1>8. CommandOK(c, q, tookEffect)
  BY <1>6, <1>7 DEF CommandOK
<1> QED BY <1>1, <1>3, <1>4, <1>8, MoveKeeps, CountersKept, TypesGive DEF Quiet

\* The decision on what was read.
LEMMA DecideKeeps ==
  ASSUME LifecycleInv, NEW c \in Consoles, Decide(c)
  PROVE  LifecycleInv'
<1>1. PICK cmd \in CommandRecords : cmd = command[c]
  BY TypesGive
<1>2. cmd.pc = "read" /\ cmd.reads = {} /\ Quiet /\ CallWorks /\ Underway(cmd)
  BY <1>1 DEF Decide, Underway
<1>3. CommandOK(c, cmd, tookEffect)
  BY <1>1 DEF LifecycleInv, CommandsInv
<1>4. cmd.candidate = 0 /\ cmd.code = "none"
  BY <1>2, <1>3 DEF CommandOK, CandidateOK, AnswerOK
<1>5. CASE cmd.current = 0 \/ Misfits(cmd)
  <2>1. \E code \in {"not_found", "conflict"} : AnswerWith(c, code)
    BY <1>1, <1>5 DEF Decide
  <2> QED BY <1>1, <1>2, <1>4, <2>1, AnswerKeeps DEF Codes
<1>6. CASE cmd.current # 0 /\ ~Misfits(cmd) /\ NeedsActivation(cmd)
  <2> DEFINE item == [cmd EXCEPT !.pc = "before", !.next = NextItems(cmd),
                                 !.reads = {"registry", "agent"}]
  <2>1. /\ NextItems(cmd) \in SUBSET AllRevisions
        /\ SameBut(cmd.skill, NextItems(cmd), ItemsOf(cmd.active))
        /\ Uploaded(NextItems(cmd))
        /\ Holds(cmd, NextItems(cmd)) \/ Outdated(cmd)
    BY <1>1, <1>2, <1>6, NextItemsFit
  <2>2. command' = [command EXCEPT ![c] = item]
    BY <1>1, <1>6, TypesGive DEF Decide
  <2>3. PICK q \in CommandRecords : q = item
    BY <2>1 DEF CommandRecords
  <2>4. /\ q.pc = "before" /\ q.op = cmd.op /\ q.skill = cmd.skill /\ q.fresh = cmd.fresh
        /\ q.enabled = cmd.enabled /\ q.current = cmd.current /\ q.listed = cmd.listed
        /\ q.active = cmd.active /\ q.expected = cmd.expected
        /\ q.next = NextItems(cmd) /\ q.candidate = cmd.candidate /\ q.code = cmd.code
    BY <2>3 DEF CommandRecords
  <2> HIDE DEF item
  <2>5. VersionOK(q) /\ CandidateOK(q) /\ AnswerOK(c, q, tookEffect)
    BY <1>2, <1>3, <1>4, <2>1, <2>4
    DEF CommandOK, VersionOK, CandidateOK, AnswerOK, Underway, Outdated
  <2>6. EffectOK(c, q, tookEffect)
    <3>1. /\ Holds(q, ItemsOf(activeSet)) <=> Holds(cmd, ItemsOf(activeSet))
          /\ Holds(q, NextItems(cmd)) <=> Holds(cmd, NextItems(cmd))
      BY <2>4 DEF Holds
    <3> QED BY <1>2, <1>3, <2>1, <2>4, <3>1 DEF CommandOK, EffectOK, Underway, Outdated
  <2>7. CommandOK(c, q, tookEffect)
    BY <2>5, <2>6 DEF CommandOK
  <2> QED BY <1>1, <1>2, <2>2, <2>3, <2>4, <2>7, MoveKeeps, CountersKept, TypesGive DEF Quiet
<1>7. CASE cmd.current # 0 /\ ~Misfits(cmd) /\ ~NeedsActivation(cmd) /\ cmd.op = "delete"
  <2>1. command' = [command EXCEPT ![c].pc = "archive"]
    BY <1>1, <1>7 DEF Decide, Step
  <2> QED BY <1>1, <1>2, <1>4, <1>7, <2>1, PlaceKeeps DEF Codes
<1>8. CASE cmd.current # 0 /\ ~Misfits(cmd) /\ ~NeedsActivation(cmd) /\ cmd.op # "delete"
  <2>1. AnswerWith(c, "ok")
    BY <1>1, <1>8 DEF Decide
  <2>2. c \in tookEffect
    <3>1. /\ cmd.enabled /\ cmd.op = "enable" => c \in tookEffect
          /\ ~cmd.enabled /\ cmd.op # "enable" => c \in tookEffect
          /\ cmd.op = "replace" /\ <<cmd.skill, cmd.fresh>> \in ItemsOf(cmd.active)
               => c \in tookEffect
          /\ cmd.op # "none"
      BY <1>2, <1>3 DEF CommandOK, EffectOK
    <3>2. CASE cmd.op = "enable"
      BY <1>8, <3>1, <3>2 DEF NeedsActivation
    <3>3. CASE cmd.op = "replace"
      BY <1>8, <3>1, <3>3 DEF NeedsActivation, Misfits
    <3>4. CASE cmd.op = "disable"
      BY <1>8, <3>1, <3>4 DEF NeedsActivation
    <3> QED BY <1>8, <3>1, <3>2, <3>3, <3>4 DEF CommandRecords
  <2> QED BY <1>1, <1>2, <1>8, <2>1, <2>2, AnswerKeeps DEF Codes
<1> QED BY <1>5, <1>6, <1>7, <1>8

\* The two looks at the version before the set is created.
LEMMA CheckBeforeKeeps ==
  ASSUME LifecycleInv, NEW c \in Consoles, NEW side \in {"registry", "agent"}, CheckBefore(c, side)
  PROVE  LifecycleInv'
<1>1. PICK cmd \in CommandRecords : cmd = command[c]
  BY TypesGive
<1>2. cmd.pc = "before" /\ Quiet /\ CallWorks
  BY <1>1 DEF CheckBefore
<1>3. CommandOK(c, cmd, tookEffect)
  BY <1>1 DEF LifecycleInv, CommandsInv
<1>4. cmd.candidate = 0
  BY <1>2, <1>3 DEF CommandOK, CandidateOK
<1>5. CASE AnswerWith(c, "conflict")
  BY <1>1, <1>2, <1>4, <1>5, AnswerKeeps DEF Codes
<1>6. CASE ~AnswerWith(c, "conflict")
  <2> DEFINE pc == IF cmd.reads = {side} THEN "create" ELSE "before"
             item == [cmd EXCEPT !.reads = cmd.reads \ {side}, !.pc = pc]
  <2>1. command' = [command EXCEPT ![c] = item]
    BY <1>1, <1>2, <1>6, TypesGive DEF CheckBefore
  <2>2. PICK q \in CommandRecords : q = item
    BY DEF CommandRecords
  <2>7. pc \in {"before", "create"}
    OBVIOUS
  <2> HIDE DEF pc
  <2>3. /\ q.pc \in {"before", "create"} /\ q.op = cmd.op /\ q.skill = cmd.skill
        /\ q.fresh = cmd.fresh /\ q.listed = cmd.listed
        /\ q.active = cmd.active /\ q.expected = cmd.expected
        /\ q.next = cmd.next /\ q.candidate = cmd.candidate /\ q.code = cmd.code
    BY <2>2, <2>7 DEF CommandRecords
  <2> HIDE DEF item
  <2>4. VersionOK(q) /\ CandidateOK(q) /\ AnswerOK(c, q, tookEffect)
    BY <1>2, <1>3, <1>4, <2>3 DEF CommandOK, VersionOK, CandidateOK, AnswerOK, Underway, Outdated
  <2>5. EffectOK(c, q, tookEffect)
    <3>1. /\ Holds(q, ItemsOf(activeSet)) <=> Holds(cmd, ItemsOf(activeSet))
          /\ Holds(q, q.next) <=> Holds(cmd, cmd.next)
      BY <2>3 DEF Holds
    <3> QED BY <1>2, <1>3, <2>3, <3>1 DEF CommandOK, EffectOK, Underway, Outdated
  <2>6. CommandOK(c, q, tookEffect)
    BY <2>4, <2>5 DEF CommandOK
  <2> QED BY <1>1, <1>2, <2>1, <2>2, <2>3, <2>6, MoveKeeps, CountersKept, TypesGive DEF Quiet
<1> QED BY <1>5, <1>6

\* Lost calls and refusals, the reads after the activation, and the audit record.
LEMMA OutcomeKeeps ==
  ASSUME LifecycleInv, NEW c \in Consoles,
         \/ CallLost(c) \/ RefuseUpload(c) \/ AgentBusy(c) \/ ActivationLost(c)
         \/ CheckAfter(c) \/ Audit(c)
  PROVE  LifecycleInv'
<1>1. PICK cmd \in CommandRecords : cmd = command[c]
  BY TypesGive
<1>2. CommandOK(c, cmd, tookEffect)
  BY <1>1 DEF LifecycleInv, CommandsInv
<1>3. CASE CallLost(c)
  <2>1. AnswerWith(c, "unavailable") /\ CallFails /\ Quiet /\ cmd.pc # "idle"
    BY <1>1, <1>3 DEF CallLost
  <2> QED BY <1>1, <2>1, AnswerKeeps DEF Codes
<1>4. CASE RefuseUpload(c)
  <2>1. AnswerWith(c, "conflict") /\ CallWorks /\ Quiet /\ cmd.pc = "upload"
    BY <1>1, <1>4 DEF RefuseUpload
  <2>2. cmd.candidate = 0
    BY <1>2, <2>1 DEF CommandOK, CandidateOK
  <2> QED BY <1>1, <2>1, <2>2, AnswerKeeps DEF Codes
<1>5. CASE AgentBusy(c) \/ ActivationLost(c)
  <2>1. /\ command' = [command EXCEPT ![c].pc = "discard", ![c].code = "unavailable"]
        /\ Quiet /\ (CallWorks \/ CallFails) /\ cmd.pc = "activate"
    BY <1>1, <1>5 DEF AgentBusy, ActivationLost, Waiting
  <2>2. Underway(cmd) /\ "unavailable" \in Codes \ {"ok", "conflict"}
    BY <2>1 DEF Codes, Underway
  <2> QED BY <1>1, <2>1, <2>2, PlaceKeeps
<1>6. CASE CheckAfter(c)
  <2>1. Quiet /\ CallWorks /\ cmd.pc = "after" /\ Underway(cmd)
    BY <1>1, <1>6 DEF CheckAfter, Underway
  <2>2. CASE activeSet = cmd.candidate /\ command' = [command EXCEPT ![c].pc = "succeeded"]
    <3>1. cmd.candidate # 0 /\ sets[cmd.candidate].items = cmd.next /\ cmd.code = "none"
      BY <1>2, <2>1 DEF CommandOK, CandidateOK, AnswerOK
    <3>2. ItemsOf(activeSet) = cmd.next
      BY <2>2, <3>1 DEF ItemsOf
    <3>3. c \in tookEffect \/ Outdated(cmd)
      BY <1>2, <2>1, <3>2 DEF CommandOK, EffectOK
    <3> QED BY <1>1, <2>1, <2>2, <3>1, <3>3, PlaceKeeps DEF Codes
  <2>3. CASE command' = [command EXCEPT ![c].pc = "failed", ![c].code = "unknown"]
    <3>1. "unknown" \in Codes \ {"ok", "conflict"}
      BY DEF Codes
    <3> QED BY <1>1, <2>1, <2>3, <3>1, PlaceKeeps
  <2> QED BY <1>1, <1>6, <2>2, <2>3 DEF CheckAfter, Step
<1>7. CASE Audit(c)
  <2>1. CASE cmd.pc = "failed"
    <3>1. AnswerWith(c, cmd.code) /\ CallWorks /\ Quiet
      BY <1>1, <1>7, <2>1 DEF Audit
    <3>2. cmd.code # "ok"
      BY <1>2, <2>1 DEF CommandOK, AnswerOK, Underway
    <3>3. cmd.code \in Codes
      BY DEF CommandRecords, Codes
    <3> QED BY <1>1, <2>1, <3>1, <3>2, <3>3, AnswerKeeps
  <2>2. CASE cmd.pc = "succeeded"
    <3>1. cmd.code = "none" /\ (c \in tookEffect \/ Outdated(cmd)) /\ Underway(cmd)
      BY <1>2, <2>2 DEF CommandOK, AnswerOK, EffectOK, Underway
    <3>2. CASE AnswerWith(c, "unknown") /\ CallFails /\ Quiet
      BY <1>1, <2>2, <3>2, AnswerKeeps DEF Codes
    <3>3. CASE AnswerWith(c, "ok") /\ cmd.op # "delete" /\ CallWorks /\ Quiet
      BY <1>1, <2>2, <3>1, <3>3, AnswerKeeps DEF Codes
    <3>4. CASE command' = [command EXCEPT ![c].pc = "archive"] /\ cmd.op = "delete" /\ CallWorks
                 /\ Quiet
      BY <1>1, <3>1, <3>4, PlaceKeeps DEF Codes
    <3> QED BY <1>1, <1>7, <2>2, <3>2, <3>3, <3>4 DEF Audit, Step
  <2> QED BY <1>1, <1>7, <2>1, <2>2 DEF Audit
<1> QED BY <1>3, <1>4, <1>5, <1>6, <1>7

-----------------------------------------------------------------------------
\* Uploads add revisions; the set that is active names none of them.
LEMMA UploadNewKeeps ==
  ASSUME LifecycleInv, NEW c \in Consoles, NEW k \in Skills, UploadNew(c, k)
  PROVE  LifecycleInv'
<1> PICK q \in CommandRecords : q = command[c]
  BY TypesGive
<1>1. /\ library[k].state = "absent" /\ UNCHANGED <<sets, activeSet, version, agentState, command>>
      /\ UNCHANGED <<unresolved, tookEffect>> /\ CallWorks
      /\ library' = [library EXCEPT ![k] = [state |-> "listed", current |-> 1, uploads |-> 1]]
      /\ q = NoCommand
  BY DEF UploadNew
<1>2. /\ \A j \in Skills \ {k} : library'[j] = library[j]
      /\ library'[k].state = "listed" /\ library'[k].current = 1 /\ library'[k].uploads = 1
  BY <1>1, TypesGive
<1>3. library' \in [Skills -> SkillRecords] /\ sets' \in [1..MaxSets -> SetRecords]
  <2>1. 1 \in 0..MaxUploads
    BY LifecycleAssumption
  <2>2. [state |-> "listed", current |-> 1, uploads |-> 1] \in SkillRecords
    BY <2>1 DEF SkillRecords
  <2> QED BY <1>1, <2>2, TypesGive
<1>4. Growth /\ OwnSetOnly(c)
  BY <1>1, <1>2, TypesGive, LifecycleAssumption DEF Growth, OwnSetOnly, Created, SkillRecords
<1>5. LibraryInv'
  <2>1. ASSUME NEW s \in 1..MaxSets, NEW r \in sets[s].items
        PROVE  r[2] <= library'[r[1]].uploads
    <3>1. r[1] \in Skills /\ r[2] \in 1..MaxUploads
      BY TypesGive DEF AllRevisions
    <3>2. r[2] <= library[r[1]].uploads
      BY DEF LifecycleInv, LibraryInv, Uploaded
    <3>3. r[1] # k
      BY <1>1, <3>1, <3>2, LifecycleAssumption DEF LifecycleInv, LibraryInv
    <3> QED BY <1>2, <3>1, <3>2, <3>3
  <2>2. (\A s \in 1..MaxSets : Uploaded(sets[s].items))'
    BY <1>1, <2>1 DEF Uploaded
  <2> QED BY <1>1, <1>2, <2>2 DEF LifecycleInv, LibraryInv, Has, ItemsOf
<1>6. CommandOK(c, command[c], tookEffect)'
  <2>1. command'[c] = q /\ q.pc = "idle" /\ q.active = 0 /\ q.expected = 0 /\ q.candidate = 0
        /\ q.code = "none"
    BY <1>1 DEF NoCommand
  <2> QED BY <1>1, <2>1, TypesGive
          DEF CommandOK, VersionOK, CandidateOK, EffectOK, AnswerOK, Underway, LifecycleInv, LibraryInv
<1>7. command' = [command EXCEPT ![c] = q]
  BY <1>1, TypesGive
<1>8. /\ unresolved' \subseteq Consoles /\ tookEffect' \subseteq Consoles
      /\ requests' \in 0..MaxRequests /\ skillFaults' \in 0..MaxSkillFaults
  BY <1>1, TypesGive, CountersKept
<1> QED BY <1>1, <1>3, <1>4, <1>5, <1>6, <1>7, <1>8, WebKeeps

LEMMA UploadReplacementKeeps ==
  ASSUME LifecycleInv, NEW c \in Consoles, UploadReplacement(c)
  PROVE  LifecycleInv'
<1>1. PICK cmd \in CommandRecords : cmd = command[c]
  BY TypesGive
<1>2. PICK k \in Skills : k = cmd.skill
  BY <1>1, CommandFacts DEF UploadReplacement
<1> DEFINE n == library[k].uploads + 1
           enabled == Has(ItemsOf(activeSet), k)
           current == IF enabled THEN library[k].current ELSE n
<1>3. /\ cmd.pc = "upload" /\ library[k].state = "listed" /\ n <= MaxUploads
      /\ UNCHANGED <<sets, activeSet, version, agentState, unresolved>>
      /\ tookEffect' = IF enabled THEN tookEffect \ {c} ELSE tookEffect
      /\ CallWorks \/ CallFails
  BY <1>1, <1>2 DEF UploadReplacement, Listed
<1>4. library[k] \in SkillRecords /\ library[k].uploads \in 0..MaxUploads
  BY TypesGive DEF SkillRecords
<1>5. /\ n \in 1..MaxUploads /\ n \in 0..MaxUploads /\ n >= library[k].uploads /\ n >= 1
      /\ \A m \in 0..MaxUploads : m <= library[k].uploads => m <= n /\ m # n
  BY <1>3, <1>4, LifecycleAssumption
<1>6. /\ current \in 0..MaxUploads /\ current >= 1 /\ current <= n
  <2>1. library[k].current \in 0..MaxUploads /\ library[k].current >= 1
        /\ library[k].current <= library[k].uploads
    BY <1>3, <1>4 DEF SkillRecords, LifecycleInv, LibraryInv
  <2>2. library[k].current <= n
    BY <1>5, <2>1
  <2>3. n \in 0..MaxUploads /\ n <= n
    BY <1>5, LifecycleAssumption
  <2> QED BY <1>5, <2>1, <2>2, <2>3
<1>7. library' = [library EXCEPT ![k] = [library[k] EXCEPT !.uploads = n, !.current = current]]
  BY <1>1, <1>2, TypesGive DEF UploadReplacement
<1> HIDE DEF n, current
<1>8. [library[k] EXCEPT !.uploads = n, !.current = current] \in SkillRecords
  BY <1>4, <1>5, <1>6 DEF SkillRecords
<1>9. /\ \A j \in Skills \ {k} : library'[j] = library[j]
      /\ library'[k].state = "listed" /\ library'[k].current = current /\ library'[k].uploads = n
  BY <1>3, <1>4, <1>7, TypesGive DEF SkillRecords
<1>10. library' \in [Skills -> SkillRecords] /\ sets' \in [1..MaxSets -> SetRecords]
  BY <1>3, <1>7, <1>8, TypesGive
<1>11. Growth /\ OwnSetOnly(c)
  <2>1. Growth
    <3>1. \A j \in Skills : library[j].uploads >= library[j].uploads
      BY TypesGive, LifecycleAssumption DEF SkillRecords
    <3>2. sets' = sets
      BY <1>3
    <3> QED BY <1>3, <1>5, <1>9, <3>1, <3>2 DEF Growth, Created
  <2> QED BY <1>3, <2>1 DEF OwnSetOnly
<1>12. \A s \in 1..MaxSets : \A r \in sets[s].items :
         /\ r[1] \in Skills /\ r[2] \in 1..MaxUploads /\ r[2] <= library'[r[1]].uploads
         /\ r # <<k, n>>
  <2> SUFFICES ASSUME NEW s \in 1..MaxSets, NEW r \in sets[s].items
               PROVE  /\ r[1] \in Skills /\ r[2] \in 1..MaxUploads
                      /\ r[2] <= library'[r[1]].uploads /\ r # <<k, n>>
    OBVIOUS
  <2>1. r \in AllRevisions /\ r[1] \in Skills /\ r[2] \in 1..MaxUploads
    BY TypesGive DEF AllRevisions
  <2>2. r[2] <= library[r[1]].uploads
    BY DEF LifecycleInv, LibraryInv, Uploaded
  <2>3. CASE r[1] = k
    <3>1. r[2] \in 0..MaxUploads
      BY <2>1, LifecycleAssumption
    <3>2. r[2] <= n /\ r[2] # n
      BY <1>5, <2>2, <2>3, <3>1
    <3> QED BY <1>9, <2>1, <2>3, <3>2
  <2>4. CASE r[1] # k
    BY <1>9, <2>1, <2>2, <2>4
  <2> QED BY <2>3, <2>4
<1>13. LibraryInv'
  <2>1. (\A s \in 1..MaxSets : Uploaded(sets[s].items))'
    BY <1>3, <1>12 DEF Uploaded
  <2>2. \A j \in Skills :
          /\ library'[j].state = "absent" => library'[j].uploads = 0
          /\ library'[j].state # "absent" => /\ library'[j].current >= 1
                                             /\ library'[j].current <= library'[j].uploads
          /\ library'[j].state = "archived" => ~Has(ItemsOf(activeSet), j)
    BY <1>6, <1>9 DEF LifecycleInv, LibraryInv
  <2> QED BY <1>3, <2>1, <2>2 DEF LifecycleInv, LibraryInv, Has, ItemsOf
<1>14. CommandOK(c, cmd, tookEffect)
  BY <1>1 DEF LifecycleInv, CommandsInv
<1>15. cmd.candidate = 0 /\ cmd.code = "none" /\ cmd.op = "replace" /\ cmd.fresh = 0
  BY <1>3, <1>14 DEF CommandOK, CandidateOK, AnswerOK, EffectOK
<1>16. /\ tookEffect' \subseteq Consoles /\ unresolved' \subseteq Consoles
       /\ \A d \in Consoles \ {c} : d \in tookEffect => d \in tookEffect'
       /\ requests' \in 0..MaxRequests /\ skillFaults' \in 0..MaxSkillFaults
  BY <1>3, TypesGive, CountersKept
<1>17. UNCHANGED job
  BY <1>3 DEF agentState
<1>18. CASE AnswerWith(c, "unavailable")
  <2>1. PICK q \in CommandRecords :
          q = AnswerOf(cmd, "unavailable") /\ command' = [command EXCEPT ![c] = q]
    BY <1>1, <1>18, AnswerShape DEF Codes
  <2>2. /\ q.pc = "answered" /\ q.op = cmd.op /\ q.skill = k /\ q.active = 0 /\ q.expected = 0
        /\ q.candidate = 0 /\ q.code = "unavailable"
    BY <1>2, <1>15, <2>1 DEF AnswerOf, NoCommand
  <2>3. command'[c] = q
    BY <2>1, TypesGive
  <2>4. VersionOK(q)'
    BY <1>3, <2>2, TypesGive DEF VersionOK, LifecycleInv, LibraryInv
  <2>5. CandidateOK(q)' /\ EffectOK(c, q, tookEffect)' /\ AnswerOK(c, q, tookEffect)'
    BY <1>9, <1>15, <2>2 DEF CandidateOK, EffectOK, AnswerOK, Underway
  <2>6. CommandOK(c, command[c], tookEffect)'
    BY <2>3, <2>4, <2>5 DEF CommandOK, VersionOK, CandidateOK, EffectOK, AnswerOK
  <2> QED BY <1>3, <1>10, <1>11, <1>13, <1>16, <2>1, <2>2, <2>6, WebKeeps
<1>19. CASE ~AnswerWith(c, "unavailable")
  <2> DEFINE item == [cmd EXCEPT !.pc = "read", !.fresh = n, !.reads = {"skill"}]
  <2>1. command' = [command EXCEPT ![c] = item]
    BY <1>1, <1>2, <1>19, TypesGive DEF UploadReplacement, n
  <2>2. PICK q \in CommandRecords : q = item
    BY <1>5 DEF CommandRecords
  <2>3. /\ q.pc = "read" /\ q.op = "replace" /\ q.skill = k /\ q.fresh = n
        /\ q.active = cmd.active /\ q.expected = cmd.expected /\ q.reads = {"skill"}
        /\ q.candidate = 0 /\ q.code = "none"
    BY <1>2, <1>15, <2>2 DEF CommandRecords
  <2> HIDE DEF item
  <2>4. command'[c] = q
    BY <2>1, <2>2, TypesGive
  <2>5. VersionOK(q)'
    BY <1>3, <1>14, <2>3 DEF VersionOK, CommandOK, Created
  <2>6. CandidateOK(q)' /\ AnswerOK(c, q, tookEffect)'
    BY <2>3 DEF CandidateOK, AnswerOK, Underway
  <2>7. EffectOK(c, q, tookEffect)'
    <3>1. ItemsOf(activeSet)' = ItemsOf(activeSet)
      BY <1>3 DEF ItemsOf
    <3>2. ~enabled => c \in tookEffect'
      <4>1. Holds(cmd, ItemsOf(activeSet))
        BY <1>15 DEF Holds
      <4> QED BY <1>3, <1>14, <4>1 DEF CommandOK, EffectOK, Underway
    <3>3. <<k, n>> \notin ItemsOf(activeSet)
      BY <1>12, TypesGive, LifecycleAssumption DEF ItemsOf
    <3>4. n # 0 /\ n <= n
      BY <1>5
    <3>5. Holds(q, ItemsOf(activeSet)) => ~enabled
      BY <2>3, <3>3, <3>4 DEF Holds
    <3>6. Holds(q, ItemsOf(activeSet))' => c \in tookEffect'
      BY <3>1, <3>2, <3>5 DEF Holds, Has
    <3> HIDE DEF enabled
    <3> QED BY <1>9, <2>3, <3>4, <3>6 DEF EffectOK, Underway
  <2>8. CommandOK(c, command[c], tookEffect)'
    BY <2>4, <2>5, <2>6, <2>7 DEF CommandOK, VersionOK, CandidateOK, EffectOK, AnswerOK, Underway
  <2> QED BY <1>3, <1>10, <1>11, <1>13, <1>16, <2>1, <2>2, <2>3, <2>8, WebKeeps
<1> QED BY <1>18, <1>19

\* The set that a request creates is new, and its own.
LEMMA CreateKeeps ==
  ASSUME LifecycleInv, NEW c \in Consoles, CreateCandidate(c)
  PROVE  LifecycleInv'
<1>1. PICK cmd \in CommandRecords : cmd = command[c]
  BY TypesGive
<1>2. /\ cmd.pc = "create" /\ UNCHANGED <<library, activeSet, version, agentState, unresolved>>
      /\ UNCHANGED tookEffect /\ (CallWorks \/ CallFails)
  BY <1>1 DEF CreateCandidate
<1>3. CommandOK(c, cmd, tookEffect)
  BY <1>1 DEF LifecycleInv, CommandsInv
<1>4. cmd.candidate = 0 /\ cmd.code = "none" /\ cmd.skill \in Skills
  BY <1>2, <1>3 DEF CommandOK, CandidateOK, AnswerOK, EffectOK
<1>5. CASE AnswerWith(c, "unavailable") /\ UNCHANGED sets
  <2>1. Quiet
    BY <1>2, <1>5 DEF Quiet, registryState
  <2> QED BY <1>1, <1>2, <1>4, <1>5, <2>1, AnswerKeeps DEF Codes
<1>6. ASSUME NEW s \in 1..MaxSets, sets[s] = NoSet,
             sets' = [sets EXCEPT ![s] = [state |-> "candidate", items |-> cmd.next]],
             \/ command' = [command EXCEPT ![c].pc = "activate", ![c].candidate = s]
             \/ AnswerWith(c, "unavailable")
      PROVE  LifecycleInv'
  <2>1. ~Created(s) /\ s # 0
    BY <1>6 DEF Created, NoSet
  <2>2. cmd.next \in SUBSET AllRevisions
    BY DEF CommandRecords
  <2>3. sets' \in [1..MaxSets -> SetRecords] /\ library' \in [Skills -> SkillRecords]
    <3>1. [state |-> "candidate", items |-> cmd.next] \in SetRecords
      BY <2>2 DEF SetRecords
    <3> QED BY <1>2, <1>6, <3>1, TypesGive
  <2>4. /\ \A t \in (1..MaxSets) \ {s} : sets'[t] = sets[t]
        /\ sets'[s].state = "candidate" /\ sets'[s].items = cmd.next
    BY <1>6, TypesGive
  <2>5. \A t \in 1..MaxSets : Created(t) => t # s
    BY <2>1
  <2>6. Growth /\ OwnSetOnly(c)
    <3>1. \A k \in Skills : library[k].uploads >= library[k].uploads
      BY TypesGive, LifecycleAssumption DEF SkillRecords
    <3> QED BY <1>2, <2>4, <2>5, <3>1 DEF Growth, OwnSetOnly, Created
  <2>7. activeSet # 0 => activeSet # s
    BY <2>1 DEF LifecycleInv, LibraryInv, Created
  <2>8. ItemsOf(activeSet)' = ItemsOf(activeSet)
    BY <1>2, <2>4, <2>7, TypesGive DEF ItemsOf
  <2>9. LibraryInv'
    <3>1. Uploaded(cmd.next)
      BY <1>2, <1>3 DEF CommandOK, CandidateOK
    <3>2. (\A t \in 1..MaxSets : Uploaded(sets[t].items))'
      BY <1>2, <2>4, <3>1 DEF LifecycleInv, LibraryInv, Uploaded
    <3>3. activeSet # 0 => sets'[activeSet].state = "active"
      BY <2>4, <2>7, TypesGive DEF LifecycleInv, LibraryInv
    <3> QED BY <1>2, <2>8, <3>2, <3>3 DEF LifecycleInv, LibraryInv, Has
  <2>10. /\ tookEffect' \subseteq Consoles /\ unresolved' \subseteq Consoles
         /\ requests' \in 0..MaxRequests /\ skillFaults' \in 0..MaxSkillFaults
         /\ UNCHANGED job
    BY <1>2, TypesGive, CountersKept DEF agentState
  <2>11. CASE AnswerWith(c, "unavailable")
    <3>1. PICK q \in CommandRecords :
            q = AnswerOf(cmd, "unavailable") /\ command' = [command EXCEPT ![c] = q]
      BY <1>1, <2>11, AnswerShape DEF Codes
    <3>2. /\ q.pc = "answered" /\ q.op = cmd.op /\ q.skill = cmd.skill /\ q.active = 0
          /\ q.expected = 0 /\ q.candidate = 0 /\ q.code = "unavailable"
      BY <1>4, <3>1 DEF AnswerOf, NoCommand
    <3>3. command'[c] = q
      BY <3>1, TypesGive
    <3>4. VersionOK(q)'
      BY <1>2, <3>2, TypesGive DEF VersionOK, LifecycleInv, LibraryInv
    <3>5. CandidateOK(q)' /\ EffectOK(c, q, tookEffect)' /\ AnswerOK(c, q, tookEffect)'
      BY <1>2, <1>3, <3>2 DEF CommandOK, CandidateOK, EffectOK, AnswerOK, Underway
    <3>6. CommandOK(c, command[c], tookEffect)'
      BY <3>3, <3>4, <3>5 DEF CommandOK, VersionOK, CandidateOK, EffectOK, AnswerOK
    <3> QED BY <1>2, <2>3, <2>6, <2>9, <2>10, <3>1, <3>2, <3>6, WebKeeps
  <2>12. CASE command' = [command EXCEPT ![c].pc = "activate", ![c].candidate = s]
    <3> DEFINE item == [cmd EXCEPT !.pc = "activate", !.candidate = s]
    <3>0. s \in 0..MaxSets
      BY LifecycleAssumption
    <3>1. PICK q \in CommandRecords : q = item
      BY <3>0 DEF CommandRecords
    <3>2. /\ q.pc = "activate" /\ q.op = cmd.op /\ q.skill = cmd.skill /\ q.fresh = cmd.fresh
          /\ q.enabled = cmd.enabled /\ q.current = cmd.current /\ q.listed = cmd.listed
          /\ q.active = cmd.active /\ q.expected = cmd.expected
          /\ q.next = cmd.next /\ q.candidate = s /\ q.code = "none"
      BY <1>4, <3>1 DEF CommandRecords
    <3>3. command' = [command EXCEPT ![c] = q]
      BY <1>1, <2>12, <3>1, TypesGive
    <3> HIDE DEF item
    <3>4. command'[c] = q
      BY <3>3, TypesGive
    <3>5. cmd.active \in 0..MaxSets /\ (cmd.active # 0 => cmd.active # s)
      BY <1>3, <2>1 DEF CommandRecords, CommandOK, VersionOK
    <3>6. ItemsOf(q.active)' = ItemsOf(cmd.active)
      BY <2>4, <3>2, <3>5 DEF ItemsOf
    <3>7. VersionOK(q)'
      BY <1>2, <1>3, <2>4, <3>2, <3>5 DEF CommandOK, VersionOK, Created
    <3>8. CandidateOK(q)'
      BY <1>2, <1>3, <2>1, <2>4, <3>2, <3>6 DEF CommandOK, CandidateOK, Created, SameBut
    <3>9. EffectOK(c, q, tookEffect)'
      <4>1. Holds(q, ItemsOf(activeSet))' <=> Holds(cmd, ItemsOf(activeSet))
        BY <2>8, <3>2 DEF Holds, Has
      <4>2. Holds(q, q.next)' <=> Holds(cmd, cmd.next)
        BY <3>2 DEF Holds, Has
      <4> QED BY <1>2, <1>3, <3>2, <4>1, <4>2 DEF CommandOK, EffectOK, Underway, Outdated
    <3>10. AnswerOK(c, q, tookEffect)'
      BY <3>2 DEF AnswerOK, Underway
    <3>11. CommandOK(c, command[c], tookEffect)'
      BY <3>4, <3>7, <3>8, <3>9, <3>10
      DEF CommandOK, VersionOK, CandidateOK, EffectOK, AnswerOK, Underway, Outdated, SameBut, Created
    <3> QED BY <1>2, <2>1, <2>3, <2>6, <2>9, <2>10, <3>1, <3>2, <3>3, <3>11, WebKeeps
  <2> QED BY <1>6, <2>11, <2>12
<1>7. \/ AnswerWith(c, "unavailable") /\ UNCHANGED sets
      \/ \E s \in 1..MaxSets :
           /\ sets[s] = NoSet
           /\ sets' = [sets EXCEPT ![s] = [state |-> "candidate", items |-> cmd.next]]
           /\ \/ command' = [command EXCEPT ![c].pc = "activate", ![c].candidate = s]
              \/ AnswerWith(c, "unavailable")
  BY <1>1 DEF CreateCandidate
<1> QED BY <1>5, <1>6, <1>7

\* A request discards its own set only.
LEMMA DiscardKeeps ==
  ASSUME LifecycleInv, NEW c \in Consoles, Discard(c)
  PROVE  LifecycleInv'
<1>1. PICK cmd \in CommandRecords : cmd = command[c]
  BY TypesGive
<1>2. /\ cmd.pc = "discard" /\ UNCHANGED <<library, activeSet, version, agentState, unresolved>>
      /\ UNCHANGED tookEffect /\ (CallWorks \/ CallFails)
      /\ command' = [command EXCEPT ![c].pc = "failed"]
      /\ \/ sets' = sets
         \/ /\ sets[cmd.candidate].state = "candidate"
            /\ sets' = [sets EXCEPT ![cmd.candidate].state = "discarded"]
  BY <1>1 DEF Discard, Step
<1>3. CommandOK(c, cmd, tookEffect)
  BY <1>1 DEF LifecycleInv, CommandsInv
<1>4. sets' \in [1..MaxSets -> SetRecords] /\ library' \in [Skills -> SkillRecords]
  BY <1>2, TypesGive DEF SetRecords
<1>5. \A s \in 1..MaxSets :
        /\ sets'[s].items = sets[s].items
        /\ \/ sets'[s].state = sets[s].state
           \/ s = cmd.candidate /\ sets[s].state = "candidate" /\ sets'[s].state = "discarded"
  <2> SUFFICES ASSUME NEW s \in 1..MaxSets
               PROVE  /\ sets'[s].items = sets[s].items
                      /\ \/ sets'[s].state = sets[s].state
                         \/ /\ s = cmd.candidate /\ sets[s].state = "candidate"
                            /\ sets'[s].state = "discarded"
    OBVIOUS
  <2>1. sets[s] \in SetRecords /\ sets \in [1..MaxSets -> SetRecords]
    BY TypesGive
  <2>2. CASE sets' = sets
    BY <2>2
  <2>3. CASE /\ sets[cmd.candidate].state = "candidate"
             /\ sets' = [sets EXCEPT ![cmd.candidate].state = "discarded"]
    <3>1. CASE s = cmd.candidate
      <4>1. sets'[s] = [sets[s] EXCEPT !.state = "discarded"]
        BY <2>1, <2>3, <3>1
      <4> QED BY <2>1, <2>3, <3>1, <4>1 DEF SetRecords
    <3>2. CASE s # cmd.candidate
      <4>1. sets'[s] = sets[s]
        BY <2>1, <2>3, <3>2
      <4> QED BY <4>1
    <3> QED BY <3>1, <3>2
  <2> QED BY <1>2, <2>2, <2>3
<1>6. Growth /\ OwnSetOnly(c)
  <2>1. \A k \in Skills : library[k].uploads >= library[k].uploads
    BY TypesGive, LifecycleAssumption DEF SkillRecords
  <2> QED BY <1>1, <1>2, <1>5, <2>1 DEF Growth, OwnSetOnly, Created
<1>7. \A s \in 0..MaxSets : ItemsOf(s)' = ItemsOf(s)
  BY <1>5, LifecycleAssumption DEF ItemsOf
<1>8. ItemsOf(activeSet)' = ItemsOf(activeSet)
  BY <1>2, <1>7, TypesGive
<1>9. LibraryInv'
  <2>1. (\A s \in 1..MaxSets : Uploaded(sets[s].items))'
    BY <1>2, <1>5 DEF LifecycleInv, LibraryInv, Uploaded
  <2>2. activeSet # 0 => sets'[activeSet].state = "active"
    BY <1>5, TypesGive DEF LifecycleInv, LibraryInv
  <2> QED BY <1>2, <1>8, <2>1, <2>2 DEF LifecycleInv, LibraryInv, Has
<1>10. /\ tookEffect' \subseteq Consoles /\ unresolved' \subseteq Consoles
       /\ requests' \in 0..MaxRequests /\ skillFaults' \in 0..MaxSkillFaults
       /\ UNCHANGED job
  BY <1>2, TypesGive, CountersKept DEF agentState
<1> DEFINE item == [cmd EXCEPT !.pc = "failed"]
<1>11. PICK q \in CommandRecords : q = item
  BY DEF CommandRecords
<1>12. /\ q.pc = "failed" /\ q.op = cmd.op /\ q.skill = cmd.skill /\ q.fresh = cmd.fresh
       /\ q.listed = cmd.listed /\ q.active = cmd.active /\ q.expected = cmd.expected
       /\ q.next = cmd.next /\ q.candidate = cmd.candidate /\ q.code = cmd.code
  BY <1>11 DEF CommandRecords
<1>13. command' = [command EXCEPT ![c] = q] /\ command'[c] = q
  BY <1>1, <1>2, <1>11, TypesGive
<1> HIDE DEF item
<1>14. cmd.active \in 0..MaxSets /\ cmd.candidate \in 0..MaxSets
  BY DEF CommandRecords
<1>15. \A s \in 0..MaxSets : s # 0 /\ sets[s].state # "absent" =>
         /\ sets'[s].state # "absent"
         /\ sets[s].state \notin {"active", "superseded"} =>
              sets'[s].state \notin {"active", "superseded"}
  BY <1>5, LifecycleAssumption
<1>16. VersionOK(q)'
  BY <1>2, <1>3, <1>12, <1>14, <1>15 DEF CommandOK, VersionOK, Created
<1>17. CandidateOK(q)'
  BY <1>3, <1>12, <1>14, <1>15 DEF CommandOK, CandidateOK, Created
<1>18. EffectOK(c, q, tookEffect)'
  <2>1. Holds(q, ItemsOf(activeSet))' <=> Holds(cmd, ItemsOf(activeSet))
    BY <1>8, <1>12 DEF Holds, Has
  <2> QED BY <1>2, <1>3, <1>12, <2>1 DEF CommandOK, EffectOK, Underway
<1>19. AnswerOK(c, q, tookEffect)'
  BY <1>2, <1>3, <1>10, <1>12, <1>14, <1>15
  DEF CommandOK, AnswerOK, CandidateOK, Underway, Unactivated, Created
<1>20. CommandOK(c, command[c], tookEffect)'
  BY <1>13, <1>16, <1>17, <1>18, <1>19
  DEF CommandOK, VersionOK, CandidateOK, EffectOK, AnswerOK, Underway, Unactivated, Created
<1> QED BY <1>1, <1>2, <1>4, <1>6, <1>9, <1>10, <1>11, <1>12, <1>13, <1>20, WebKeeps

\* A Skill is archived only while it is not active, and stays it.
LEMMA ArchiveKeeps ==
  ASSUME LifecycleInv, NEW c \in Consoles, Archive(c)
  PROVE  LifecycleInv'
<1>1. PICK cmd \in CommandRecords : cmd = command[c]
  BY TypesGive
<1>2. PICK k \in Skills : k = cmd.skill
  BY <1>1, CommandFacts DEF Archive
<1> DEFINE granted == /\ library[k].state = "listed" /\ ~Has(ItemsOf(activeSet), k)
                      /\ library[k].current = cmd.current
<1>3. /\ cmd.pc = "archive" /\ UNCHANGED <<sets, activeSet, version, agentState, unresolved>>
      /\ UNCHANGED tookEffect /\ (CallWorks \/ CallFails)
      /\ library' = IF granted THEN [library EXCEPT ![k].state = "archived"] ELSE library
  BY <1>1, <1>2 DEF Archive, Listed
<1>4. PICK code \in {"ok", "conflict", "unavailable"} : AnswerWith(c, code) /\ (code = "ok" => granted)
  BY <1>1, <1>2 DEF Archive, Listed
<1>5. CommandOK(c, cmd, tookEffect)
  BY <1>1 DEF LifecycleInv, CommandsInv
<1>6. library' \in [Skills -> SkillRecords] /\ sets' \in [1..MaxSets -> SetRecords]
  BY <1>3, TypesGive DEF SkillRecords
<1>7. \A j \in Skills :
        /\ library'[j].uploads = library[j].uploads /\ library'[j].current = library[j].current
        /\ \/ library'[j].state = library[j].state
           \/ j = k /\ granted /\ library'[j].state = "archived" /\ library[j].state = "listed"
  BY <1>3, TypesGive DEF SkillRecords
<1>8. granted => library'[k].state = "archived"
  BY <1>3, TypesGive DEF SkillRecords
<1>9. Growth /\ OwnSetOnly(c)
  <2>1. \A j \in Skills : library'[j].uploads >= library[j].uploads
    BY <1>7, TypesGive, LifecycleAssumption DEF SkillRecords
  <2> QED BY <1>3, <1>7, <2>1 DEF Growth, OwnSetOnly, Created
<1>10. ItemsOf(activeSet)' = ItemsOf(activeSet)
  BY <1>3 DEF ItemsOf
<1>11. LibraryInv'
  <2>1. (\A s \in 1..MaxSets : Uploaded(sets[s].items))'
    <3> SUFFICES ASSUME NEW s \in 1..MaxSets, NEW r \in sets[s].items
                 PROVE  r[2] <= library'[r[1]].uploads
      BY <1>3 DEF Uploaded
    <3>1. r[1] \in Skills /\ r[2] <= library[r[1]].uploads
      BY TypesGive DEF LifecycleInv, LibraryInv, Uploaded, AllRevisions
    <3> QED BY <1>7, <3>1
  <2>2. \A j \in Skills :
          /\ library'[j].state = "absent" => library'[j].uploads = 0
          /\ library'[j].state # "absent" => /\ library'[j].current >= 1
                                             /\ library'[j].current <= library'[j].uploads
          /\ library'[j].state = "archived" => ~Has(ItemsOf(activeSet), j)
    BY <1>7 DEF LifecycleInv, LibraryInv
  <2> QED BY <1>3, <1>10, <2>1, <2>2 DEF LifecycleInv, LibraryInv, Has
<1>12. /\ tookEffect' \subseteq Consoles /\ unresolved' \subseteq Consoles
       /\ requests' \in 0..MaxRequests /\ skillFaults' \in 0..MaxSkillFaults
       /\ UNCHANGED job
  BY <1>3, TypesGive, CountersKept DEF agentState
<1>13. PICK q \in CommandRecords : q = AnswerOf(cmd, code) /\ command' = [command EXCEPT ![c] = q]
  BY <1>1, <1>4, AnswerShape DEF Codes
<1>14. /\ q.pc = "answered" /\ q.op = cmd.op /\ q.skill = k /\ q.active = 0 /\ q.expected = 0
       /\ q.listed = cmd.listed /\ q.candidate = cmd.candidate /\ q.code = code
  BY <1>2, <1>13 DEF AnswerOf, NoCommand
<1>15. command'[c] = q
  BY <1>13, TypesGive
<1>16. cmd.op = "delete"
  BY <1>3, <1>5 DEF CommandOK, EffectOK
<1>17. granted => c \in tookEffect
  <2>1. granted => Holds(cmd, ItemsOf(activeSet))
    BY <1>2, <1>16 DEF Holds
  <2> QED BY <1>3, <1>5, <2>1 DEF CommandOK, EffectOK, Underway
<1> HIDE DEF granted
<1>18. VersionOK(q)'
  BY <1>3, <1>14, TypesGive DEF VersionOK, LifecycleInv, LibraryInv
<1>19. CandidateOK(q)'
  BY <1>3, <1>5, <1>14 DEF CommandOK, CandidateOK, Created
<1>20. EffectOK(c, q, tookEffect)'
  <2>1. library[k].state # "absent"
    BY <1>2, <1>3, <1>5 DEF CommandOK, EffectOK
  <2>2. library'[k].state # "absent"
    BY <1>7, <2>1
  <2> QED BY <1>14, <1>16, <2>2 DEF EffectOK, Underway
<1>21. AnswerOK(c, q, tookEffect)'
  BY <1>3, <1>4, <1>8, <1>14, <1>16, <1>17 DEF AnswerOK, Underway
<1>22. CommandOK(c, command[c], tookEffect)'
  BY <1>15, <1>18, <1>19, <1>20, <1>21
  DEF CommandOK, VersionOK, CandidateOK, EffectOK, AnswerOK, Underway, Outdated, Created
<1> QED BY <1>1, <1>3, <1>6, <1>9, <1>11, <1>12, <1>13, <1>14, <1>22, WebKeeps

-----------------------------------------------------------------------------
\* The requests after an answer of the Agent: those that wait for the set of
\* the job have it, the others are as they were.
LEMMA ReportGives ==
  ASSUME LifecycleInv, NEW pc \in {"discard", "after", "failed"},
         NEW code \in {"none", "conflict", "unavailable", "unknown"}, Report(pc, code)
  PROVE  /\ command' \in [Consoles -> CommandRecords]
         /\ \A d \in Consoles :
              /\ command'[d].op = command[d].op /\ command'[d].skill = command[d].skill
              /\ command'[d].reads = command[d].reads /\ command'[d].fresh = command[d].fresh
              /\ command'[d].enabled = command[d].enabled
              /\ command'[d].current = command[d].current
              /\ command'[d].listed = command[d].listed
              /\ command'[d].active = command[d].active
              /\ command'[d].expected = command[d].expected
              /\ command'[d].next = command[d].next
              /\ command'[d].candidate = command[d].candidate
              /\ \/ /\ command[d].pc = "activate" /\ command[d].candidate = job.set
                    /\ command'[d].pc = pc /\ command'[d].code = code
                 \/ /\ ~(command[d].pc = "activate" /\ command[d].candidate = job.set)
                    /\ command'[d].pc = command[d].pc /\ command'[d].code = command[d].code
<1>1. \A d \in Consoles :
        command'[d] = IF Waiting(d) /\ command[d].candidate = job.set
                      THEN [command[d] EXCEPT !.pc = pc, !.code = code] ELSE command[d]
  BY DEF Report
<1>2. ASSUME NEW d \in Consoles
      PROVE  /\ command'[d] \in CommandRecords
             /\ command'[d].op = command[d].op /\ command'[d].skill = command[d].skill
             /\ command'[d].reads = command[d].reads /\ command'[d].fresh = command[d].fresh
             /\ command'[d].enabled = command[d].enabled
             /\ command'[d].current = command[d].current
             /\ command'[d].listed = command[d].listed
             /\ command'[d].active = command[d].active
             /\ command'[d].expected = command[d].expected
             /\ command'[d].next = command[d].next
             /\ command'[d].candidate = command[d].candidate
             /\ \/ /\ command[d].pc = "activate" /\ command[d].candidate = job.set
                   /\ command'[d].pc = pc /\ command'[d].code = code
                \/ /\ ~(command[d].pc = "activate" /\ command[d].candidate = job.set)
                   /\ command'[d].pc = command[d].pc /\ command'[d].code = command[d].code
  <2>1. PICK cmd \in CommandRecords : cmd = command[d]
    BY TypesGive
  <2> DEFINE item == [cmd EXCEPT !.pc = pc, !.code = code]
  <2>2. CASE cmd.pc = "activate" /\ cmd.candidate = job.set
    <3>1. command'[d] = item
      BY <1>1, <2>1, <2>2 DEF Waiting
    <3>2. item \in CommandRecords
      BY DEF CommandRecords
    <3>3. /\ item.op = cmd.op /\ item.skill = cmd.skill
          /\ item.reads = cmd.reads /\ item.fresh = cmd.fresh /\ item.enabled = cmd.enabled
          /\ item.current = cmd.current /\ item.listed = cmd.listed /\ item.active = cmd.active
          /\ item.expected = cmd.expected /\ item.next = cmd.next
          /\ item.candidate = cmd.candidate /\ item.pc = pc /\ item.code = code
      BY DEF CommandRecords
    <3> HIDE DEF item
    <3> QED BY <2>1, <2>2, <3>1, <3>2, <3>3
  <2>3. CASE ~(cmd.pc = "activate" /\ cmd.candidate = job.set)
    <3>1. command'[d] = command[d]
      BY <1>1, <2>1, <2>3 DEF Waiting
    <3> QED BY <2>1, <2>3, <3>1
  <2> QED BY <2>2, <2>3
<1>3. command' \in [Consoles -> CommandRecords]
  BY <1>2 DEF Report
<1> QED BY <1>2, <1>3

\* The Agent ends its job and answers: nothing is active that was not before.
LEMMA ReportKeeps ==
  ASSUME LifecycleInv, NEW pc \in {"discard", "after"},
         NEW code \in {"none", "conflict", "unavailable"}, Report(pc, code),
         job.step # "none", job' = NoJob,
         UNCHANGED <<library, activeSet, version, unresolved, tookEffect>>,
         sets' \in [1..MaxSets -> SetRecords],
         \A s \in 1..MaxSets :
           /\ sets'[s].items = sets[s].items
           /\ \/ sets'[s].state = sets[s].state
              \/ s = job.set /\ sets[s].state = "candidate" /\ sets'[s].state = "failed",
         code = "conflict" => Unactivated(job.set), pc = "after" => code = "none",
         loadedSet' \in 0..MaxSets, agentSet'.active \in 0..MaxSets, agentSet'.version \in 0..version,
         CallWorks \/ CallFails
  PROVE  LifecycleInv'
<1>1. command' \in [Consoles -> CommandRecords]
  BY ReportGives
<1>2. job' = [set |-> 0, expected |-> 0, step |-> "none"] /\ 0 \in 0..MaxSets
  BY LifecycleAssumption DEF NoJob
<1>3. CommandShape'
  BY <1>1, <1>2 DEF CommandShape
<1>4. LifecycleTypeOK'
  BY <1>2, <1>3, TypesGive, TypesFollow, CountersKept
<1>5. ItemsOf(activeSet)' = ItemsOf(activeSet)
  BY TypesGive DEF ItemsOf
<1>6. LibraryInv'
  <2>1. (\A s \in 1..MaxSets : Uploaded(sets[s].items))'
    BY DEF LifecycleInv, LibraryInv, Uploaded
  <2>2. activeSet # 0 => sets'[activeSet].state = "active"
    BY TypesGive DEF LifecycleInv, LibraryInv
  <2> QED BY <1>5, <2>1, <2>2 DEF LifecycleInv, LibraryInv, Has
<1>7. JobInv'
  BY <1>2 DEF JobInv, NoJob
<1>8. \A s \in 0..MaxSets : ItemsOf(s)' = ItemsOf(s)
  BY LifecycleAssumption DEF ItemsOf
<1>9. \A s \in 0..MaxSets : s # 0 =>
        /\ sets'[s].items = sets[s].items
        /\ sets[s].state # "absent" => sets'[s].state # "absent"
        /\ sets[s].state \notin {"active", "superseded"} =>
             sets'[s].state \notin {"active", "superseded"}
        /\ s # job.set => sets'[s].state = sets[s].state
  BY LifecycleAssumption
<1>10. ASSUME NEW d \in Consoles
       PROVE  CommandOK(d, command[d], tookEffect)'
  <2>1. PICK cmd \in CommandRecords : cmd = command[d]
    BY TypesGive
  <2>2. PICK q \in CommandRecords : q = command'[d]
    BY <1>1
  <2>3. CommandOK(d, cmd, tookEffect)
    BY <2>1 DEF LifecycleInv, CommandsInv
  <2>4. /\ q.op = cmd.op /\ q.skill = cmd.skill /\ q.reads = cmd.reads /\ q.fresh = cmd.fresh
        /\ q.enabled = cmd.enabled /\ q.current = cmd.current /\ q.listed = cmd.listed
        /\ q.active = cmd.active /\ q.expected = cmd.expected /\ q.next = cmd.next
        /\ q.candidate = cmd.candidate
        /\ \/ /\ cmd.pc = "activate" /\ cmd.candidate = job.set /\ q.pc = pc /\ q.code = code
           \/ /\ ~(cmd.pc = "activate" /\ cmd.candidate = job.set)
              /\ q.pc = cmd.pc /\ q.code = cmd.code
    BY <2>1, <2>2, ReportGives
  <2>5. cmd.active \in 0..MaxSets /\ cmd.candidate \in 0..MaxSets
    BY DEF CommandRecords
  <2>6. VersionOK(q)'
    BY <1>9, <2>3, <2>4, <2>5 DEF CommandOK, VersionOK, Created
  <2>7. CandidateOK(q)'
    <3>1. ItemsOf(q.active)' = ItemsOf(cmd.active)
      BY <1>8, <2>4, <2>5
    <3>2. cmd.candidate # 0 /\ cmd.candidate # job.set =>
            sets'[cmd.candidate].state = sets[cmd.candidate].state
      BY <1>9, <2>5
    <3>3. cmd.candidate # 0 => /\ sets'[cmd.candidate].items = sets[cmd.candidate].items
                               /\ Created(cmd.candidate) => Created(cmd.candidate)'
      BY <1>9, <2>5 DEF Created
    <3>4. q.pc \in {"before", "create", "activate"} => SameBut(q.skill, q.next, ItemsOf(q.active))'
      BY <2>3, <2>4, <3>1 DEF CommandOK, CandidateOK, SameBut
    <3>5. q.pc \in {"before", "create"} => Uploaded(q.next)'
      BY <2>3, <2>4 DEF CommandOK, CandidateOK, Uploaded
    <3>6. q.pc = "activate" => q.candidate # job.set
      BY <2>4
    <3>7. /\ q.candidate # 0 => Created(q.candidate)'
          /\ q.pc \in {"idle", "upload", "read", "before", "create"} => q.candidate = 0
      BY <2>3, <2>4, <3>3 DEF CommandOK, CandidateOK, Created
    <3>8. q.pc \in {"activate", "after"} => q.candidate # 0 /\ sets'[q.candidate].items = q.next
      BY <2>3, <2>4, <3>3 DEF CommandOK, CandidateOK
    <3>9. q.pc = "activate" => sets'[q.candidate].state = "candidate"
      BY <2>3, <2>4, <3>2, <3>6, <3>8 DEF CommandOK, CandidateOK
    <3> QED BY <3>4, <3>5, <3>7, <3>8, <3>9 DEF CandidateOK
  <2>8. EffectOK(d, q, tookEffect)'
    <3>1. Holds(q, ItemsOf(activeSet))' <=> Holds(cmd, ItemsOf(activeSet))
      BY <1>5, <2>4 DEF Holds, Has
    <3>2. Holds(q, q.next)' <=> Holds(cmd, cmd.next)
      BY <2>4 DEF Holds, Has
    <3>3. Underway(q) <=> Underway(cmd)
      BY <2>4 DEF Underway
    <3>4. Outdated(q)' <=> Outdated(cmd)
      BY <2>4 DEF Outdated
    <3>5. ItemsOf(q.active)' = ItemsOf(cmd.active)
      BY <1>8, <2>4, <2>5
    <3> QED BY <2>3, <2>4, <3>1, <3>2, <3>3, <3>4, <3>5 DEF CommandOK, EffectOK
  <2>9. AnswerOK(d, q, tookEffect)'
    <3>1. cmd.candidate # 0 /\ Unactivated(cmd.candidate) => Unactivated(cmd.candidate)'
      BY <1>9, <2>5 DEF Unactivated
    <3>2. Outdated(q)' <=> Outdated(cmd)
      BY <2>4 DEF Outdated
    <3>3. Underway(q) <=> Underway(cmd)
      BY <2>4 DEF Underway
    <3>4. job'.set = 0
      BY <1>2
    <3>5. q.code = "conflict" /\ q.op # "delete" /\ q.candidate # 0 => Unactivated(q.candidate)'
      BY <2>3, <2>4, <3>1 DEF CommandOK, AnswerOK, Unactivated
    <3>6. AnswerOK(d, cmd, tookEffect)
      BY <2>3 DEF CommandOK
    <3>7. /\ q.pc \notin {"discard", "failed", "answered"} => q.code = "none"
          /\ Underway(q) => q.code # "ok"
      <4>1. code # "ok" /\ pc \in {"discard", "after"} /\ (pc = "after" => code = "none")
        OBVIOUS
      <4> QED BY <2>4, <3>3, <3>6, <4>1 DEF AnswerOK
    <3>8. q.code = "ok" => cmd.code = "ok"
      BY <2>4
    <3>9. q.code = "ok" => d \in tookEffect \/ Outdated(q)'
      BY <3>2, <3>6, <3>8 DEF AnswerOK
    <3>10. q.code = "ok" /\ q.op = "delete" => library'[q.skill].state = "archived"
      BY <2>4, <3>6, <3>8 DEF AnswerOK
    <3> QED BY <3>4, <3>5, <3>7, <3>9, <3>10 DEF AnswerOK, Underway
  <2> QED BY <2>2, <2>6, <2>7, <2>8, <2>9
          DEF CommandOK, VersionOK, CandidateOK, EffectOK, AnswerOK, Underway, Outdated, SameBut,
              Uploaded, Created, Unactivated
<1>11. CommandsInv'
  <2>1. \A d \in Consoles : command'[d].candidate = command[d].candidate
    BY ReportGives
  <2> QED BY <1>10, <2>1 DEF LifecycleInv, CommandsInv
<1> QED BY <1>3, <1>4, <1>6, <1>7, <1>11 DEF LifecycleInv

\* The Agent takes the candidate of a request that waits, and its version.
LEMMA TakesKeeps ==
  ASSUME LifecycleInv, NEW c \in Consoles, AgentTakes(c)
  PROVE  LifecycleInv'
<1>1. PICK cmd \in CommandRecords : cmd = command[c]
  BY TypesGive
<1>2. /\ cmd.pc = "activate" /\ job = NoJob /\ CallWorks
      /\ job' = [set |-> cmd.candidate, expected |-> cmd.expected, step |-> "preparing"]
      /\ UNCHANGED <<library, sets, activeSet, version, loadedSet, agentSet, command, unresolved,
                     tookEffect>>
  BY <1>1 DEF AgentTakes, Waiting, registryState
<1>3. CommandOK(c, cmd, tookEffect)
  BY <1>1 DEF LifecycleInv, CommandsInv
<1>4. cmd.candidate \in 0..MaxSets /\ cmd.expected \in Nat
  BY DEF CommandRecords
<1>5. job'.set = cmd.candidate /\ job'.expected = cmd.expected /\ job'.step = "preparing"
  BY <1>2
<1>6. /\ cmd.candidate # 0 /\ sets[cmd.candidate].items = cmd.next
      /\ sets[cmd.candidate].state = "candidate"
  BY <1>2, <1>3 DEF CommandOK, CandidateOK, NoJob
<1>7. CommandShape'
  BY <1>2, <1>4 DEF LifecycleInv, CommandShape
<1>8. LifecycleTypeOK'
  <2>1. job'.expected <= version
    BY <1>3, <1>5 DEF CommandOK, VersionOK
  <2> QED BY <1>2, <1>7, <2>1, TypesGive, TypesFollow, CountersKept
<1>9. LibraryInv'
  BY <1>2 DEF LifecycleInv, LibraryInv, Has, ItemsOf, Uploaded
<1>10. JobInv'
  <2>1. version = cmd.expected =>
          \E k \in Skills : SameBut(k, sets[cmd.candidate].items, ItemsOf(activeSet))
    <3>1. cmd.skill \in Skills
      BY <1>2, <1>3 DEF CommandOK, EffectOK
    <3>2. version = cmd.expected => SameBut(cmd.skill, sets[cmd.candidate].items, ItemsOf(activeSet))
      BY <1>2, <1>3, <1>6 DEF CommandOK, VersionOK, CandidateOK
    <3> QED BY <3>1, <3>2
  <2> QED BY <1>2, <1>5, <1>6, <2>1 DEF JobInv, Created, Unactivated, SameBut, ItemsOf
<1>11. ASSUME NEW d \in Consoles
       PROVE  CommandOK(d, command[d], tookEffect)'
  <2>1. PICK q \in CommandRecords : q = command[d]
    BY TypesGive
  <2>2. CommandOK(d, q, tookEffect)
    BY <2>1 DEF LifecycleInv, CommandsInv
  <2>3. q.pc = "activate" => q.candidate # 0 /\ sets[q.candidate].state = "candidate"
    BY <1>2, <2>2 DEF CommandOK, CandidateOK, NoJob
  <2>4. q.code = "conflict" /\ q.candidate # 0 => q.candidate # cmd.candidate
    <3>1. q.candidate # 0 /\ q.candidate = cmd.candidate => d = c
      BY <1>1, <2>1 DEF LifecycleInv, CommandsInv
    <3>2. cmd.code = "none"
      BY <1>2, <1>3 DEF CommandOK, AnswerOK
    <3> QED BY <1>1, <2>1, <3>1, <3>2
  <2>5. CommandOK(d, q, tookEffect)'
    BY <1>2, <1>5, <2>2, <2>3, <2>4
    DEF CommandOK, VersionOK, CandidateOK, EffectOK, AnswerOK, Underway, Outdated, SameBut,
        Uploaded, Created, Unactivated, ItemsOf, Holds, Has
  <2> QED BY <1>2, <2>1, <2>5
          DEF CommandOK, VersionOK, CandidateOK, EffectOK, AnswerOK, Underway, Outdated, SameBut,
              Uploaded, Created, Unactivated
<1>12. CommandsInv'
  BY <1>2, <1>11 DEF LifecycleInv, CommandsInv
<1> QED BY <1>7, <1>8, <1>9, <1>10, <1>12 DEF LifecycleInv

\* A refused activation may leave its set failed; it never becomes active.
LEMMA RefusesKeeps ==
  ASSUME LifecycleInv, AgentRefuses
  PROVE  LifecycleInv'
<1>1. /\ job.step = "preparing" /\ job' = NoJob
      /\ UNCHANGED <<library, activeSet, version, loadedSet, agentSet, unresolved, tookEffect>>
      /\ CallWorks \/ CallFails
      /\ Report("discard", "conflict") \/ Report("discard", "unavailable")
      /\ \/ sets' = sets
         \/ /\ sets[job.set].state = "candidate"
            /\ sets' = [sets EXCEPT ![job.set].state = "failed"]
  BY DEF AgentRefuses
<1>2. job.step # "none" /\ Unactivated(job.set)
  BY <1>1 DEF LifecycleInv, JobInv
<1>3. sets' \in [1..MaxSets -> SetRecords]
  BY <1>1, TypesGive DEF SetRecords
<1>4. \A s \in 1..MaxSets :
        /\ sets'[s].items = sets[s].items
        /\ \/ sets'[s].state = sets[s].state
           \/ s = job.set /\ sets[s].state = "candidate" /\ sets'[s].state = "failed"
  <2> SUFFICES ASSUME NEW s \in 1..MaxSets
               PROVE  /\ sets'[s].items = sets[s].items
                      /\ \/ sets'[s].state = sets[s].state
                         \/ /\ s = job.set /\ sets[s].state = "candidate"
                            /\ sets'[s].state = "failed"
    OBVIOUS
  <2>1. sets[s] \in SetRecords /\ sets \in [1..MaxSets -> SetRecords]
    BY TypesGive
  <2>2. CASE sets' = sets
    BY <2>2
  <2>3. CASE /\ sets[job.set].state = "candidate"
             /\ sets' = [sets EXCEPT ![job.set].state = "failed"]
    <3>1. CASE s = job.set
      <4>1. sets'[s] = [sets[s] EXCEPT !.state = "failed"]
        BY <2>1, <2>3, <3>1
      <4> QED BY <2>1, <2>3, <3>1, <4>1 DEF SetRecords
    <3>2. CASE s # job.set
      <4>1. sets'[s] = sets[s]
        BY <2>1, <2>3, <3>2
      <4> QED BY <4>1
    <3> QED BY <3>1, <3>2
  <2> QED BY <1>1, <2>2, <2>3
<1>5. loadedSet' \in 0..MaxSets /\ agentSet'.active \in 0..MaxSets /\ agentSet'.version \in 0..version
  BY <1>1, TypesGive
<1> QED BY <1>1, <1>2, <1>3, <1>4, <1>5, ReportKeeps

\* After its swap, and after its restart, the Agent runs the active set.
LEMMA FollowsKeeps ==
  ASSUME LifecycleInv, AgentSwaps \/ AgentRestarts
  PROVE  LifecycleInv'
<1>1. /\ job.step # "none" /\ job' = NoJob
      /\ UNCHANGED <<library, sets, activeSet, version, unresolved, tookEffect>>
      /\ loadedSet' = activeSet /\ agentSet' = [active |-> activeSet, version |-> version]
      /\ CallWorks \/ CallFails
      /\ Report("after", "none") \/ Report("discard", "unavailable")
  BY DEF AgentSwaps, AgentRestarts, registryState, LifecycleInv, JobInv
<1>2. /\ sets' \in [1..MaxSets -> SetRecords] /\ loadedSet' \in 0..MaxSets
      /\ agentSet'.active \in 0..MaxSets /\ agentSet'.version \in 0..version
      /\ \A s \in 1..MaxSets : sets'[s].items = sets[s].items /\ sets'[s].state = sets[s].state
  BY <1>1, TypesGive
<1>3. CASE Report("after", "none")
  BY <1>1, <1>2, <1>3, ReportKeeps
<1>4. CASE Report("discard", "unavailable")
  BY <1>1, <1>2, <1>4, ReportKeeps
<1> QED BY <1>1, <1>3, <1>4

\* The commit.  No request that started from an earlier version keeps it, and
\* what its set makes true is noted for every request under way.
LEMMA CommitsKeeps ==
  ASSUME LifecycleInv, AgentCommits
  PROVE  LifecycleInv'
<1>1. PICK j \in 0..MaxSets : j = job.set
  BY TypesGive
<1>2. j # 0 /\ j \in 1..MaxSets
  BY <1>1, LifecycleAssumption DEF AgentCommits, LifecycleInv, JobInv
<1>3. PICK items \in SUBSET AllRevisions : items = sets[j].items
  BY <1>2, TypesGive
<1>4. /\ job.step = "preparing" /\ version = job.expected /\ sets[j].state = "candidate"
      /\ Insertable(items)
      /\ activeSet' = j /\ version' = version + 1
      /\ tookEffect' = tookEffect \cup NowHolds(items)
      /\ UNCHANGED <<loadedSet, agentSet, unresolved>> /\ (CallWorks \/ CallFails)
      /\ \/ job' = [job EXCEPT !.step = "committed"] /\ UNCHANGED command
         \/ job' = [job EXCEPT !.step = "unknown"] /\ Report("failed", "unknown")
  BY <1>1, <1>3 DEF AgentCommits, Activatable
<1>5. sets' = [t \in 1..MaxSets |->
                 IF t = j THEN [sets[t] EXCEPT !.state = "active"]
                 ELSE IF t = activeSet THEN [sets[t] EXCEPT !.state = "superseded"] ELSE sets[t]]
  BY <1>1 DEF AgentCommits
<1>6. library' = [k \in Skills |->
                    IF Has(items, k)
                    THEN [library[k] EXCEPT !.current =
                            CHOOSE n \in 1..MaxUploads : <<k, n>> \in items]
                    ELSE library[k]]
  BY <1>1, <1>3 DEF AgentCommits
<1>7. activeSet # j /\ (activeSet # 0 => sets[activeSet].state = "active")
  BY <1>2, <1>4 DEF LifecycleInv, LibraryInv
<1>8. \A t \in 1..MaxSets :
        /\ sets'[t] \in SetRecords /\ sets'[t].items = sets[t].items
        /\ t = j => sets'[t].state = "active"
        /\ t # j /\ t = activeSet => sets'[t].state = "superseded"
        /\ t # j /\ t # activeSet => sets'[t].state = sets[t].state
  <2> SUFFICES ASSUME NEW t \in 1..MaxSets
               PROVE  /\ sets'[t] \in SetRecords /\ sets'[t].items = sets[t].items
                      /\ t = j => sets'[t].state = "active"
                      /\ t # j /\ t = activeSet => sets'[t].state = "superseded"
                      /\ t # j /\ t # activeSet => sets'[t].state = sets[t].state
    OBVIOUS
  <2>1. sets[t] \in SetRecords
    BY TypesGive
  <2>2. CASE t = j
    <3>1. sets'[t] = [sets[t] EXCEPT !.state = "active"]
      BY <1>5, <2>2
    <3> QED BY <2>1, <2>2, <3>1 DEF SetRecords
  <2>3. CASE t # j /\ t = activeSet
    <3>1. sets'[t] = [sets[t] EXCEPT !.state = "superseded"]
      BY <1>5, <2>3
    <3> QED BY <2>1, <2>3, <3>1 DEF SetRecords
  <2>4. CASE t # j /\ t # activeSet
    <3>1. sets'[t] = sets[t]
      BY <1>5, <2>4
    <3> QED BY <2>1, <2>4, <3>1
  <2> QED BY <2>2, <2>3, <2>4
<1>9. sets' \in [1..MaxSets -> SetRecords]
  BY <1>5, <1>8
<1>10. \A r \in items : /\ r[1] \in Skills /\ r[2] \in 1..MaxUploads /\ r = <<r[1], r[2]>>
                         /\ r[2] <= library[r[1]].uploads
  BY <1>2, <1>3 DEF AllRevisions, LifecycleInv, LibraryInv, Uploaded
<1>11. \A k \in Skills :
         /\ library'[k] \in SkillRecords
         /\ library'[k].state = library[k].state /\ library'[k].uploads = library[k].uploads
         /\ \/ library'[k].current = library[k].current
            \/ library'[k].current >= 1 /\ library'[k].current <= library[k].uploads
         /\ Has(items, k) => library[k].state = "listed"
  <2> SUFFICES ASSUME NEW k \in Skills
               PROVE  /\ library'[k] \in SkillRecords
                      /\ library'[k].state = library[k].state
                      /\ library'[k].uploads = library[k].uploads
                      /\ \/ library'[k].current = library[k].current
                         \/ library'[k].current >= 1 /\ library'[k].current <= library[k].uploads
                      /\ Has(items, k) => library[k].state = "listed"
    OBVIOUS
  <2>1. library[k] \in SkillRecords
    BY TypesGive
  <2>2. CASE ~Has(items, k)
    <3>1. library'[k] = library[k]
      BY <1>6, <2>2
    <3> QED BY <2>1, <2>2, <3>1
  <2>3. CASE Has(items, k)
    <3>1. PICK r \in items : r \in RevisionsOf(k)
      BY <2>3 DEF Has
    <3>2. r[1] = k /\ <<k, r[2]>> \in items /\ r[2] \in 1..MaxUploads
      BY <1>10, <3>1 DEF RevisionsOf
    <3> DEFINE n == CHOOSE m \in 1..MaxUploads : <<k, m>> \in items
    <3>3. n \in 1..MaxUploads /\ <<k, n>> \in items
      BY <3>2
    <3>4. library'[k] = [library[k] EXCEPT !.current = n]
      BY <1>6, <2>3
    <3> HIDE DEF n
    <3>5. n <= library[k].uploads /\ n >= 1 /\ n \in 0..MaxUploads
      BY <1>10, <3>3, LifecycleAssumption
    <3>6. library[k].state = "listed"
      BY <1>4, <3>1, <3>2 DEF Insertable, Listed
    <3>7. /\ library'[k] \in SkillRecords /\ library'[k].current = n
          /\ library'[k].state = library[k].state /\ library'[k].uploads = library[k].uploads
      BY <2>1, <3>4, <3>5 DEF SkillRecords
    <3> QED BY <3>5, <3>6, <3>7
  <2> QED BY <2>2, <2>3
<1>12. library' \in [Skills -> SkillRecords]
  BY <1>6, <1>11
<1>13. /\ job'.set = j /\ job'.expected = job.expected /\ job'.step \in {"committed", "unknown"}
       /\ job' \in [set : 0..MaxSets, expected : Nat,
                     step : {"none", "preparing", "committed", "unknown"}]
  BY <1>1, <1>4 DEF LifecycleInv, CommandShape
<1>14. CommandShape'
  BY <1>4, <1>13, ReportGives, TypesGive DEF CommandShape
<1>15. ItemsOf(activeSet)' = items
  BY <1>2, <1>3, <1>4, <1>8 DEF ItemsOf
<1>16. LifecycleTypeOK'
  <2>1. job'.expected <= version' /\ version' \in Nat /\ agentSet'.version \in 0..version'
    <3>1. version \in Nat /\ agentSet.version \in 0..version /\ job.expected \in Nat
      BY TypesGive
    <3>2. agentSet.version \in 0..(version + 1)
      BY <3>1 DEF LifecycleInv, LifecycleTypeOK
    <3> QED BY <1>4, <1>13, <3>1, <3>2
  <2>2. tookEffect' \subseteq Consoles /\ unresolved' \subseteq Consoles
    BY <1>4, TypesGive DEF NowHolds
  <2>3. {activeSet', loadedSet', agentSet'.active} \subseteq 0..MaxSets
    BY <1>4, TypesGive
  <2> QED BY <1>4, <1>9, <1>12, <1>14, <2>1, <2>2, <2>3, TypesFollow, CountersKept
<1>17. LibraryInv'
  <2>1. (\A s \in 1..MaxSets : Uploaded(sets[s].items))'
    <3> SUFFICES ASSUME NEW s \in 1..MaxSets, NEW r \in sets[s].items
                 PROVE  r[2] <= library'[r[1]].uploads
      BY <1>8 DEF Uploaded
    <3>1. r[1] \in Skills /\ r[2] <= library[r[1]].uploads
      BY TypesGive DEF LifecycleInv, LibraryInv, Uploaded, AllRevisions
    <3> QED BY <1>11, <3>1
  <2>2. \A k \in Skills :
          /\ library'[k].state = "absent" => library'[k].uploads = 0
          /\ library'[k].state # "absent" => /\ library'[k].current >= 1
                                             /\ library'[k].current <= library'[k].uploads
          /\ library'[k].state = "archived" => ~Has(items, k)
    BY <1>11 DEF LifecycleInv, LibraryInv
  <2>3. sets'[j].state = "active" /\ version' # 0
    BY <1>2, <1>4, <1>8, TypesGive
  <2> QED BY <1>4, <1>15, <2>1, <2>2, <2>3 DEF LibraryInv, Has
<1>18. JobInv'
  BY <1>2, <1>8, <1>13 DEF JobInv, Created
<1>19. \A s \in 0..MaxSets : s = 0 \/ s \in 1..MaxSets
  BY LifecycleAssumption
<1>20. \A s \in 0..MaxSets : ItemsOf(s)' = ItemsOf(s)
  BY <1>8, <1>19 DEF ItemsOf
<1>21. ASSUME NEW d \in Consoles
       PROVE  command'[d].candidate = command[d].candidate /\ CommandOK(d, command[d], tookEffect)'
  <2>1. PICK cmd \in CommandRecords : cmd = command[d]
    BY TypesGive
  <2>2. PICK q \in CommandRecords : q = command'[d]
    BY <1>14 DEF CommandShape
  <2>3. CommandOK(d, cmd, tookEffect)
    BY <2>1 DEF LifecycleInv, CommandsInv
  <2>4. /\ q.op = cmd.op /\ q.skill = cmd.skill /\ q.reads = cmd.reads /\ q.fresh = cmd.fresh
        /\ q.enabled = cmd.enabled /\ q.current = cmd.current /\ q.listed = cmd.listed
        /\ q.active = cmd.active /\ q.expected = cmd.expected /\ q.next = cmd.next
        /\ q.candidate = cmd.candidate
        /\ \/ cmd.pc = "activate" /\ q.pc = "failed" /\ q.code = "unknown"
           \/ q.pc = cmd.pc /\ q.code = cmd.code
    <3>1. CASE command' = command
      BY <2>1, <2>2, <3>1
    <3>2. CASE Report("failed", "unknown")
      BY <2>1, <2>2, <3>2, ReportGives
    <3> QED BY <1>4, <3>1, <3>2
  <2>5. cmd.active \in 0..MaxSets /\ cmd.candidate \in 0..MaxSets /\ cmd.expected \in Nat
    BY DEF CommandRecords
  <2>6. \A s \in 0..MaxSets : s # 0 =>
          /\ sets'[s].items = sets[s].items
          /\ Created(s) => sets'[s].state # "absent"
          /\ Unactivated(s) /\ s # j => sets'[s].state = sets[s].state
    BY <1>7, <1>8, <1>19 DEF Created, Unactivated
  <2>7. VersionOK(q)'
    <3>1. cmd.expected <= version /\ (cmd.active # 0 => Created(cmd.active))
      BY <2>3 DEF CommandOK, VersionOK
    <3>2. cmd.expected <= version' /\ version' # cmd.expected
      BY <1>4, <2>5, <3>1, TypesGive
    <3>3. cmd.active # 0 => sets'[cmd.active].state # "absent"
      BY <2>5, <2>6, <3>1
    <3> QED BY <2>4, <3>2, <3>3 DEF VersionOK, Created
  <2>8. CandidateOK(q)'
    <3>1. ItemsOf(q.active)' = ItemsOf(cmd.active)
      BY <1>20, <2>4, <2>5
    <3>2. q.pc \in {"before", "create", "activate"} => SameBut(q.skill, q.next, ItemsOf(q.active))'
      BY <2>3, <2>4, <3>1 DEF CommandOK, CandidateOK, SameBut
    <3>3. q.pc \in {"before", "create"} => Uploaded(q.next)'
      <4> SUFFICES ASSUME q.pc \in {"before", "create"}, NEW r \in q.next
                   PROVE  r[2] <= library'[r[1]].uploads
        BY DEF Uploaded
      <4>1. r[1] \in Skills /\ r[2] <= library[r[1]].uploads
        BY <2>3, <2>4 DEF CommandOK, CandidateOK, Uploaded, AllRevisions, CommandRecords
      <4> QED BY <1>11, <4>1
    <3>4. /\ q.candidate # 0 => sets'[q.candidate].state # "absent"
          /\ q.pc \in {"idle", "upload", "read", "before", "create"} => q.candidate = 0
      BY <2>3, <2>4, <2>5, <2>6 DEF CommandOK, CandidateOK
    <3>5. q.pc \in {"activate", "after"} => q.candidate # 0 /\ sets'[q.candidate].items = q.next
      BY <2>3, <2>4, <2>5, <2>6 DEF CommandOK, CandidateOK
    <3>6. q.pc = "activate" /\ job'.set # q.candidate => sets'[q.candidate].state = "candidate"
      <4>1. q.pc = "activate" /\ j # q.candidate =>
              cmd.candidate # 0 /\ sets[cmd.candidate].state = "candidate"
        BY <1>1, <2>3, <2>4 DEF CommandOK, CandidateOK
      <4> QED BY <1>13, <2>4, <2>5, <2>6, <4>1 DEF Unactivated
    <3> QED BY <3>2, <3>3, <3>4, <3>5, <3>6 DEF CandidateOK, Created
  <2>9. EffectOK(d, q, tookEffect)'
    <3>0. EffectOK(d, cmd, tookEffect)
      BY <2>3 DEF CommandOK
    <3>1. Underway(q) <=> Underway(cmd)
      BY <2>4 DEF Underway
    <3>2. Underway(q) /\ Holds(q, ItemsOf(activeSet))' => d \in tookEffect'
      <4>1. Holds(q, ItemsOf(activeSet))' <=> Holds(cmd, items)
        BY <1>15, <2>4 DEF Holds, Has
      <4> QED BY <1>4, <2>1, <3>1, <4>1 DEF NowHolds, Underway
    <3>3. d \in tookEffect => d \in tookEffect'
      BY <1>4
    <3>4. Holds(q, q.next)' <=> Holds(cmd, cmd.next)
      BY <2>4 DEF Holds, Has
    <3>5. cmd.skill \in Skills => (Outdated(q)' <=> Outdated(cmd))
      BY <1>11, <2>4 DEF Outdated
    <3>6. ItemsOf(q.active)' = ItemsOf(cmd.active)
      BY <1>20, <2>4, <2>5
    <3>7. cmd.skill \in Skills => /\ library'[cmd.skill].state = library[cmd.skill].state
                                  /\ library'[cmd.skill].uploads = library[cmd.skill].uploads
      BY <1>11
    <3>8. /\ Underway(q) => q.pc # "idle"
          /\ q.pc \in {"read", "before", "create", "activate", "after", "succeeded"} =>
               q.pc # "idle"
          /\ q.pc # "idle" <=> cmd.pc # "idle"
      BY <2>4 DEF Underway
    <3>9. cmd.pc # "idle" => cmd.skill \in Skills
      BY <3>0 DEF EffectOK
    <3>10. q.pc # "idle" => /\ q.skill \in Skills /\ q.op # "none"
                            /\ library'[q.skill].state # "absent"
      BY <2>4, <3>0, <3>7, <3>8, <3>9 DEF EffectOK
    <3>11. Underway(q) => q.fresh <= library'[q.skill].uploads
      BY <2>4, <3>0, <3>1, <3>7, <3>8, <3>9 DEF EffectOK
    <3>12. q.pc = "read" /\ "skill" \notin q.reads =>
             /\ q.current <= library'[q.skill].uploads
             /\ q.enabled /\ q.op = "enable" => d \in tookEffect'
             /\ ~q.enabled /\ q.op # "enable" => d \in tookEffect'
      BY <2>4, <3>0, <3>3, <3>7, <3>8, <3>9 DEF EffectOK
    <3>13. q.pc \in {"before", "create", "activate", "after"} => Holds(q, q.next)' \/ Outdated(q)'
      BY <2>4, <3>0, <3>4, <3>5, <3>8, <3>9 DEF EffectOK
    <3>14. q.pc = "succeeded" => d \in tookEffect' \/ Outdated(q)'
      BY <2>4, <3>0, <3>3, <3>5, <3>8, <3>9 DEF EffectOK
    <3>15. q.pc = "read" /\ q.reads = {} /\ q.op = "replace"
             /\ <<q.skill, q.fresh>> \in ItemsOf(q.active)' => d \in tookEffect'
      BY <2>4, <3>0, <3>3, <3>6 DEF EffectOK
    <3>16. /\ q.pc = "upload" => q.op = "replace" /\ q.fresh = 0
           /\ q.pc = "read" /\ q.op = "replace" => q.fresh # 0 /\ "revisions" \notin q.reads
           /\ q.pc = "archive" => q.op = "delete"
      BY <2>4, <3>0 DEF EffectOK
    <3> QED BY <3>2, <3>10, <3>11, <3>12, <3>13, <3>14, <3>15, <3>16 DEF EffectOK, Underway
  <2>10. AnswerOK(d, q, tookEffect)'
    <3>0. AnswerOK(d, cmd, tookEffect) /\ (cmd.pc # "idle" => cmd.skill \in Skills)
      BY <2>3 DEF CommandOK, EffectOK
    <3>1. /\ q.pc \notin {"discard", "failed", "answered"} => q.code = "none"
          /\ Underway(q) => q.code # "ok"
      BY <2>4, <3>0 DEF AnswerOK, Underway
    <3>2. q.code = "ok" => cmd.code = "ok" /\ cmd.skill \in Skills
      BY <2>4, <3>0 DEF AnswerOK
    <3>3. q.code = "ok" => d \in tookEffect' \/ Outdated(q)'
      <4>1. d \in tookEffect => d \in tookEffect'
        BY <1>4
      <4>2. cmd.skill \in Skills => (Outdated(q)' <=> Outdated(cmd))
        BY <1>11, <2>4 DEF Outdated
      <4> QED BY <3>0, <3>2, <4>1, <4>2 DEF AnswerOK
    <3>4. q.code = "ok" /\ q.op = "delete" => library'[q.skill].state = "archived"
      BY <1>11, <2>4, <3>0, <3>2 DEF AnswerOK
    <3>5. q.code = "conflict" /\ q.op # "delete" /\ q.candidate # 0 =>
            sets'[q.candidate].state \notin {"active", "superseded"} /\ job'.set # q.candidate
      <4>1. q.code = "conflict" /\ q.op # "delete" /\ q.candidate # 0 =>
              Unactivated(cmd.candidate) /\ j # cmd.candidate
        BY <1>1, <2>4, <3>0 DEF AnswerOK
      <4> QED BY <1>13, <2>4, <2>5, <2>6, <4>1 DEF Unactivated
    <3> QED BY <3>1, <3>3, <3>4, <3>5 DEF AnswerOK, Underway, Unactivated
  <2> QED BY <2>1, <2>2, <2>4, <2>7, <2>8, <2>9, <2>10
          DEF CommandOK, VersionOK, CandidateOK, EffectOK, AnswerOK, Underway, Outdated, SameBut,
              Uploaded, Created, Unactivated
<1>22. CommandsInv'
  BY <1>21 DEF LifecycleInv, CommandsInv
<1> QED BY <1>14, <1>16, <1>17, <1>18, <1>22 DEF LifecycleInv

-----------------------------------------------------------------------------
LEMMA LifecycleStarts == LifecycleInit => LifecycleInv
<1> SUFFICES ASSUME LifecycleInit PROVE LifecycleInv
  OBVIOUS
<1>0. /\ 0 \in 0..MaxSets /\ 1 \in 1..MaxSets /\ 1 \in 0..MaxSets /\ 0 \in 0..MaxUploads
      /\ 1 \in 0..MaxUploads /\ 1 \in 1..MaxUploads /\ 0 \in 0..MaxRequests
      /\ 0 \in 0..MaxSkillFaults
  BY LifecycleAssumption
<1>1. PICK listed \in SUBSET Skills : \E enabled \in SUBSET listed :
        /\ library = [k \in Skills |-> IF k \in listed
                                      THEN [state |-> "listed", current |-> 1, uploads |-> 1]
                                      ELSE [state |-> "absent", current |-> 0, uploads |-> 0]]
        /\ activeSet = IF enabled = {} THEN 0 ELSE 1
        /\ sets = [s \in 1..MaxSets |-> IF s = activeSet
                                       THEN [state |-> "active", items |-> enabled \X {1}]
                                       ELSE NoSet]
  BY DEF LifecycleInit
<1>2. PICK enabled \in SUBSET listed :
        /\ library = [k \in Skills |-> IF k \in listed
                                      THEN [state |-> "listed", current |-> 1, uploads |-> 1]
                                      ELSE [state |-> "absent", current |-> 0, uploads |-> 0]]
        /\ activeSet = IF enabled = {} THEN 0 ELSE 1
        /\ sets = [s \in 1..MaxSets |-> IF s = activeSet
                                       THEN [state |-> "active", items |-> enabled \X {1}]
                                       ELSE NoSet]
  BY <1>1
<1>3. /\ version = activeSet /\ loadedSet = activeSet
      /\ agentSet = [active |-> activeSet, version |-> version]
      /\ job = [set |-> 0, expected |-> 0, step |-> "none"]
      /\ command = [c \in Consoles |-> NoCommand]
      /\ unresolved = {} /\ tookEffect = {} /\ requests = 0 /\ skillFaults = 0
  BY DEF LifecycleInit, NoJob
<1>4. activeSet \in 0..MaxSets /\ activeSet \in 0..1
  BY <1>0, <1>2
<1>5. \A k \in Skills :
        /\ library[k] \in SkillRecords /\ library[k].state # "archived"
        /\ k \in listed => library[k].uploads = 1 /\ library[k].current = 1
        /\ library[k].state = "absent" => library[k].uploads = 0
        /\ library[k].state # "absent" => library[k].current >= 1
                                          /\ library[k].current <= library[k].uploads
  BY <1>0, <1>2 DEF SkillRecords
<1>6. \A s \in 1..MaxSets :
        /\ sets[s] \in SetRecords
        /\ s = activeSet => sets[s].state = "active"
        /\ \A r \in sets[s].items : r[1] \in listed /\ r[2] = 1
  <2> SUFFICES ASSUME NEW s \in 1..MaxSets
               PROVE  /\ sets[s] \in SetRecords
                      /\ s = activeSet => sets[s].state = "active"
                      /\ \A r \in sets[s].items : r[1] \in listed /\ r[2] = 1
    OBVIOUS
  <2>1. enabled \X {1} \in SUBSET AllRevisions
    BY <1>0 DEF AllRevisions
  <2>2. CASE s = activeSet
    <3>1. sets[s] = [state |-> "active", items |-> enabled \X {1}]
      BY <1>2, <2>2
    <3> QED BY <2>1, <3>1 DEF SetRecords
  <2>3. CASE s # activeSet
    <3>1. sets[s] = [state |-> "absent", items |-> {}]
      BY <1>2, <2>3 DEF NoSet
    <3> QED BY <2>3, <3>1 DEF SetRecords
  <2> QED BY <2>2, <2>3
<1>7. CommandShape
  BY <1>0, <1>3, NoCommandShape DEF CommandShape
<1>8. \A c \in Consoles :
        /\ command[c] = NoCommand /\ command[c].pc = "idle" /\ command[c].skill = NoSkill
        /\ command[c].candidate = 0 /\ command[c].active = 0 /\ command[c].expected = 0
        /\ command[c].next = {} /\ command[c].code = "none"
  BY <1>3 DEF NoCommand
<1>9. LifecycleTypeOK
  <2>1. library \in [Skills -> SkillRecords] /\ sets \in [1..MaxSets -> SetRecords]
    BY <1>2, <1>5, <1>6
  <2>2. {activeSet, loadedSet, agentSet.active} \subseteq 0..MaxSets
    BY <1>3, <1>4
  <2>3. version \in Nat /\ agentSet.version \in 0..version /\ job.expected \in 0..version
    BY <1>3, <1>4
  <2> QED BY <1>0, <1>3, <1>8, <2>1, <2>2, <2>3 DEF LifecycleTypeOK, SkillRecords, SetRecords
<1>10. LibraryInv
  <2>1. \A s \in 1..MaxSets : Uploaded(sets[s].items)
    BY <1>5, <1>6 DEF Uploaded
  <2>2. activeSet # 0 => sets[activeSet].state = "active"
    BY <1>0, <1>2, <1>6
  <2> QED BY <1>3, <1>5, <2>1, <2>2 DEF LibraryInv
<1>11. JobInv
  BY <1>3 DEF JobInv, NoJob
<1>12. CommandsInv
  <2>1. \A c \in Consoles : CommandOK(c, command[c], tookEffect)
    BY <1>3, <1>4, <1>8
    DEF CommandOK, VersionOK, CandidateOK, EffectOK, AnswerOK, Underway
  <2> QED BY <1>8, <2>1 DEF CommandsInv
<1> QED BY <1>7, <1>9, <1>10, <1>11, <1>12 DEF LifecycleInv

LEMMA LifecycleStutters ==
  ASSUME LifecycleInv, UNCHANGED lifecycleVars
  PROVE  LifecycleInv'
<1>1. UNCHANGED <<library, sets, activeSet, version, loadedSet, agentSet, job, command,
                  unresolved, tookEffect, requests, skillFaults>>
  BY DEF lifecycleVars
<1>2. CommandShape'
  BY <1>1 DEF LifecycleInv, CommandShape
<1>3. LifecycleTypeOK'
  BY <1>1, <1>2, TypesGive, TypesFollow
<1>4. LibraryInv' /\ JobInv'
  BY <1>1 DEF LifecycleInv, LibraryInv, JobInv, Has, ItemsOf, Uploaded, Created, Unactivated,
              SameBut
<1>5. ASSUME NEW d \in Consoles
      PROVE  CommandOK(d, command[d], tookEffect)'
  <2>1. CommandOK(d, command[d], tookEffect)
    BY DEF LifecycleInv, CommandsInv
  <2> QED BY <1>1, <2>1
          DEF CommandOK, VersionOK, CandidateOK, EffectOK, AnswerOK, Underway, Outdated, SameBut,
              Uploaded, Created, Unactivated, ItemsOf, Holds, Has
<1>6. CommandsInv'
  BY <1>1, <1>5 DEF LifecycleInv, CommandsInv
<1> QED BY <1>2, <1>3, <1>4, <1>6 DEF LifecycleInv

LEMMA LifecycleKept ==
  ASSUME LifecycleInv, [LifecycleNext]_lifecycleVars
  PROVE  LifecycleInv'
<1>1. CASE UNCHANGED lifecycleVars
  BY <1>1, LifecycleStutters
<1>2. ASSUME NEW c \in Consoles, WebStep(c)
      PROVE  LifecycleInv'
  <2>1. ASSUME NEW k \in Skills, UploadNew(c, k)
        PROVE  LifecycleInv'
    BY <2>1, UploadNewKeeps
  <2>2. ASSUME NEW k \in Skills, NEW op \in {"enable", "disable", "delete", "replace"},
               Ask(c, op, k)
        PROVE  LifecycleInv'
    BY <2>2, AskKeeps
  <2>3. CASE TakeAnswer(c) \/ Confirm(c)
    BY <2>3, PanelKeeps
  <2>4. CASE UploadReplacement(c)
    BY <2>4, UploadReplacementKeeps
  <2>5. CASE ReadSkill(c)
    BY <2>5, ReadSkillKeeps
  <2>6. CASE ReadRevisions(c)
    BY <2>6, ReadRevisionsKeeps
  <2>7. CASE ReadRuntime(c)
    BY <2>7, ReadRuntimeKeeps
  <2>8. CASE RefuseUpload(c) \/ CallLost(c) \/ CheckAfter(c) \/ Audit(c)
    BY <2>8, OutcomeKeeps
  <2>9. CASE Decide(c)
    BY <2>9, DecideKeeps
  <2>10. ASSUME NEW side \in {"registry", "agent"}, CheckBefore(c, side)
         PROVE  LifecycleInv'
    BY <2>10, CheckBeforeKeeps
  <2>11. CASE CreateCandidate(c)
    BY <2>11, CreateKeeps
  <2>12. CASE Discard(c)
    BY <2>12, DiscardKeeps
  <2>13. CASE Archive(c)
    BY <2>13, ArchiveKeeps
  <2> QED BY <1>2, <2>1, <2>2, <2>3, <2>4, <2>5, <2>6, <2>7, <2>8, <2>9, <2>10, <2>11, <2>12,
             <2>13 DEF WebStep
<1>3. CASE AgentStep
  <2>1. CASE AgentRefuses
    BY <2>1, RefusesKeeps
  <2>2. CASE AgentCommits
    BY <2>2, CommitsKeeps
  <2>3. CASE AgentSwaps \/ AgentRestarts
    BY <2>3, FollowsKeeps
  <2>4. ASSUME NEW c \in Consoles, AgentTakes(c)
        PROVE  LifecycleInv'
    BY <2>4, TakesKeeps
  <2>5. ASSUME NEW c \in Consoles, AgentBusy(c) \/ ActivationLost(c)
        PROVE  LifecycleInv'
    BY <2>5, OutcomeKeeps
  <2> QED BY <1>3, <2>1, <2>2, <2>3, <2>4, <2>5 DEF AgentStep
<1> QED BY <1>1, <1>2, <1>3 DEF LifecycleNext

-----------------------------------------------------------------------------
\* A command's expected version is one that the pointer had, the set it created
\* is its own, and what it finds to hold it has noted.
THEOREM LifecycleInvariant == LifecycleSpec => []LifecycleInv
<1>1. LifecycleInit => LifecycleInv
  BY LifecycleStarts
<1>2. LifecycleInv /\ [LifecycleNext]_lifecycleVars => LifecycleInv'
  BY LifecycleKept
<1> QED BY <1>1, <1>2, PTL DEF LifecycleSpec

\* The library, the sets, the Agent and the requests keep their shape.
THEOREM LifecycleTypesCorrect == LifecycleSpec => []LifecycleTypeOK
<1>1. LifecycleInv => LifecycleTypeOK
  BY DEF LifecycleInv
<1> QED BY <1>1, LifecycleInvariant, PTL

\* An answer says what happened: after "ok" the result held while the request
\* ran, a deleted Skill is archived and in no active set, and after "conflict"
\* the set of the request was never active.
THEOREM LifecycleAnswersCorrect == LifecycleSpec => []AnswersTookEffect
<1>1. LifecycleInv => AnswersTookEffect
  <2> SUFFICES ASSUME LifecycleInv, NEW c \in Consoles, command[c].pc = "answered"
               PROVE  /\ command[c].code = "ok" =>
                           \/ c \in tookEffect
                           \/ /\ command[c].op # "replace"
                              /\ library[command[c].skill].uploads > command[c].listed
                      /\ command[c].code = "ok" /\ command[c].op = "delete" =>
                           /\ library[command[c].skill].state = "archived"
                           /\ ~Has(ItemsOf(activeSet), command[c].skill)
                      /\ command[c].code = "conflict" /\ command[c].op # "delete"
                           /\ command[c].candidate # 0 =>
                           sets[command[c].candidate].state \notin {"active", "superseded"}
    BY DEF AnswersTookEffect
  <2>1. AnswerOK(c, command[c], tookEffect) /\ EffectOK(c, command[c], tookEffect)
    BY DEF LifecycleInv, CommandsInv, CommandOK
  <2>2. command[c].skill \in Skills
    BY <2>1 DEF EffectOK
  <2> QED BY <2>1, <2>2 DEF AnswerOK, Outdated, Unactivated, LifecycleInv, LibraryInv
<1> QED BY <1>1, LifecycleInvariant, PTL

\* No activation changes a Skill it was not asked for: the changes that other
\* administrators made since the request read the active set are never lost.
THEOREM OthersUntouched == LifecycleSpec => OnlyTheNamedSkillChanges
<1> DEFINE Named == \E k \in Skills : {r \in ItemsOf(activeSet) : r[1] # k}
                                       = {r \in ItemsOf(activeSet)' : r[1] # k}
<1>1. LifecycleInv /\ [LifecycleNext]_lifecycleVars => [activeSet' # activeSet => Named]_lifecycleVars
  <2> SUFFICES ASSUME LifecycleInv, LifecycleNext, activeSet' # activeSet PROVE Named
    OBVIOUS
  <2>1. AgentCommits
    <3>1. ASSUME NEW c \in Consoles, WebStep(c) PROVE activeSet' = activeSet
      BY <3>1 DEF WebStep, UploadNew, Ask, TakeAnswer, Confirm, UploadReplacement, RefuseUpload,
                  ReadSkill, ReadRevisions, ReadRuntime, CallLost, Decide, CheckBefore,
                  CreateCandidate, Discard, CheckAfter, Audit, Archive, Quiet, registryState
    <3>2. ASSUME NEW c \in Consoles, AgentTakes(c) \/ AgentBusy(c) \/ ActivationLost(c)
          PROVE  activeSet' = activeSet
      BY <3>2 DEF AgentTakes, AgentBusy, ActivationLost, Quiet, registryState
    <3>3. AgentRefuses \/ AgentSwaps \/ AgentRestarts => activeSet' = activeSet
      BY DEF AgentRefuses, AgentSwaps, AgentRestarts, registryState
    <3> QED BY <3>1, <3>2, <3>3 DEF LifecycleNext, AgentStep
  <2>2. /\ job.step = "preparing" /\ version = job.expected /\ activeSet' = job.set
        /\ sets' = [t \in 1..MaxSets |->
             IF t = job.set THEN [sets[t] EXCEPT !.state = "active"]
             ELSE IF t = activeSet THEN [sets[t] EXCEPT !.state = "superseded"] ELSE sets[t]]
    BY <2>1 DEF AgentCommits, Activatable
  <2>3. job.set # 0 /\ job.set \in 1..MaxSets
    BY <2>2, TypesGive, LifecycleAssumption DEF LifecycleInv, JobInv
  <2>4. PICK k \in Skills : SameBut(k, sets[job.set].items, ItemsOf(activeSet))
    BY <2>2 DEF LifecycleInv, JobInv
  <2>5. ItemsOf(activeSet)' = sets[job.set].items
    <3>1. sets[job.set] \in SetRecords
      BY <2>3, TypesGive
    <3>2. sets'[job.set] = [sets[job.set] EXCEPT !.state = "active"]
      BY <2>2, <2>3
    <3>3. sets'[job.set].items = sets[job.set].items
      BY <3>1, <3>2 DEF SetRecords
    <3> QED BY <2>2, <2>3, <3>3 DEF ItemsOf
  <2>6. sets[job.set].items \subseteq AllRevisions /\ ItemsOf(activeSet) \subseteq AllRevisions
    BY <2>3, TypesGive, LifecycleAssumption DEF ItemsOf
  <2> QED BY <2>4, <2>5, <2>6 DEF SameBut
<1> QED BY <1>1, LifecycleInvariant, PTL DEF LifecycleSpec, OnlyTheNamedSkillChanges
=============================================================================
