---------------------------- MODULE ModelConsole ----------------------------
(***************************************************************************)
(* The model configuration console of the administration pages, with the   *)
(* web's commands between it and the Agent.                                *)
(*                                                                         *)
(* A page saves drafts, has one tested and activated, and shows a key for  *)
(* a while.  A change passes the web (rights, audit, Agent, audit) and may *)
(* outlive the page's interest in it: the page is hidden, switched to      *)
(* another provider, the answer is lost or not clear.  Then the page locks *)
(* itself until a snapshot proves the change or its window has passed.     *)
(* Other administrators save meanwhile.                                    *)
(*                                                                         *)
(* The Agent is what ModelControl shows of it (ControlAnswersAreFinal): a  *)
(* change takes effect only on the head revision it names, at most once,   *)
(* perhaps after the web gave up; an answer that is not an error of        *)
(* storage tells the outcome.  A draft is its revision and its content     *)
(* (model, endpoint and address); the runtime that a snapshot shows beside *)
(* the drafts only makes the web refuse some snapshots.                    *)
(***************************************************************************)
EXTENDS Naturals, Sequences

CONSTANTS
  Vendors,         \* model providers
  FirstVendor,     \* the provider that a page shows first
  Contents,        \* model, endpoint and address of a draft
  NoContent,       \* those of a provider that was never configured
  MaxDraft,        \* BOUND: revisions per provider
  MaxSubmissions   \* BOUND: changes submitted by the page

ASSUME ConsoleAssumption ==
  /\ FirstVendor \in Vendors
  /\ NoContent \notin Contents
  /\ {MaxDraft, MaxSubmissions} \subseteq Nat

VARIABLES
  draft,      \* the head revision of each provider, at the Agent
  changes,    \* the changes that pages submitted, with their way
  opened,     \* a page is mounted
  visible,    \* and is neither hidden nor suspended
  snapshot,   \* the drafts it shows
  selected,   \* the provider it shows
  doing,      \* what is pending: nothing, a change or a refresh
  pendingAt,  \* the change that is pending, or 0
  unknown,    \* the change whose result is not known, or 0: not locked
  fetched,    \* what the running refresh has read at the Agent
  key,        \* the key display
  reveal      \* the request for a key that is listened to

consoleVars == <<draft, changes, opened, visible, snapshot, selected, doing,
                 pendingAt, unknown, fetched, key, reveal>>
pageVars == <<opened, visible, snapshot, selected, doing, pendingAt, unknown,
              fetched>>

NoDraft == [revision |-> 0, content |-> NoContent]
Drafts == [revision: 0..MaxDraft, content: Contents \cup {NoContent}]
Snapshots == [Vendors -> Drafts]
NotRead == <<>>
NoKey == [status |-> "idle", vendor |-> FirstVendor]
NoReveal == [revision |-> 0, vendor |-> FirstVendor, served |-> FALSE]

Outcomes == {"undecided", "applied", "refused", "failed test"}
Changes ==
  [kind: {"save", "activate"}, vendor: Vendors, base: Drafts,
   content: Contents \cup {NoContent},
   stage: {"checking", "calling", "ended"},
   outcome: Outcomes,          \* at the Agent
   heard: Outcomes,            \* the web's answer; "undecided": not clear
   asked: BOOLEAN,             \* the Agent was asked
   own: BOOLEAN,               \* submitted by the page that is open
   expired: BOOLEAN,           \* its reconciliation window has passed
   told: {"nothing", "succeeded", "failed", "unknown"}]

ConsoleTypeOK ==
  /\ draft \in Snapshots
  /\ changes \in Seq(Changes)
  /\ opened \in BOOLEAN /\ visible \in BOOLEAN
  /\ snapshot \in Snapshots
  /\ selected \in Vendors
  /\ doing \in {"nothing", "submitting", "verifying", "refreshing"}
  /\ pendingAt \in 0..Len(changes)
  /\ unknown \in 0..Len(changes)
  /\ fetched \in Snapshots \cup {NotRead}
  /\ key \in [status: {"idle", "loading", "revealed"}, vendor: Vendors]
  /\ reveal \in [revision: 0..MaxDraft, vendor: Vendors,
                 served: BOOLEAN]
  /\ doing \in {"submitting", "verifying"} <=> pendingAt # 0

ConsoleInit ==
  /\ draft = [v \in Vendors |-> NoDraft]
  /\ changes = <<>>
  /\ opened = FALSE
  /\ visible = FALSE
  /\ snapshot = draft
  /\ selected = FirstVendor
  /\ doing = "nothing"
  /\ pendingAt = 0
  /\ unknown = 0
  /\ fetched = NotRead
  /\ key = NoKey
  /\ reveal = NoReveal

-----------------------------------------------------------------------------
(* The Agent.                                                              *)

NextDraft(v, content) ==
  [draft EXCEPT ![v] = [revision |-> @.revision + 1, content |-> content]]

\* A change that was sent takes effect on the head it was made for, and on
\* no other; a save makes the next revision.
StillApplies(m) ==
  m.outcome = "undecided" /\ draft[m.vendor].revision = m.base.revision
AgentApplies(i) ==
  /\ changes[i].asked
  /\ StillApplies(changes[i])
  /\ changes' = [changes EXCEPT ![i].outcome = "applied"]
  /\ draft' = IF changes[i].kind = "save"
              THEN NextDraft(changes[i].vendor, changes[i].content) ELSE draft
  /\ UNCHANGED <<pageVars, key, reveal>>

\* A conflict, a refusal, a test that fails: nothing changes, then or later.
AgentRefuses(i, outcome) ==
  /\ changes[i].asked
  /\ changes[i].outcome = "undecided"
  /\ outcome = "failed test" => changes[i].kind = "activate"
  /\ changes' = [changes EXCEPT ![i].outcome = outcome]
  /\ UNCHANGED <<draft, pageVars, key, reveal>>

\* Another administrator saves.
OthersSave(v, content) ==
  /\ draft[v].revision < MaxDraft
  /\ draft' = NextDraft(v, content)
  /\ UNCHANGED <<changes, pageVars, key, reveal>>

-----------------------------------------------------------------------------
(* The web's commands.                                                     *)

\* Rights, form or preflight refuse the request, or an audit entry that must
\* come first cannot be written: the Agent is not asked.
WebRefuses(i, clear) ==
  /\ changes[i].stage = "checking"
  /\ clear => i = pendingAt
  /\ changes' = [changes EXCEPT
       ![i].stage = "ended", ![i].outcome = "refused",
       ![i].heard = IF clear THEN "refused" ELSE "undecided"]
  /\ UNCHANGED <<draft, pageVars, key, reveal>>

\* The preflight of an activation sees the revision at the head; the audit
\* log has the request; the Agent is asked.
WebAsks(i) ==
  /\ changes[i].stage = "checking"
  /\ changes[i].kind = "activate" =>
       draft[changes[i].vendor].revision = changes[i].base.revision
  /\ changes' = [changes EXCEPT ![i].stage = "calling", ![i].asked = TRUE]
  /\ UNCHANGED <<draft, pageVars, key, reveal>>

\* The Agent's answer; or none that is clear: a timeout, an error of the
\* transport, an answer that does not match, storage_unavailable, also when
\* the audit entry of the result cannot be written.  An answer that no page
\* waits for is lost.
WebAnswers(i, clear) ==
  /\ changes[i].stage = "calling"
  /\ clear => i = pendingAt /\ changes[i].outcome # "undecided"
  /\ changes' = [changes EXCEPT
       ![i].stage = "ended",
       ![i].heard = IF clear THEN changes[i].outcome ELSE "undecided"]
  /\ UNCHANGED <<draft, pageVars, key, reveal>>

-----------------------------------------------------------------------------
(* The key display, use-model-key-reveal.                                  *)

\* Variant: the display is cleared, the request is still listened to.
ClearShownKey == key' = NoKey /\ UNCHANGED reveal

\* clearSensitiveState: whatever is on its way is not listened to any more.
ClearKey == key' = NoKey /\ reveal' = NoReveal

RevealStarts ==
  /\ opened /\ visible
  /\ unknown = 0
  /\ doing = "nothing"
  /\ key.status # "loading"
  /\ snapshot[selected].revision > 0
  /\ key' = [status |-> "loading", vendor |-> selected]
  /\ reveal' = [revision |-> snapshot[selected].revision, vendor |-> selected,
                served |-> FALSE]
  /\ UNCHANGED <<draft, changes, pageVars>>

\* Limiter, preflight, audit, Agent, audit: the key of the head revision, if
\* that is the one asked for.
RevealServed ==
  /\ reveal # NoReveal /\ ~reveal.served
  /\ draft[reveal.vendor].revision = reveal.revision
  /\ reveal' = [reveal EXCEPT !.served = TRUE]
  /\ UNCHANGED <<draft, changes, pageVars, key>>

RevealArrives ==
  /\ reveal.served
  /\ key' = [status |-> "revealed", vendor |-> reveal.vendor]
  /\ reveal' = NoReveal
  /\ UNCHANGED <<draft, changes, pageVars>>

\* The administrator hides the key, its 30 seconds are over, or the request
\* for it is refused or lost.
HideKey ==
  /\ opened
  /\ key.status # "idle"
  /\ ClearKey
  /\ UNCHANGED <<draft, changes, pageVars>>

-----------------------------------------------------------------------------
(* The page.                                                               *)

Idle == doing' = "nothing" /\ pendingAt' = 0 /\ fetched' = NotRead
Told(i, what) == changes' = [changes EXCEPT ![i].told = what]

\* requireSync and settleOperation: the page is locked.
RequireSync == unknown' = pendingAt /\ Told(pendingAt, "unknown") /\ Idle

\* Variant: what was pending is forgotten.
AbortForgets == Idle /\ UNCHANGED <<unknown, changes>>

\* abortForLifecycle: what is pending is aborted; a change may go on.
AbortForLifecycle ==
  IF pendingAt # 0 THEN RequireSync ELSE Idle /\ UNCHANGED <<unknown, changes>>

\* The page is rendered with the drafts of that moment.  (When they cannot be
\* read, it is rendered without any control.)
Open ==
  /\ ~opened
  /\ opened' = TRUE
  /\ visible' = TRUE
  /\ snapshot' = draft
  /\ selected' = FirstVendor
  /\ UNCHANGED <<draft, changes, doing, pendingAt, unknown, fetched, key, reveal>>

\* Unmounted: everything is aborted and nothing remembered.
Leave ==
  /\ opened
  /\ opened' = FALSE
  /\ visible' = FALSE
  /\ snapshot' = [v \in Vendors |-> NoDraft]
  /\ selected' = FirstVendor
  /\ Idle
  /\ unknown' = 0
  /\ changes' = [i \in DOMAIN changes |-> [changes[i] EXCEPT !.own = FALSE]]
  /\ ClearKey
  /\ UNCHANGED draft

Hide ==
  /\ opened /\ visible
  /\ visible' = FALSE
  /\ AbortForLifecycle
  /\ ClearKey
  /\ UNCHANGED <<draft, opened, snapshot, selected>>

\* A locked page refreshes as soon as it is seen again.
Show ==
  /\ opened /\ ~visible
  /\ visible' = TRUE
  /\ doing' = IF unknown # 0 THEN "refreshing" ELSE doing
  /\ UNCHANGED <<draft, changes, opened, snapshot, selected, pendingAt, unknown,
                 fetched, key, reveal>>

\* A refresh goes on when another provider is selected, a change does not.
SelectProvider(v) ==
  /\ opened /\ visible
  /\ v # selected
  /\ selected' = v
  /\ IF pendingAt # 0 THEN AbortForLifecycle
     ELSE UNCHANGED <<changes, doing, pendingAt, unknown, fetched>>
  /\ ClearKey
  /\ UNCHANGED <<draft, opened, visible, snapshot>>

Change(kind, content) ==
  [kind |-> kind, vendor |-> selected, base |-> snapshot[selected],
   content |-> content, stage |-> "checking", outcome |-> "undecided",
   heard |-> "undecided", asked |-> FALSE, own |-> TRUE,
   expired |-> FALSE, told |-> "nothing"]

\* save and testAndActivate, up to the request.
Submit(kind, content) ==
  /\ opened /\ visible
  /\ unknown = 0
  /\ doing = "nothing"
  /\ key.status # "loading"
  /\ IF kind = "save"
     THEN content \in Contents /\ snapshot[selected].revision < MaxDraft
     ELSE content = NoContent /\ snapshot[selected].revision > 0
  /\ Len(changes) < MaxSubmissions
  /\ changes' = Append(changes, Change(kind, content))
  /\ doing' = "submitting"
  /\ pendingAt' = Len(changes) + 1
  /\ ClearKey
  /\ UNCHANGED <<draft, opened, visible, snapshot, selected, unknown, fetched>>

\* The answer is lost, or cannot be read, or says that it is not known.
AnswerUnclear ==
  /\ doing = "submitting"
  /\ RequireSync
  /\ UNCHANGED <<draft, opened, visible, snapshot, selected, key, reveal>>

\* The answer is clear.  A success is shown and then verified by a refresh,
\* and so is a failed test; any other refusal ends the matter.
AnswerClear ==
  /\ doing = "submitting"
  /\ changes[pendingAt].stage = "ended"
  /\ changes[pendingAt].heard # "undecided"
  /\ IF changes[pendingAt].heard = "refused"
     THEN Told(pendingAt, "failed") /\ Idle
     ELSE /\ doing' = "verifying"
          /\ UNCHANGED <<changes, pendingAt, fetched>>
  /\ snapshot' = LET m == changes[pendingAt] IN
       IF m.kind = "save" /\ m.heard = "applied"
       THEN [snapshot EXCEPT ![m.vendor] = [revision |-> m.base.revision + 1,
                                            content |-> m.content]]
       ELSE snapshot
  /\ UNCHANGED <<draft, opened, visible, selected, unknown, key, reveal>>

\* The timer at the end of the window, or the button, which is offered to a
\* page that is locked or was told of a conflict.
Refresh ==
  /\ opened /\ visible
  /\ doing = "nothing"
  /\ \/ unknown # 0
     \/ \E i \in DOMAIN changes : changes[i].own /\ changes[i].told = "failed"
  /\ doing' = "refreshing"
  /\ UNCHANGED <<draft, changes, opened, visible, snapshot, selected, pendingAt,
                 unknown, fetched, key, reveal>>

\* loadAdminModelConfigSnapshot: the drafts as they are at that moment.
RefreshReads ==
  /\ doing \in {"verifying", "refreshing"}
  /\ fetched = NotRead
  /\ fetched' = draft
  /\ UNCHANGED <<draft, changes, opened, visible, snapshot, selected, doing,
                 pendingAt, unknown, key, reveal>>

\* The snapshot cannot be read, or the runtime in it is ahead of the drafts,
\* or it is lost.
RefreshFails ==
  /\ doing \in {"verifying", "refreshing"}
  /\ AbortForLifecycle
  /\ UNCHANGED <<draft, opened, visible, snapshot, selected, key, reveal>>

Verified ==
  /\ doing = "verifying"
  /\ fetched # NotRead
  /\ snapshot' = fetched
  /\ Told(pendingAt, IF changes[pendingAt].heard = "applied" THEN "succeeded"
                     ELSE "failed")
  /\ Idle
  /\ UNCHANGED <<draft, opened, visible, selected, unknown, key, reveal>>

\* Variant: the content alone is compared.
SameContentProves(read, m) ==
  m.kind = "save" /\ read[m.vendor].content = m.content

\* A save is proved by its revision with its content: another administrator
\* may have made both, but then this save can no longer take effect.  An
\* activation leaves nothing that would prove it.
SnapshotProvesMutation(read, m) ==
  /\ m.kind = "save"
  /\ read[m.vendor] = [revision |-> m.base.revision + 1, content |-> m.content]

Refreshed ==
  /\ doing = "refreshing"
  /\ fetched # NotRead
  /\ snapshot' = fetched
  /\ unknown' = IF unknown # 0 /\ (\/ changes[unknown].expired
                                   \/ SnapshotProvesMutation(fetched, changes[unknown]))
                THEN 0 ELSE unknown
  /\ Idle
  /\ UNCHANGED <<draft, changes, opened, visible, selected, key, reveal>>

\* The window of a change passes: 10 seconds for a save, 60 for a test.
WindowPasses(i) ==
  /\ i \in {pendingAt, unknown}
  /\ ~changes[i].expired
  /\ changes' = [changes EXCEPT ![i].expired = TRUE]
  /\ UNCHANGED <<draft, pageVars, key, reveal>>

-----------------------------------------------------------------------------
WebNext(i) ==
  \/ WebAsks(i)
  \/ \E clear \in BOOLEAN : WebRefuses(i, clear) \/ WebAnswers(i, clear)

AgentNext(i) ==
  \/ AgentApplies(i)
  \/ \E outcome \in {"refused", "failed test"} : AgentRefuses(i, outcome)

RevealNext == RevealStarts \/ RevealServed \/ RevealArrives \/ HideKey

PageNext ==
  \/ Open \/ Leave \/ Hide \/ Show
  \/ \E v \in Vendors : SelectProvider(v)
  \/ \E content \in Contents : Submit("save", content)
  \/ Submit("activate", NoContent)
  \/ AnswerUnclear \/ AnswerClear
  \/ Refresh \/ RefreshReads \/ RefreshFails \/ Verified \/ Refreshed
  \/ \E i \in DOMAIN changes : WindowPasses(i)

ConsoleNext ==
  \/ \E v \in Vendors, content \in Contents : OthersSave(v, content)
  \/ \E i \in DOMAIN changes : WebNext(i) \/ AgentNext(i)
  \/ RevealNext
  \/ PageNext

ConsoleSpec == ConsoleInit /\ [][ConsoleNext]_consoleVars

-----------------------------------------------------------------------------
(* Properties                                                              *)

\* A page says of its changes only what holds and will hold: one announced
\* as done took effect, one announced as failed did not and never will,
\* wherever the answer was lost, late or unclear.
AnnouncedIsTrue ==
  \A i \in DOMAIN changes :
    /\ changes[i].told = "succeeded" => changes[i].outcome = "applied"
    /\ changes[i].told = "failed" => changes[i].outcome \in {"refused", "failed test"}

\* As long as a change of this page can take effect and its window has not
\* passed, the page waits for it or is locked: neither a stale snapshot nor
\* the save of another administrator unlocks it too early.
UnknownStaysLocked ==
  \A i \in DOMAIN changes :
    changes[i].own /\ StillApplies(changes[i]) /\ ~changes[i].expired =>
      i \in {pendingAt, unknown}

\* A change that can take effect was made from the very draft it replaces
\* or activates, not only from one with its number.
ChangesWhatWasShown ==
  \A i \in DOMAIN changes :
    StillApplies(changes[i]) => draft[changes[i].vendor] = changes[i].base

\* A key is on the screen only while the page is seen, its provider is the
\* selected one and no change is pending or unknown, however late it came.
RevealedKeyIsSelected ==
  key.status = "revealed" =>
    /\ opened /\ visible
    /\ key.vendor = selected
    /\ pendingAt = 0 /\ unknown = 0

\* The console tells the truth and shows what it should.
ConsoleIsTruthful ==
  /\ AnnouncedIsTrue
  /\ UnknownStaysLocked
  /\ ChangesWhatWasShown
  /\ RevealedKeyIsSelected
=============================================================================
