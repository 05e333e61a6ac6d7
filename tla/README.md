# TLA+ verification of the AI agent platform

The repository is a customer portal with an AI assistant: a Next.js web
application (`apps/web`), a Python Agent that runs the assistant on AgentOS
(`apps/agent`), a Python service that keeps the assistant's Skills
(`apps/skill-registry`), shared packages and one PostgreSQL database. This
project models its concurrent core in TLA+, checks the models with TLC and
proves theorems about them with TLAPS.

The core is how the assistant changes while it is in use. An administrator
replaces the *Skill set* or the *language model* of a running Agent: something
is read from a database, prepared or tested for up to minutes, committed to the
database and then swapped in memory, while runs stream, callers give up,
answers get lost and the process may be killed. What must agree in the end are
three things in three places: the pointer in the database, what the process
serves, and what the administrator was told.

Around the core stands the web application: the consoles from which those
changes are made, the conversation of a visitor with the assistant, and the
content, accounts and registrations that staff maintain side by side. Its
servers keep no state between requests, so that everything depends on what the
database locks, compares and orders, and on pages that know when they do not
know.

Contents: 1 inventory, 2 plan, 3 modules, 4 runs, 5 fairness, 6 proofs,
7 divergences found, 8 what is left out.

## 1. Inventory

### 1.1 Components

| component | code | state | operations | here |
|---|---|---|---|---|
| Skill library and Skill sets | `skill_set_schema.py`, `schema.py` (SQL functions and triggers), `repository.py` | `skills`, `skill_revisions`, `agent_skill_sets` with states, items, `active_agent_skill_sets` (pointer, previous, version), `skill_set_control_events` | upload, replace, archive; create, discard, clone, activate, mark failed, reconcile | modelled |
| Skill generation slot | `skill_generation_slot.py`, `skill_materializer.py`, `skill_runtime_manager.py`, `skill_runtime_middleware.py` | current and retired generation with counters, reservation token, `accepting_runs`, wake-up event, reaper task, directories | capture, release, reserve, prepare, commit, cancel, discard, reap, drain, close | modelled |
| Skill activation coordinator | `skill_activation_coordinator.py`, `skill_artifact_repository.py` | `_activation_lock`, `SkillRuntimeStatus`, commit, cleanup and reconciliation tasks | restore, activate, reconcile, shutdown | modelled |
| Model runtime slot | `model_runtime_slot.py` | active client, counters, retired queue, pending count, drain event, reaper | activate, deactivate, calls, close, shutdown | modelled |
| Model control | `model_control_service.py`, `model_config_repository.py`, start of `app.py` | `model_configs`, `active_model_config`, audit events, activation lock | save, test and activate, reconcile at start | partly |
| Web Skill lifecycle | `lifecycle-handler.ts`, `admin-skill-lifecycle-commands.ts`, upload handler, panel | none in the server; the page's unresolved operation | enable, disable, replace, delete, upload, confirm | modelled |
| Model configuration console | `assistant-model-config-panel.tsx`, `use-model-key-reveal.ts`, `admin-model-config-commands.ts` | snapshot, pending change, unknown result with its window, key display | save, test and activate, reveal, refresh, hide, leave | modelled |
| Input policy | `assistant-input-policy-panel.tsx`, `assistant-input-policy.ts` | one row with a revision, the pages | load, save, read back | modelled |
| Assistant conversation | `use-assistant-session.ts`, chat handler, AgentOS client, `agentos-execution-circuit.ts`, readiness, rate limit | turns and active request of a page, two circuits, cached readiness | ask, stream, cancel, leave, probe | modelled |
| Download resources | `downloads/service.ts`, `repository.ts`, `file-store.ts`, public route | rows of resource, revisions, artifacts; object and stage files; advisory lock | create, save, upload, remove, publish, take offline, discard, serve | modelled |
| Documents | `documents/service.ts`, `repository.ts`, `docs-content.ts` | content, revisions, routes, cached catalog | create, save, publish, archive, delete, restore, read | modelled |
| Customer registration | `registration/service.ts`, `repository.ts` | accounts, requests, organizations, memberships | submit, approve, reject | modelled |
| Workforce accounts | `admin/users.ts`, `roles.ts`, `sessions.ts`, staff half of `auth/actions.ts` | users, roles, permissions, sessions | sign in and out, change password, seven mutations of accounts, permissions, revoke | modelled |
| Authentication, access and audit; database package | `auth/*`, `packages/database` | sessions, rate limits, audit records | guards, seeding, first super administrator | partly, with the accounts |
| Registry HTTP service, Skill control API, credentials and endpoints, AgentOS wiring, status page, static pages, deployment | see `PROJECT.json` | none beyond the database and single-use nonces | parse, verify, call, render | no, see 8 |

### 1.2 How they interact

- Web → Registry (HTTP): creates a *candidate* set for every change.
- Web → Agent (HTTP, signed command with set, expected version and deadline):
  activate this set.
- Agent → registry database (SQL functions over a restricted role): reads the
  pointer and the set, moves the pointer, marks a set failed. Every set
  operation takes one advisory lock; library operations lock the Skill's row.
- Inside the Agent, coordinator → slot by method calls under a
  `threading.Lock`; runs → slot through the ASGI middleware; a reaper task
  with a cleaning thread; shielded tasks for the commit and for an abandoned
  preparation.
- Model control is the same shape with a key per provider: draft in the
  database, test of a built client, a commit, a swap of the client.
- Page → web server (HTTP): one request per change. A page that gets no clear
  answer locks itself until it has read what happened.
- Web server → database: transactions at READ COMMITTED that meet in row
  locks, unique indexes and two advisory locks; files beside it on a disk.
- Conversation → Agent: a stream through the readiness circuit, the execution
  circuit and the AgentOS client; inside the Agent the run captures a
  generation of the slot.

### 1.3 What is hard

Interleavings of runs, the reaper, a replacement and shutdown; a lock passed
from a request to a task; a cancelled request whose work cannot be cancelled
(thread) or must not be (commit); an answer that is lost after the COMMIT; a
COMMIT that takes effect after its error was seen; a process killed between the
database and the swap; pages that give up a request that goes on, and retry it;
requests put together from several reads; two transactions that each look right
alone; files and rows that no transaction spans; a cache filled from a read that is
old; a wake-up lost between clearing an event and looking
for work; an event of a shutdown set too early by a callback that another thread
has yet to post. `PROJECT.json` lists each at its line ("hazards"), with the
properties that cover it.

### 1.4 What makes each component correct

- registry: pointer, set states, library and event log tell the same story in
  every order of operations; no set comes back.
- slot: no directory is removed under a run; every retired generation is removed.
- coordinator: an Agent that calls itself ready serves what the database points
  at; refusals are final; the lock is always given back.
- model slot: a client is closed exactly once, never under a call; a shutdown
  that reports success left nothing open.
- model control: the served model is the pointer's; the audit log counts the
  activations; refusals are final.
- lifecycle: an answer says what happened; a change touches the Skill it names.
- console and policy: what a page announces holds, an unknown result keeps it
  locked, nothing is overwritten that was not shown.
- conversation: an answer belongs to its question and passes for whole only if
  it is; one probe at a time tries a failed Agent.
- downloads: rows and files agree after every failure; a range fits its file.
- documents: the catalog can always be built; an old link arrives.
- accounts and registration: somebody can always administer, the disabled have no
  session, each application is decided once and each organization is led.

## 2. Plan

| module | what | state |
|---|---|---|
| `SkillRegistry`, `ActivationLog` | database of Skill sets; what it promises | done, safety and refinement proved |
| `SkillGenerationSlot` | slot, reaper, shutdown | done, safety proved |
| `SkillActivation` | coordinator, composed of both | done, safety proved |
| `ModelRuntimeSlot` | model clients | done, safety proved |
| `ModelControl` | store and service, composed with the slot | done, safety proved |
| `ExecutionCircuit`, `AssistantChat` | circuit; conversation around it | done, safety proved |
| `SkillLifecycle` | the web's change of a Skill in several requests | done, safety and action property proved |
| `ModelConsole`, `InputPolicy` | pages that change the model and the policy | done, safety proved |
| `DownloadResources`, `Documents` | files against rows; addresses and the catalog | done, safety proved |
| `WorkforceAccounts`, `CustomerRegistration` | accounts, sessions, organizations | done, safety proved |
| lock order of the registry's transactions | rows against advisory lock, for deadlock | open |
| customer sessions and profile | the customer half of `auth/actions.ts` | open |

`MCWebContent`, `MCWebAdmin`, `MCModelControl` and `MCSkillGenerationSlot` compose
components; where these share no variable, one moves while the others rest in
an initial state, which is enough to see every state of each and costs the sum
instead of the product.

Every invariant and action property that a run checks is a theorem now. The
proofs of a component are in a module of their own: `SkillActivation_proofs` (with
the registry's and the log's), `SkillGenerationSlot_proofs`,
`ModelRuntimeSlot_proofs`, `ModelControl_proofs` (with console and policy),
`ExecutionCircuit_proofs` (with the conversation), `SkillLifecycle_proofs`,
`WebContent_proofs` (documents and downloads), `WebAdmin_proofs` (accounts and
registrations). Worth stating and proving next: that `ModelConsole` sees of the
service no more than `ModelControl` does (a refinement between the two), and that the
coordinator's operation always has a next step, as a disjunction of guards. No module that is to be
proved about declares a RECURSIVE operator.

## 3. Modules

An action is one step between two awaits, two unlocks or two transactions of
the code. Comments in the modules name the code; `PROJECT.json` maps every
definition to its lines.

### SkillRegistry

State: `listing` (a Skill absent, listed or archived), `uploaded`, `currentOf`
(the revision the library shows), `setState`, `items`, `pointer`, `events`.
Actions are the SQL functions and repository transactions, each one step:
`UploadSkill`, `ReplaceRevision`, `ArchiveSkill`, `CreateSet`, `DiscardSet`,
`ClonePrevious`, `Activate`, `MarkFailed`. They include the triggers that
refuse archived Skills, the replay of a request (a request that repeats its
nonce changes nothing), and the candidate quota. A revision's
content, its digests and its report are abstracted to "a valid revision".
`ActivationLog` is the abstract promise: a log of activations that only grows,
one set at a time, in which no set comes back.

### SkillGenerationSlot

State: the entries `current` and `retired` (set and counter), the token
`reservation`, `prepared`, `accepting`, `leases` (pairs of run and set; the ground
truth behind the counters), `directories`, and for the reaper its program counter
`reaper` and the event `wakeup`; `phase` is the manager's shutdown. A
generation is identified by its set. `ReaperWakes` is the synchronous stretch of
`_run_reaper` from the clearing of the event to the next await, so that a
`Release` from a thread falls before or after it, and `ReaperCleaned` the return of the
cleaning thread, which may have failed. `ManagerShutdown` waits as the code does:
`CleanupCurrent` is guarded by the absence of references and of a retired entry.
`CoordinatorCalls` says what the one user of the slot calls and until when, and
`ProcessStarts` is the next process; `SlotSafety` is the specification
without fairness, which the coordinator is shown to implement.

### SkillActivation

EXTENDS `SkillRegistry` and instantiates the slot. `op` is the one operation
that holds `_activation_lock`, with its program counter (14 steps), the set, the
pointer it read and what its cleanup will do. `status` is `SkillRuntimeStatus`
without the failure code, `answer` what each caller was told, `inFlight` a
COMMIT that was sent and is undecided. Steps and what they stand for:

- `RestoreLoads` … `RestoreFails`: `restore` at start.
- `Admit`, `ActivateLoads`, `CandidateInvalid`, `SlotBusy`, `Reserve`,
  `Materialize`, `MarkRefusedCandidate`: `activate` up to the prepared candidate.
- `GiveUp`, `AbandonedPrepares`, `AbandonedFails`: the deadline passes while a
  thread materializes; a task inherits token and lock.
- `CommitApplies`, `CommitRejected`, `CommitTimesOut`, `CommitUnknown`,
  `AnswerLost`, `AnswerArrives`, `CallerLeaves`: the shielded commit phase.
- `ReconcileSees…`, `ReconcileFails`, `ReconcileRetries`, `ReconcileStops`:
  `_reconcile_unknown`. `InFlightDecided` is the database taking or dropping the
  COMMIT.
- `Administrator` (registry operations by others), `RunsAndReaper`, `Shutdown`,
  `Restart`.

Assumptions of the composition, each from the code: a set is activated by one
command at most (the web makes a set per change, and an assertion's nonce works once);
a transaction in flight holds the registry's advisory lock (`RegistryFree`); the
registry's `activation_timeout` (57014) means not applied; uvicorn ends requests
before the lifespan's shutdown. A failed read of the reconciliation repeats it
and is a stutter; a refused admission changes nothing. A COMMIT that a
dead process had sent is decided before its successor reads the pointer: see the
hazard at `skill_activation_coordinator.py:278`, which nothing in the code
enforces. The branches of `_commit_phase` for a version the database did not
expect and for an exception of `reservation.commit` are unreachable under these
assumptions and are left out.

### ModelRuntimeSlot

State: the active client, `_last_activation_version`, `using` (what each open
call captured), `inFlight`, `retired`, `pending`, `posted` (callbacks that
another thread gave to `call_soon_threadsafe`), `queued`, `closing`, `closed`,
`broken`, `drained`, `reaper`, `shutdown`. A client is built for one activation,
so that it names its entry. A call is a response or a whole stream, and ends on the
loop or in a thread. The queue is a bag: the order of closing does not matter,
and the stop item is only put when nothing else is left. `ShutdownTimesOut` is
the deadline in any of the three waits; it cancels the reaper, also during
`aclose`. Cancellation of the shutdown's own task is left out: it is shielded.

### ModelControl

Instantiates `ModelRuntimeSlot` with one client per command and one (`Boot`)
for the start of the process. State of the store: `head` and `tested` (saved
revisions), `pointer`, `event` (the audit event of each command; nonces are
unique), `lost` (COMMIT undecided). State of the service: `command` (step,
configuration, version read), `entry` (configuration and version under which a
client was installed), `answer`, `process`, `restarts`. Commands test side by
side and only take the lock to read the pointer and commit (`TakeLock` …
`AnswerArrives`). `Cancel` is the cancellation of a request at any await: before
the commit it ends the command, during it the outcome is awaited. `LostDecided`
is the database deciding a commit whose answer was lost; until then it holds the
configuration's row and the advisory lock (`RowFree`, `ActivationsFree`). The
deployment's settings are read anew at each start, so the bootstrap model is
nondeterministic. Each database call is assumed to end: the code sets no
statement timeout there, which is a hazard without a property.

### ExecutionCircuit and AssistantChat

`ExecutionCircuit` is `execute` in two halves: `Execute` lets a call through, as a
probe when the circuit is open and its time has elapsed, and `Settle` counts its end
if it still carries the current generation. `AssistantChat` EXTENDS it and puts
around it the page's session (turns, ids that start again with each
conversation, status, active request), the handler (rate limiter, cached
readiness, provider), the run with its queue of parts, and what the page does
with each part. A call is a question. `Send`, `Leave`, `Display` are the page's
steps, `Handle` the server's; timeouts, cancellations and lost streams are
alternatives of them. The continuations of a cancelled request
run before the next event, as promise callbacks do. A stream of the Agent that
ends without RunCompleted counts as whole: the client accepts it, and its tests
say so. Left out: the text of drafts and of the last failed question, the
placeholder mode, the endpoint and timeout options, the label of the page's
activity, and a navigation that keeps the conversation, which changes nothing.

### SkillLifecycle

State: the Registry's library, sets, active set and version; the Agent's
loaded set, status and job; per console the request the web server runs, with
its program counter and everything it has read so far; the consoles that hold
an unresolved operation. Each call to the Registry or the Agent is a step of its own
(`ReadSkill`, `ReadRevisions`, `ReadRuntime`, `CheckBefore`, `CreateCandidate`,
`AgentTakes`, `Report`, `CheckAfter`, `Archive`, ...) that may fail or lose its
answer; `Decide` computes the next set from what was read. The Agent activates,
refuses, is busy or restarts. `tookEffect` records, for the property only,
the requests whose result held at some time while they ran.

### ModelConsole

State: the head draft of each provider at the Agent, the changes that pages
submitted (each with its way through the web and its outcome), and the page:
what it shows, what is pending, the unknown change that locks it, the key
display. `WebRefuses`, `WebAsks`, `WebAnswers` are the command of
`admin-model-config-commands.ts`; `AgentApplies` and `AgentRefuses` are what
`ModelControl` may do with it, at any time after it was asked;
`OthersSave` is any other administrator. `AbortForLifecycle`, `RequireSync`,
`Refreshed` and `SnapshotProvesMutation` are the functions of those names. A
rendered page is `Open`, an unmounted one `Leave`, which forgets an unknown
result: so does the code, and the properties speak of the page that is open.
Time is the event `WindowPasses`. The audit entries appear as what they can cause: a
request that is not sent, an answer that is not clear. Left out: the
clipboard, messages, checks of the form, and the runtime part of the snapshot.

### InputPolicy

State: the row's successive terms, the requests to save with what their page was
told, the pages. `PutCommits` compares the revision as the insert or the
update does and writes the audit entry in the same transaction;
`ReadBack` is `reconcileUnknownOutcome`. The normalization of terms is abstracted.

### DownloadResources

One resource, since keys of files never meet across resources. State: the row, its
revisions and artifacts, the files under `objects/` and `staging/`, the
advisory lock (whose holder may lose its session), the request of each page
with its program counter, the visitor between looking up and opening a file.
Files are written before the transaction and removed after it; `Compensate`
and the cleanup may fail, the process may die between any two. A stage is kept with the tab whose
request knows its name. Nothing lists `staging/`: after a death, or when a
discard fails, the file stays there and is nobody's. Storing a part is a link
(`LinkFile`) and an unlink (`UnlinkStage`), an abort is noticed between parts,
and a failed step rolls the object back or keeps it; compensation knows only the
parts that `commitArtifact` reported. `unanswered` and `abandoned` remember, for the properties, the
uploads whose COMMIT got no answer and those whose files a death, a failed
rollback or a failed removal leaves.

### Documents

State: the rows of content, revisions and routes, the transaction of each
editor, the cached catalog and one that is being read, and the permanent
redirects browsers remember. Creation and saving are modelled statement by
statement: an uncommitted entry of the unique index makes the next writer of
the address wait, and a cycle of waits is broken by aborting one of them. The other
mutations lock rows of one document only and are one step. Publication drops
the catalog afterwards, in a step that may be lost.

### WorkforceAccounts and CustomerRegistration

A mutation of accounts is a guard that reads the caller's session, an advisory
lock, the reads that decide, the writes and the commit, each a step. Sign-ins, password
changes and revocations run beside it without the lock; the trigger on the
sessions table is part of `OpenSession`. A submission of a customer
inserts account and request in one transaction that the unique index may
refuse; a review locks the request, then the organization (which it may have
to insert), and decides from what it reads under those locks.

## 4. Runs

Bounds are small sets; none of the modules has an unbounded counter but
versions, which count activations.

| run | module, bounds | states | question |
|---|---|---|---|
| `registry` | 3 sets, 2 Skills, 3 revisions, 5 requests, quota 2; symmetry of sets and requests | 15 631 | Do pointer, states, library and log agree in every order of operations, and do they implement `ActivationLog`? |
| `slot` | 3 sets, 2 runs; 1 page, 3 calls of the circuit of which 2 are questions, threshold 2, 1 part, 2 conversations | 488 097 | Is nothing removed under a run, and everything retired removed in the end? Is every shown answer whole and its own, with one probe at a time? |
| `activation` | 2 sets, 1 Skill, 1 run, 1 process death; symmetry of sets | 539 049, depth 32 | Do database, slot, status and answers agree, whatever is lost or late? |
| `activation_live` | 2 sets, no runs, no death, with fairness | 241 302 | Is the lock always given back, and an unknown commit resolved? |
| `model_slot` | 3 clients, 2 calls | 5 251, depth 19 | Is each client closed once, never under a call, and does a clean shutdown close all? |
| `model_control` | service: 2 providers with 2 revisions, 2 commands, 1 call, 1 process death; console: 2 providers, 2 contents, 2 revisions, 1 change; policy: 2 pages, 2 lists of terms, 3 saves; symmetry | 1 377 023, depth 29 | Is the served model the pointer's, the log complete, every answer final, and what the pages say true? |
| `web_content` | downloads: 2 pages, 1 visitor, 3 revisions, version up to 4, 1 failure, visitors before it only; documents: 2 editors, 2 documents, 2 addresses, 3 revisions each, 6 changes; symmetry | 998 246 | Do rows and files agree, is the catalog servable and does every old link arrive? |
| `web_admin` | lifecycle: 2 consoles, 2 Skills, 2 uploads each, 3 sets, 2 requests, 1 failure; accounts: 2 members of staff, 2 sessions, 2 mutations; registration: 2 applicants, addresses, organizations and reviewers, 1 attempt; symmetry | 595 588 | Does each answer say what happened? Is nobody locked out, no session left to the disabled, every organization led? |
| `runs_during_swap`, `refused_candidates`, `failed_read_unready` | as `activation` | violations | see 7 |
| `lifecycle_failure` | 1 console, 2 Skills, 1 request, 1 failure | violation | see 7 |

Why the bounds are enough. *registry*: three sets are the least with a
superseded, an active and a candidate set at once, and let the previous set be cloned;
two revisions of one Skill and a second Skill let a replacement and an archive
meet; a set operation
uses up a request, so five of them are two sets made and activated and a third one
made, cloned or ended. A third activation is left to the theorems of section 6; six
requests also pass (25 802 states) but cost TLC much longer for their
symmetry. *slot*: a third set is needed
for a replacement to be asked for while a retired generation is held; two
runs let one hold the retired and one the current generation. *activation*: one
set is live when the second one is activated; one run spans the swap; one death
falls at any point. The run without runs checks liveness at the coordinator's own
size. *model_slot*: one client active, one retired with a call, one closing.
*model_control*: two commands suffice for one to pass the other between test and
lock; two revisions let the head move under a test. One change of the console
meets the saves of others before, during and after it, for the same provider
and the other one; a second change after the window has passed differs from
another administrator's save only in who is told. Three saves of the policy
are a save, its retry and another administrator's. *slot*, the web's half: the
third call is one that began before the circuit opened, and two conversations
let an id be given twice; the circuit first moves alone under any calls, so that
the questions start from each state these may have left. *web_content*: a
published revision, a draft and a retired one make three; a visitor reads only what
rows and files show and is not mixed with a failure (`VisitorsBeforeFailures`,
the theorem `RangesCorrect` covers both together); two documents
and two addresses are the least for a cycle of waits and for a circle of
redirects. *web_admin*: two of each meet in every lock; three sets
are the active one and one candidate for each request. One failure each, in any place:
the handlers undo one failed step, and promise nothing of two.

`CHECK_DEADLOCK FALSE` everywhere: finite sets, requests and commands are used
up, and a process that was shut down stops.

What the invariants say:

- `PointerMatchesStates`: the pointed set is the only active one, the
  previous one is superseded, none before the first activation.
- `ActiveSetIsCurrent`: the active set holds only revisions of listed Skills, each the
  one the library shows. Archiving takes the Skill's row and not the advisory
  lock, and activation the reverse; the triggers must close the gap.
- `EventsExplainStates`: each ended set has exactly the one event that ended it,
  and the versions run without a gap. Reconciliation relies on it.
- `ReferencesAreLeases`, `LeasedDirectoryPresent`, `AcceptedGenerationPresent`:
  the counters are the runs' leases; a directory in use, or offered, is there.
- `RetiredIsReaped`, `CloseStopsReaper`: no wake-up of the reaper is lost.
- `ReadyMeansLoaded`: with no operation in progress, a process that calls itself ready has
  the database's set and version.
- `AcceptedRunsAreCurrent`: runs are given the database's set, or the one before it
  between commit and swap, and at no other time. This pins the exact window of the
  divergence `runs_during_swap`.
- `ServedSetsWereActivated`: no run is served by a candidate, a failed or a
  discarded set.
- `AnswersAreFinal`, `ControlAnswersAreFinal`: "ok" went live, a refusal never
  will, also not by a late COMMIT.
- `CallsHoldOpenClients`, `RetiredInOnePlace`, `CleanShutdownClosesAll`,
  `RetiredIsClosed`: clients are closed once, in time and
  never early; the shutdown's event tells the truth while a thread's callback is
  still to run (a part of `RetiredInOnePlace`).
- `ServedModelIsActive`: the active client is the pointer's, or one version older
  while an answer is on its way; a lost commit leaves no former model serving.
- `ControlAnswersAreFinal` also says that the pointer's version is the number of
  success events.
- `OneProbeAtATime`: the circuit is half open exactly while one call tries the
  Agent; a late end of an earlier call neither lets in a second one nor leaves
  the circuit half open for ever.
- `AnswersAreWholeAndOwn`: what stands under a question is its own answer,
  still arriving, marked incomplete, or whole; only whole answers of the same
  conversation are sent along with the next question.
- `AnswersTookEffect`, `OnlyTheNamedSkillChanges`: a lifecycle request that
  reads and writes in a dozen separate calls never changes another Skill, and
  "ok" and "conflict" mean what they say.
- `PagesTellTheTruth`: of the console, `AnnouncedIsTrue` (done or failed for good),
  `UnknownStaysLocked` (a change that can still take effect keeps its page locked
  for its window, and neither a stale snapshot nor a foreign save opens
  it), `ChangesWhatWasShown` (no change replaces a draft that its page had not
  shown) and `RevealedKeyIsSelected`
  (together `ConsoleIsTruthful`); of the policy, `PolicyAnswersHold`: each revision was made by one request from the revision
  it had been shown, and what the page was told is so. The policy's
  page may say "not saved" or "failed" of a save that is taken later or was
  taken without a confirmed COMMIT; the property does not count those as
  promises, and shows that the retry cannot overwrite anything unseen.
- `LiveFilesExist`, `NothingLeftBehind`: each named file is on the disk and each
  file is named, owned by a running upload, or left by a death or a failed
  removal; each stage is a request's that has yet to store or discard it, or a
  failure lost its name: no refusal, abort or commit forgets one. The exception of the
  first one is written into it: an upload whose COMMIT was
  taken and not answered is compensated for by the server.
- `RangeAnswersFit`: bytes are those the range asks of the file that is open. In the
  model a later file is longer, so that TLC meets bytes of the earlier file that
  the later one has too; the store's own refusal of bytes beyond the end
  (`file-store.ts:442-449`) is a conjunct of `Openable` that no run reaches.
- `CatalogIsServable`, `OldLinksArrive`: one inconsistent row would make all
  documentation unavailable; permanent redirects remembered by browsers never
  form a circle nor lead to another document.
- `NobodyIsLockedOut`, `DisabledHaveNoSession`, `OrganizationsAreLed`: what the
  advisory lock, the trigger and the row locks are there for.

Each property has a mutant in the module it is about (the operators commented
"Variant"): the code as a plausible mistake would have it, under which TLC
finds the property violated with the same configuration.

## 5. Fairness

- `SlotFairness`: the reaper is a task of a running loop, a cleaning thread
  returns, and each run's response ends (the proxy closes idle streams). Nothing is
  assumed of replacements or shutdown.
- `ActivationFairness`: the operation in progress goes on, since each of its awaits
  has an answer, an error or a deadline; the database decides what was sent
  (its server-side statement timeout); and, strongly, a `mark_failed` that
  `_reconcile_unknown` retries every quarter of a second for ever is at last
  accepted. Without the last, a database that never answers keeps the process
  degraded, which is what the code intends. Administrators, runs and callers
  are under no fairness.
- `ModelSlotFairness`: loop callbacks and tasks run, an `aclose` ends, calls end
  by their deadline, and the shutdown's waits end with its deadline.
- `RegistrySpec`, `ActivationSpec` and the specifications of the web have none: only
  safety is checked under them. A visitor, an administrator or a server that
  dies owes nobody a step.

## 6. Proofs

TLC shows a property on a small instance; the theorems show it for any number of
sets, Skills, clients, commands, pages, questions, documents, accounts and so
on, any bound on faults and restarts, and any of the values the code leaves open.

| module | obligations | theorems about |
|---|---|---|
| `SkillActivation_proofs` | 1567 | registry, its refinement of the log, coordinator |
| `SkillGenerationSlot_proofs` | 429 | generation slot |
| `ModelRuntimeSlot_proofs` | 545 | model slot |
| `ModelControl_proofs` | 2679 | model control, console, input policy |
| `ExecutionCircuit_proofs` | 1733 | circuit, conversation, and a run around both and the slot |
| `SkillLifecycle_proofs` | 2604 | the web's change of a Skill |
| `WebContent_proofs` | 3928 | documents, downloads |
| `WebAdmin_proofs` | 1300 | accounts, registrations |

**Assumptions.** Each is a named ASSUME that TLC evaluates on the run of its
module. The names for "nothing" (`NoSet`, `NoRevision`, `NoModel`, `NoCall`,
`NoSlug`, `NoEmail`, `NoOrganization`, `NoApplicant`, `NoStaff`, `Nobody`) are none of
the things they stand beside; quotas, thresholds, limits and bounds are natural numbers,
positive where the code has them so; `SkillOf` is a function from revisions to Skills.
`Runs`, `Commands` and the clients are finite sets, because counters and events count them, and so
are the tabs of the download page, because the bound on revisions does. `NoTerms` is one of the lists of terms, the empty one. The
coordinator composition names a request after the set it is for and what it asks
(`RequestsAssumption`). `Slugs` and `Docs` may overlap: a document's
identifier and an address are different columns.

**How an invariant is proved.** Hardly any of the properties is inductive as TLC
checks it. For each component the proof module states an inductive invariant as a
conjunction of named parts, proves that the initial states have it and, with a
lemma per action or family of actions, that each step keeps it, and derives the
properties. What each has to add says why the code is right.

*Registry.* `TypeCorrect` and `PointerCorrect` are inductive given the types. `ActiveCorrect` needs
`ActiveInv`: an activation makes the library show the new set's revisions, so two
revisions of one Skill must never be in one set, and uploads, replacements and archives must
leave the active set's Skills as they are. `EventsCorrect` is `EventsInv`, the
same without cardinalities: a set has no ending event while it can still end, and the
versions of the activation events are exactly `1..pointer.version`.
`RegistryImplementsLog` is the refinement of `ActivationLog`: the mapping
reads the log off the events, an activation appends a set that never lived, and every
other operation leaves the log as it is.

*Generation slot.* `SlotInv`: that the reaper removes no directory under a lease needs that the entry
it works on was free when it began and that no run can be added to it since; that a swap
does not overwrite a retired entry needs that a token holder found none; that
the shutdown's removal is safe needs that runs are refused from draining on.
`WakeupsCorrect`: the reaper never waits with its event unset over a free retired
generation or a closing slot. This is the safety half of the two liveness properties.

*Coordinator.* `ActivationUsesRegistry` and `ActivationUsesSlot` show that each behaviour of
the composition is one of the registry and one of the slot, so that their theorems hold in it
(`RunsKeepTheirFiles` is one). `ActivationInv` then ties the rest together:
`SnapshotInv` (the pointer is as the operation read it, or moved just as it
wanted, although library operations and administrators run beside it),
`InFlightInv` (an undecided COMMIT is of a candidate, and while there is one no run is let in and the
process is degraded, restoring or asking for that set), `AcceptInv`, `ReadyInv` and
`AnswerInv` (who was refused never lived). A late COMMIT is the hard case: it must find
nobody who was told something final.

*Model slot.* `ModelSlotInv`: a counter per client that is the number of its calls, one
place per retired client as a sum that equals one, the pending
counter as a cardinality, and the order of the shutdown's waits. The sum is what
survives a release in a thread whose callback has yet to run.

*Model control.* `ControlInv`: at most one command is between the lock and its end; while a
COMMIT is undecided no model serves and no other command has committed without
being told; the version is the number of success events. The slot's steps are carried by
the lemmas of `ModelRuntimeSlot_proofs` under the INSTANCE, and
`ServiceKeepsClients` is its guarantee there.

*Console.* `ConsoleInv`: what the page has read, or is still being read, is an
earlier draft of each provider or the present one (`UpTo`); a page waits for one change or is locked by one;
it believes a clear answer only. `AnnouncedIsTrue` needs that what was heard is what became of
the change, `ChangesWhatWasShown` that a head replaced is one the page had read, and
`UnknownStaysLocked` is a part of the invariant.

*Policy.* `PolicyInv`: the terms of a revision never change, each revision has
exactly one saved request, and a page's terms are those of the revision it shows. The
induction counts the saved requests.

*Circuit and conversation.* `CircuitInv`: half open, one call is both the only probe and the only
carrier of the generation. `ChatUsesCircuit` is a refinement by the identity: each
step of the conversation, its cancellations included, is one of the circuit or leaves
it alone. `ChatInv`: message ids are unique within a conversation and a conversation's
number never comes back, so that a late part finds its own turn or none; an answer
forwarded with "done" was forwarded whole; a turn is active, incomplete or whole. `RunInvariant`
carries both into the run, where a conversation starts on any circuit other calls left.

*Skill lifecycle.* `LifecycleInv`: a request's version stands for the set it read, as
long as the version has not moved; the set it created is its own; a set that may still
become active differs from the active one in one Skill as long as the version fits; whatever a request
finds to hold is in `tookEffect`. `OthersUntouched` is the action property
`OnlyTheNamedSkillChanges`: whatever was read in a dozen separate calls, the commit compares
the version, and with the version goes the set the candidate was made from.

*Documents.* `RowsInv` (each document owns its addresses), `EditsInv` (a transaction under way has
its document and its address to itself, which is what the unique index is for) and
`LinksInv`: redirects kept by browsers, links of the catalogs and links of the rows
together form no circle. `NoCircle` says so without recursion: every set of addresses
has one that no address of the set links to. A publication adds links to its own
canonical address only, and that address has no link out.

*Downloads.* `DownloadsInv` follows each upload: until it commits its identifier is in
no row, list or other request, so that compensation and cleanup cannot remove a file
another one uses; a cleanup's list holds revisions nobody can publish any more, and two cleanups that both believe to
hold the lock have lists of which one contains the other; a file is about to be
removed only when no unmarked row names it; each part
of a running upload is a stage or an object, both only between link and unlink or
in an upload whose rollback failed. `StrayInv`
adds that a stage without owner needs a failure, for which each action is shown either to lose no
name or to count one. `BoundsInv` adds that the bound
leaves room for each revision a request still owes (by cardinality), from which
`DownloadsTypesCorrect` follows. `ReadersInv` shows that a range parsed
twice fits the file that is open.

*Accounts and registrations.* `AccountsInv`: what was decided under the advisory lock is
still right when it is written, because nobody else who may change it holds the lock (`DecidedInv`),
and a session belongs to somebody active, because the trigger and the disabling
meet in the row (`SessionInv`). `RegistrationInv`: a review's request is pending and its
alone, the organization's members are counted under its lock, and each organization with a member has
a leader.

**Compositions.** `AdminUsesParts`, `ContentUsesParts`, `ModelUsesParts` and `RunUsesSlot`: the specifications that the runs
check imply those of their parts, so that every theorem above holds of them; the
`...TypesCorrect` of each states its type invariant, and `PagesCorrect` what the pages say.

**Only model-checked.** The temporal properties `RetiredIsReaped`,
`CloseStopsReaper`, `RetiredIsClosed`, `LockIsReleased` and `UnknownIsResolved`:
liveness under fairness needs ENABLED, which the prover does not handle. And that
the properties can fail at all, which the mutants and the four violated runs show.

**What the proofs changed in the models.** `SlotSafety` and `CoordinatorCalls` were made explicit,
and the coordinator's use of the slot during shutdown and restoration, to be able to state that it uses
the slot as the slot's proof assumes; the turns of a conversation became
a set of records, because their order is never used; the bounds got their assumptions (two
revisions exist from the start in one initial state of the downloads, so the bound
on them is at least two).

## 7. Divergences found

1. `runs_during_swap`. The registry design (2026-07-20, line 437) says no new run is let in
   between the database commit and the swap of the reference. The code leaves the
   slot open during `activate_agent_skill_set`. The trace: the candidate is
   prepared, the transaction commits, a run captures the former generation, the
   answer arrives. `AcceptedRunsAreCurrent` shows that this is the only
   such window.
2. `refused_candidates`. The same design (line 433) says a candidate whose preparation, wait or
   CAS failed is marked `failed`. An abandoned preparation and a refused
   commit leave it `candidate`, where it counts against the quota until someone
   discards it.
3. `failed_read_unready`. The Skill management design (2026-08-07, line 102) says a failed change keeps the
   running state. When `load_active` of an activation raises, the coordinator
   rebuilds its status from `None`: a healthy process that serves runs shows no
   active set and version 0 and is not ready, and the web refuses the next change
   because the Agent's set is not the registry's, until an activation
   succeeds or the process restarts.
4. `lifecycle_failure`. The same sentence of the Skill management design says that a failed enabling or
   disabling keeps the running state. `applySkillSet` reads the status twice after a
   successful activation, in the same try block; when one of these reads fails,
   the request is answered with `runtime_unavailable` and 503 while the new set serves.

## 8. What is not modelled

- The Registry's HTTP layer, artifact storage and ZIP checks; signatures and
  nonces of the control APIs (what they guarantee is assumed above).
- `reveal_key` of model control, which writes one audit event (the console's side of
  it is modelled); the late effect of a lost `record_failed_test`, which changes a
  test status only; in `SkillActivation` the status left at "preparing" when the deadline
  passes during `mark_failed` of a refused candidate.
- Row locks and deadlocks of the registry's database: each transaction is one
  step there. Where the web's handlers depend on them (documents,
  registrations, accounts) they are modelled.
- Customers' sessions and profiles beyond their registration; the rate limiter of
  sign-ins; a temporary password that an administrator sets while its owner
  changes the former one.
- Parsing and checking of requests, answers, ranges of text, Unicode case folding and
  artifacts, except where a property depends on the outcome: these are pure functions,
  which the repository's tests cover by example, and the models take any outcome
  that they can have.
- Text, layout, encryption, logging, pages, migrations and deployment. About
  twelve thousand of the web's lines are the content of static pages, which keep
  no state; together with the pure parsers they are why the mapped share of the
  TypeScript lines stays small although nearly every component that keeps state has a module.
  The Python services, where the core is, are mapped too.
  Deployment fixes one thing the models use: there is one Agent process and one
  database.
