-------------------------- MODULE DownloadResources --------------------------
(***************************************************************************)
(* The download resources of the portal: src/apps/web/src/server/downloads *)
(* with the upload route, the public routes and the manager page.          *)
(*                                                                         *)
(* A resource points at a published and at a draft revision.  A revision   *)
(* is a row with one artifact row per slot; an artifact names an object    *)
(* file, and a document also its cover.  Object files are written before   *)
(* the transaction that points at them and removed after the transaction   *)
(* that gives up the last pointer, so that the database and the disk agree *)
(* only if every path of the handlers keeps the order.  Mutations are      *)
(* serialized by an advisory lock of the database, which the server gives  *)
(* back when the session of its holder dies.                               *)
(*                                                                         *)
(* One resource is modelled: keys of files contain the resource and the    *)
(* revision that uploaded them, so that no two resources share a file.     *)
(* The identifier of a file is the number of the revision that uploaded    *)
(* it, with the slot or "cover".                                           *)
(***************************************************************************)
EXTENDS Naturals, FiniteSets

CONSTANTS Tabs,          \* pages of administrators, with the request each has sent
          Readers,       \* visitors who download
          MaxRevisions,  \* bound: revisions that are ever created
          MaxVersion,    \* bound: no request is sent from a copy of this version
          MaxFaults,     \* bound: failures of the disk, the database and the process
          Nobody         \* the advisory lock is free

\* The second initial state has two revisions.
ASSUME DownloadsAssumption == /\ IsFiniteSet(Tabs)
                              /\ MaxRevisions \in Nat \ {0, 1}
                              /\ MaxVersion \in Nat
                              /\ MaxFaults \in Nat
                              /\ Nobody \notin Tabs

None == 0
Ids == 1..MaxRevisions
Kinds == {"document", "software"}
Slots == {"document", "windows", "macos"}
SlotsOf(kind) == IF kind = "document" THEN {"document"} ELSE {"windows", "macos"}
PartsOf(slot) == IF slot = "document" THEN {"document", "cover"} ELSE {slot}
FilesOf(a) == {a.key} \X PartsOf(a.slot)

VARIABLES resource,        \* the row of download_resources
          revisions,       \* ids of the rows of download_resource_revisions
          cleanupPending,  \* those with cleanup_pending_at
          artifacts,       \* rows of download_resource_artifacts
          objects,         \* files under objects/
          stages,          \* files under staging/, with the tab whose request knows
                           \* the name of the file, or Nobody
          lock,            \* holder of the advisory lock
          request,         \* what the server does for each tab
          page,            \* the copy of the resource each tab shows
          reader,          \* what the server does for each visitor
          issued,          \* revisions created so far
          unanswered,      \* uploads whose COMMIT got no answer
          abandoned,       \* uploads whose files nobody will remove
          downloadFaults

database == <<resource, revisions, cleanupPending, artifacts>>
downloadVars == <<database, objects, stages, lock, request, page, reader,
                  issued, unanswered, abandoned, downloadFaults>>

Absent == [kind |-> "document", state |-> "absent", published |-> None,
           draft |-> None, version |-> 0]
NoRequest == [pc |-> "idle", op |-> "none", slot |-> "none", id |-> None,
              pending |-> {}, files |-> {}, aborted |-> FALSE, failed |-> FALSE,
              result |-> [row |-> Absent, slots |-> {}]]
NoReader == [pc |-> "idle", slot |-> "none", range |-> "none", revision |-> None,
             rows |-> {}, bytes |-> <<0, 0>>, file |-> None]

\* There is no resource yet, or a document that is published and being edited.
DownloadsInit ==
  /\ \/ /\ resource = Absent /\ issued = 0
        /\ revisions = {} /\ artifacts = {} /\ objects = {}
     \/ /\ resource = [kind |-> "document", state |-> "published", published |-> 1,
                       draft |-> 2, version |-> 2]
        /\ issued = 2 /\ revisions = {1, 2}
        /\ artifacts = [revision : {1, 2}, slot : {"document"}, key : {1}]
        /\ objects = {1} \X PartsOf("document")
  /\ cleanupPending = {} /\ stages = {}
  /\ lock = Nobody
  /\ request = [t \in Tabs |-> NoRequest]
  /\ page = [t \in Tabs |-> [row |-> Absent, slots |-> {}]]
  /\ reader = [r \in Readers |-> NoReader]
  /\ unanswered = {} /\ abandoned = {}
  /\ downloadFaults = 0

Fault == /\ downloadFaults < MaxFaults
         /\ downloadFaults' = downloadFaults + 1
NoFault == UNCHANGED downloadFaults

Rows(revision) == {a \in artifacts : a.revision = revision}

\* filesIntact: every file the rows name can be inspected.
FilesIntact(rows) == \A a \in rows : FilesOf(a) \subseteq objects

\* A document needs its PDF with cover, software at least one installer: the
\* slots a revision may have are those of its kind.
Publishable(revision) == /\ Rows(revision) # {}
                         /\ FilesIntact(Rows(revision))

\* typedAdminDto: what an answer shows of the resource.
AdminDto(row, rows) ==
  [row |-> row,
   slots |-> {a.slot : a \in {b \in rows : b.revision = row.draft}}]

-----------------------------------------------------------------------------
(* The page of an administrator.                                            *)

\* A new resource: one transaction without the lock.
Create(t, kind) ==
  /\ request[t].pc = "idle" /\ resource.state = "absent"
  /\ resource' = [Absent EXCEPT !.kind = kind, !.state = "unpublished", !.version = 1]
  /\ page' = [page EXCEPT ![t] = AdminDto(resource', {})]
  /\ NoFault
  /\ UNCHANGED <<revisions, cleanupPending, artifacts, objects, stages, lock,
                 request, reader, issued, unanswered, abandoned>>

\* The page is loaded again (listTypedAdminResources).
Reload(t) ==
  /\ request[t].pc = "idle" /\ resource.state # "absent"
  /\ page[t] # AdminDto(resource, artifacts)
  /\ page' = [page EXCEPT ![t] = AdminDto(resource, artifacts)]
  /\ NoFault
  /\ UNCHANGED <<database, objects, stages, lock, request, reader, issued,
                 unanswered, abandoned>>

\* What the buttons of the editor allow for the copy the tab shows.
Offered(shown, op, slot) ==
  /\ shown.row.version > 0
  /\ \/ op = "save" /\ slot = "none"
     \/ op = "upload" /\ shown.row.draft # None /\ slot \in SlotsOf(shown.row.kind)
     \/ op = "publish" /\ shown.slots # {} /\ slot = "none"
     \/ op = "downline" /\ slot = "none"
        /\ shown.row.state = "published" /\ shown.row.draft = None
     \/ op = "discard" /\ shown.row.draft # None /\ slot = "none"
     \/ op = "remove" /\ slot \in shown.slots

\* The operations that create a revision, and the tabs that will create one.
NewRevisionOps == {"save", "upload", "remove"}
Creating == {t \in Tabs : request[t].op \in NewRevisionOps}

Submit(t, op, slot) ==
  /\ request[t].pc = "idle"
  /\ Offered(page[t], op, slot)
  /\ page[t].row.version < MaxVersion
  /\ op \in NewRevisionOps => issued + Cardinality(Creating) < MaxRevisions
  /\ request' = [request EXCEPT ![t] =
       [NoRequest EXCEPT !.pc = IF op = "upload" THEN "reading" ELSE "waiting",
                         !.op = op, !.slot = slot]]
  /\ NoFault
  /\ UNCHANGED <<database, objects, stages, lock, page, reader, issued,
                 unanswered, abandoned>>

\* The button "cancel upload" and a closed tab abort the request.  The server
\* looks at the signal until it commits, the tab when the answer comes.
CancelUpload(t) ==
  /\ request[t].op = "upload" /\ ~request[t].aborted
  /\ request[t].pc \in {"reading", "receiving", "staged", "storing", "waiting",
                        "working", "answering"}
  /\ request' = [request EXCEPT ![t].aborted = TRUE]
  /\ NoFault
  /\ UNCHANGED <<database, objects, stages, lock, page, reader, issued,
                 unanswered, abandoned>>

-----------------------------------------------------------------------------
(* The upload route up to the lock.                                         *)

StagesOf(t) == {s \in stages : s[1] = t}

\* Nothing lists the directory staging/: a file of which no request knows the
\* name any more stays there.
Stray(lost) == {<<Nobody, s[2]>> : s \in lost}

\* The stages of a request are discarded; an unlink may fail.
DiscardStages(t, left) == stages' = (stages \ StagesOf(t)) \cup Stray(left)

Goto(t, pc) == request' = [request EXCEPT ![t].pc = pc]
FailTo(t, pc) == request' = [request EXCEPT ![t].pc = pc, ![t].failed = TRUE]

\* The multipart reader opens the stage file of the artifact ...
OpenStage(t) ==
  /\ request[t].pc = "reading" /\ ~request[t].aborted
  /\ stages' = stages \cup {<<t, "file">>}
  /\ Goto(t, "receiving") /\ NoFault
  /\ UNCHANGED <<database, objects, lock, page, reader, issued, unanswered, abandoned>>

\* ... and hands it over when the body was read and recognised.
Received(t) ==
  /\ request[t].pc = "receiving" /\ ~request[t].aborted
  /\ Goto(t, "staged") /\ NoFault
  /\ UNCHANGED <<database, objects, stages, lock, page, reader, issued,
                 unanswered, abandoned>>

\* finishFailure waits for the writer and discards the stage itself; the route
\* never hears of it.
ReceiveFails(t) ==
  /\ request[t].pc \in {"reading", "receiving"}
  /\ FailTo(t, "refused")
  /\ \E left \in SUBSET StagesOf(t) :
       /\ DiscardStages(t, left)
       /\ IF request[t].aborted /\ left = {} THEN NoFault ELSE Fault
  /\ UNCHANGED <<database, objects, lock, page, reader, issued, unanswered, abandoned>>

\* pdfTools.derive stages the cover of a document; then the service takes over
\* and chooses the id of the new revision.
BeginAttach(t) ==
  /\ request[t].pc = "staged" /\ ~request[t].aborted
  /\ issued' = issued + 1
  /\ stages' = stages \cup (IF request[t].slot = "document" THEN {<<t, "cover">>} ELSE {})
  /\ request' = [request EXCEPT ![t].pc = "storing", ![t].id = issued + 1]
  /\ NoFault
  /\ UNCHANGED <<database, objects, lock, page, reader, unanswered, abandoned>>

\* derive discards its own cover, the route the file.
DeriveFails(t) ==
  /\ request[t].pc = "staged"
  /\ FailTo(t, "refused")
  /\ \E left \in SUBSET {"cover"} :
       /\ left # {} => request[t].slot = "document"
       /\ stages' = stages \cup ({Nobody} \X left)
       /\ IF request[t].aborted /\ left = {} THEN NoFault ELSE Fault
  /\ UNCHANGED <<database, objects, lock, page, reader, issued, unanswered, abandoned>>

\* commitArtifact links the stage of the file, then that of the cover, into
\* objects/ and unlinks it.  Between the two both names lead to the file.
NextPart(t) == IF <<t, "file">> \in stages THEN <<t, "file">> ELSE <<t, "cover">>
ObjectFor(t, stage) ==
  <<request[t].id, IF stage[2] = "file" THEN request[t].slot ELSE "cover">>

HalfStored(t) == /\ NextPart(t) \in stages
                 /\ ObjectFor(t, NextPart(t)) \in objects

LinkFile(t) ==
  /\ request[t].pc = "storing"
  /\ ~request[t].aborted /\ NextPart(t) \in stages /\ ~HalfStored(t)
  /\ objects' = objects \cup {ObjectFor(t, NextPart(t))}
  /\ NoFault
  /\ UNCHANGED <<database, stages, lock, request, page, reader, issued,
                 unanswered, abandoned>>

UnlinkStage(t) ==
  /\ request[t].pc = "storing" /\ HalfStored(t)
  /\ stages' = stages \ {NextPart(t)}
  /\ NoFault
  /\ UNCHANGED <<database, objects, lock, request, page, reader, issued,
                 unanswered, abandoned>>

AllStored(t) ==
  /\ request[t].pc = "storing" /\ ~request[t].aborted
  /\ NextPart(t) \notin stages
  /\ Goto(t, "waiting") /\ NoFault
  /\ UNCHANGED <<database, objects, stages, lock, page, reader, issued,
                 unanswered, abandoned>>

\* An abort is noticed between two files.
StoreAborts(t) ==
  /\ request[t].pc = "storing" /\ request[t].aborted /\ ~HalfStored(t)
  /\ FailTo(t, "compensating") /\ NoFault
  /\ UNCHANGED <<database, objects, stages, lock, page, reader, issued,
                 unanswered, abandoned>>

\* A step of commitStage fails.  The object is rolled back, then the stage is
\* discarded unless its unlink is what failed; the route, which still has the
\* stage, tries that again.  An object that is not rolled back is not among the
\* files the service compensates for.
StoreFails(t) ==
  /\ request[t].pc = "storing" /\ NextPart(t) \in stages
  /\ \/ /\ objects' = objects \ {ObjectFor(t, NextPart(t))}
        /\ \E gone \in SUBSET {NextPart(t)} : stages' = stages \ gone
        /\ UNCHANGED abandoned
     \/ /\ HalfStored(t)
        /\ abandoned' = abandoned \cup {request[t].id}
        /\ UNCHANGED <<objects, stages>>
  /\ FailTo(t, "compensating") /\ Fault
  /\ UNCHANGED <<database, lock, page, reader, issued, unanswered>>

-----------------------------------------------------------------------------
(* The locked transaction.                                                  *)

\* One of the polls of acquireArtifactMutationLock succeeds ...
AcquireLock(t) ==
  /\ request[t].pc = "waiting" /\ lock = Nobody
  /\ lock' = t
  /\ Goto(t, "working") /\ NoFault
  /\ UNCHANGED <<database, objects, stages, page, reader, issued, unanswered, abandoned>>

AfterFailure(t) == IF request[t].op = "upload" THEN "compensating" ELSE "refused"

\* ... or none does before the deadline.
LockTimesOut(t) ==
  /\ request[t].pc = "waiting" /\ lock # Nobody
  /\ FailTo(t, AfterFailure(t)) /\ Fault
  /\ UNCHANGED <<database, objects, stages, lock, page, reader, issued,
                 unanswered, abandoned>>

\* assertCurrent and the condition of each operation, under the row lock.
Allowed(t) ==
  /\ resource.version = page[t].row.version
  /\ CASE request[t].op = "save" -> TRUE
       [] request[t].op = "upload" -> /\ resource.draft # None
                                      /\ request[t].slot \in SlotsOf(resource.kind)
       [] request[t].op = "publish" -> resource.draft # None /\ Publishable(resource.draft)
       [] request[t].op = "downline" -> /\ resource.state = "published"
                                        /\ resource.published # None
                                        /\ resource.draft = None
       [] request[t].op = "discard" -> resource.draft # None
       [] request[t].op = "remove" -> /\ resource.draft # None
                                      /\ \E a \in Rows(resource.draft) :
                                           a.slot = request[t].slot

\* A refusal, a failed statement or an abort rolls the transaction back.
WorkFails(t) ==
  /\ request[t].pc = "working"
  /\ FailTo(t, "releasing")
  /\ IF request[t].aborted \/ ~Allowed(t) THEN NoFault ELSE Fault
  /\ UNCHANGED <<database, objects, stages, lock, page, reader, issued,
                 unanswered, abandoned>>

NewDraft(t) == IF request[t].op = "upload" THEN request[t].id ELSE issued + 1

\* cloneArtifacts: the rows of a revision, copied for the new one.
Clone(source, revision) == {[a EXCEPT !.revision = revision] : a \in Rows(source)}

\* insertRevision, the artifacts, the pointer and the mark of the old draft.
ReplaceDraft(t, rows) ==
  /\ revisions' = revisions \cup {NewDraft(t)}
  /\ artifacts' = artifacts \cup rows
  /\ resource' = [resource EXCEPT !.draft = NewDraft(t), !.version = @ + 1]
  /\ cleanupPending' = cleanupPending \cup ({resource.draft} \ {None})
  /\ issued' = IF request[t].op = "upload" THEN issued ELSE issued + 1

SaveTypedDraft(t) ==
  LET source == IF resource.draft # None THEN resource.draft ELSE resource.published
  IN ReplaceDraft(t, Clone(source, NewDraft(t)))

AttachUploadedArtifact(t) ==
  ReplaceDraft(t, {a \in Clone(resource.draft, NewDraft(t)) : a.slot # request[t].slot}
                  \cup {[revision |-> NewDraft(t), slot |-> request[t].slot,
                         key |-> NewDraft(t)]})

RemoveDraftArtifact(t) ==
  ReplaceDraft(t, {a \in Clone(resource.draft, NewDraft(t)) : a.slot # request[t].slot})

PublishTyped ==
  /\ resource' = [resource EXCEPT !.state = "published", !.published = resource.draft,
                                  !.draft = None, !.version = @ + 1]
  /\ cleanupPending' = cleanupPending \cup ({resource.published} \ {None})
  /\ UNCHANGED <<revisions, artifacts, issued>>

\* A defect the checks must find: the resource is taken offline and still
\* counts as published.
DownlinePublished ==
  /\ resource' = [resource EXCEPT !.published = None, !.draft = resource.published,
                                  !.version = @ + 1]
  /\ UNCHANGED <<revisions, cleanupPending, artifacts, issued>>

DownlineTyped ==
  /\ resource' = [resource EXCEPT !.state = "downline", !.published = None,
                                  !.draft = resource.published, !.version = @ + 1]
  /\ UNCHANGED <<revisions, cleanupPending, artifacts, issued>>

DiscardTyped ==
  /\ resource' = [resource EXCEPT !.state = IF @ = "downline" THEN "unpublished" ELSE @,
                                  !.draft = None, !.version = @ + 1]
  /\ cleanupPending' = cleanupPending \cup ({resource.draft} \ {None})
  /\ UNCHANGED <<revisions, artifacts, issued>>

Transaction(t) ==
  /\ Allowed(t)
  /\ \/ request[t].op = "save" /\ SaveTypedDraft(t)
     \/ request[t].op = "upload" /\ AttachUploadedArtifact(t)
     \/ request[t].op = "publish" /\ PublishTyped
     \/ request[t].op = "downline" /\ DownlineTyped
     \/ request[t].op = "discard" /\ DiscardTyped
     \/ request[t].op = "remove" /\ RemoveDraftArtifact(t)

\* The COMMIT is answered.  The revisions to clean up were listed at the end of
\* the transaction, with the files of their rows; downline lists none.
Commit(t) ==
  /\ request[t].pc = "working" /\ ~request[t].aborted
  /\ Transaction(t)
  /\ LET listed == IF request[t].op = "downline" THEN {} ELSE cleanupPending'
     IN request' = [request EXCEPT
          ![t].pc = IF listed = {} THEN "releasing" ELSE "cleaning",
          ![t].pending = listed,
          ![t].files = UNION {FilesOf(a) : a \in {b \in artifacts' : b.revision \in listed}},
          ![t].result = AdminDto(resource', artifacts')]
  /\ NoFault
  /\ UNCHANGED <<objects, stages, lock, page, reader, unanswered, abandoned>>

\* The session dies with the COMMIT on its way: the database took it, the
\* server hears an error, skips the cleanup and compensates.
CommitUnanswered(t) ==
  /\ request[t].pc = "working" /\ ~request[t].aborted
  /\ Transaction(t)
  /\ lock' = Nobody
  /\ FailTo(t, AfterFailure(t)) /\ Fault
  /\ unanswered' = unanswered \cup ({request[t].id} \ {None})
  /\ UNCHANGED <<objects, stages, page, reader, abandoned>>

-----------------------------------------------------------------------------
(* cleanupObjects, after the commit and under the lock.                     *)

\* A defect the checks must find: only the published revision is counted.
PublishedReferences(file, excluded) ==
  {a \in artifacts : a.revision = resource.published /\ a.revision \notin excluded
                       /\ file \in FilesOf(a)}

\* countArtifactReferences: rows outside the revisions that are cleaned up.
References(file, excluded) ==
  {a \in artifacts : a.revision \notin excluded /\ file \in FilesOf(a)}

NextFile(t) == CHOOSE f \in request[t].files : TRUE

KeepReferenced(t) ==
  /\ request[t].pc = "cleaning" /\ request[t].files # {}
  /\ References(NextFile(t), request[t].pending) # {}
  /\ request' = [request EXCEPT ![t].files = @ \ {NextFile(t)}]
  /\ NoFault
  /\ UNCHANGED <<database, objects, stages, lock, page, reader, issued,
                 unanswered, abandoned>>

\* No reference counted: the file goes in a later step.
CountedZero(t) ==
  /\ request[t].pc = "cleaning" /\ request[t].files # {}
  /\ References(NextFile(t), request[t].pending) = {}
  /\ Goto(t, "removing") /\ NoFault
  /\ UNCHANGED <<database, objects, stages, lock, page, reader, issued,
                 unanswered, abandoned>>

RemoveFile(t) ==
  /\ request[t].pc = "removing"
  /\ objects' = objects \ {NextFile(t)}
  /\ request' = [request EXCEPT ![t].pc = "cleaning", ![t].files = @ \ {NextFile(t)}]
  /\ NoFault
  /\ UNCHANGED <<database, stages, lock, page, reader, issued, unanswered, abandoned>>

\* deleteArtifactsForRevision and deleteCleanupRevision in one transaction.
DeletePending(t) ==
  /\ request[t].pc = "cleaning" /\ request[t].files = {}
  /\ artifacts' = {a \in artifacts : a.revision \notin request[t].pending}
  /\ revisions' = revisions \ request[t].pending
  /\ cleanupPending' = cleanupPending \ request[t].pending
  /\ Goto(t, "releasing") /\ NoFault
  /\ UNCHANGED <<resource, objects, stages, lock, page, reader, issued,
                 unanswered, abandoned>>

\* An error of the disk or the database leaves the rest to the next mutation.
\* The error summary is written; if that fails too the caller gets the error.
CleanupFails(t) ==
  /\ request[t].pc \in {"cleaning", "removing"}
  /\ \E reported \in BOOLEAN :
       request' = [request EXCEPT ![t].pc = "releasing", ![t].failed = ~reported]
  /\ Fault
  /\ UNCHANGED <<database, objects, stages, lock, page, reader, issued,
                 unanswered, abandoned>>

\* The session that holds the lock dies while the cleanup uses other sessions:
\* the database frees the lock and the cleanup goes on.
SessionDies(t) ==
  /\ request[t].pc \in {"cleaning", "removing"} /\ lock = t
  /\ lock' = Nobody
  /\ Fault
  /\ UNCHANGED <<database, objects, stages, request, page, reader, issued,
                 unanswered, abandoned>>

\* pg_advisory_unlock: without the lock the request fails, although committed.
Committed(t) == request[t].result.row.version > 0
Release(t) ==
  /\ request[t].pc = "releasing"
  /\ lock' = IF lock = t THEN Nobody ELSE lock
  /\ request' = [request EXCEPT ![t].pc =
       IF ~request[t].failed /\ lock = t THEN "answering"
       ELSE IF Committed(t) THEN "refused" ELSE AfterFailure(t)]
  /\ NoFault
  /\ UNCHANGED <<database, objects, stages, page, reader, issued, unanswered, abandoned>>

-----------------------------------------------------------------------------
(* The end of a request.                                                    *)

\* The files that commitArtifact reported: those whose stage is gone.
CommittedFiles(t) == {f \in objects : f[1] = request[t].id}
                       \ {ObjectFor(t, s) : s \in StagesOf(t)}

\* A defect the checks must find: the cover of a document is forgotten.
CompensateFileOnly(t) ==
  /\ request[t].pc = "compensating"
  /\ objects' = objects \ {<<request[t].id, request[t].slot>>}
  /\ Goto(t, "refused") /\ NoFault
  /\ UNCHANGED <<database, stages, lock, page, reader, issued, unanswered, abandoned>>

\* An upload that did not commit removes the files it stored; a failed removal
\* is reported and the file stays.
Compensate(t) ==
  /\ request[t].pc = "compensating"
  /\ objects' = objects \ CommittedFiles(t)
  /\ Goto(t, "refused") /\ NoFault
  /\ UNCHANGED <<database, stages, lock, page, reader, issued, unanswered, abandoned>>

CompensationFails(t) ==
  /\ request[t].pc = "compensating"
  /\ \E removed \in SUBSET CommittedFiles(t) :
       removed # CommittedFiles(t) /\ objects' = objects \ removed
  /\ abandoned' = abandoned \cup {request[t].id}
  /\ Goto(t, "refused") /\ Fault
  /\ UNCHANGED <<database, stages, lock, page, reader, issued, unanswered>>

\* A defect the checks must find: only the file is discarded.
RefuseFileOnly(t) ==
  /\ request[t].pc = "refused"
  /\ stages' = stages \ {<<t, "file">>}
  /\ request' = [request EXCEPT ![t] = NoRequest]
  /\ NoFault
  /\ UNCHANGED <<database, objects, lock, page, reader, issued, unanswered, abandoned>>

\* The route discards the stages that are still its own and answers an error.
Refuse(t) ==
  /\ request[t].pc = "refused"
  /\ \E left \in SUBSET StagesOf(t) :
       /\ DiscardStages(t, left)
       /\ IF left = {} THEN NoFault ELSE Fault
  /\ request' = [request EXCEPT ![t] = NoRequest]
  /\ UNCHANGED <<database, objects, lock, page, reader, issued, unanswered, abandoned>>

\* The tab adopts the resource of the answer, unless it gave the upload up.
Answer(t) ==
  /\ request[t].pc = "answering"
  /\ page' = IF request[t].aborted THEN page
             ELSE [page EXCEPT ![t] = request[t].result]
  /\ request' = [request EXCEPT ![t] = NoRequest]
  /\ NoFault
  /\ UNCHANGED <<database, objects, stages, lock, reader, issued, unanswered, abandoned>>

\* The process dies: the requests, their sessions and the readers are gone.
\* Nothing sweeps the disk, so that stages and files of unfinished uploads stay.
ServerDies ==
  /\ \E t \in Tabs : request[t].pc # "idle"
  /\ Fault
  /\ request' = [t \in Tabs |-> NoRequest]
  /\ reader' = [r \in Readers |-> NoReader]
  /\ lock' = Nobody
  /\ stages' = Stray(stages)
  /\ abandoned' = abandoned \cup ({request[t].id : t \in Tabs} \ {None})
  /\ UNCHANGED <<database, objects, page, issued, unanswered>>

-----------------------------------------------------------------------------
(* Visitors: the public routes read the row, its artifacts and the files in *)
(* three steps, and do it twice when a range is asked for.                  *)

Ranges == {"whole", "first", "rest", "last", "far"}
SizeOf(key) == IF key = 1 THEN 2 ELSE 3    \* sizes of files: a later one is longer

\* parseSingleByteRange: first is bytes=0-0, rest bytes=1-, last bytes=-2 and
\* far bytes=2-2, which a file of two bytes does not have.
ParseRange(range, size) ==
  CASE range = "whole" -> <<0, size - 1>>
    [] range = "first" -> <<0, 0>>
    [] range = "rest" -> <<1, size - 1>>
    [] range = "last" -> <<size - 2, size - 1>>
    [] range = "far" -> <<2, 2>>
Satisfiable(range, size) == range = "far" => size > 2

\* The second round is on: a range was asked for.
Again(r) == reader[r].range # "none"

ReaderGoes(r, pc) == reader' = [reader EXCEPT ![r].pc = pc]
ReaderFails(r) == reader' = [reader EXCEPT ![r] = NoReader]
ReadOnly == /\ NoFault
            /\ UNCHANGED <<database, objects, stages, lock, request, page,
                           issued, unanswered, abandoned>>

\* getPublicByKey: the published row in one statement ...
ReadRow(r) ==
  /\ \/ reader[r].pc = "idle" /\ resource.state = "published"
     \/ reader[r].pc = "again"
  /\ IF resource.state = "published"
       THEN reader' = [reader EXCEPT ![r].pc = "row", ![r].revision = resource.published]
       ELSE ReaderFails(r)
  /\ ReadOnly

\* ... and its artifacts in a transaction of their own, which may find none.
ReadArtifacts(r) ==
  /\ reader[r].pc = "row"
  /\ reader' = [reader EXCEPT ![r].pc = "artifacts", ![r].revision = None,
                              ![r].rows = Rows(reader[r].revision)]
  /\ ReadOnly

InspectFiles(r) ==
  /\ reader[r].pc = "artifacts"
  /\ IF reader[r].rows # {} /\ FilesIntact(reader[r].rows)
       THEN ReaderGoes(r, "intact") ELSE ReaderFails(r)
  /\ ReadOnly

\* fileStore.open of the artifact of one slot: the first time the whole file,
\* the second time the range that fitted the first file.
Openable(r, a) ==
  /\ FilesOf(a) \subseteq objects
  /\ Again(r) => reader[r].bytes[2] < SizeOf(a.key)

OpenFile(r) ==
  LET wanted == {a \in reader[r].rows : Again(r) => a.slot = reader[r].slot}
  IN /\ reader[r].pc = "intact"
     /\ \/ wanted = {} /\ ReaderFails(r)
        \/ \E a \in wanted :
             IF Openable(r, a)
             THEN reader' = [reader EXCEPT
                    ![r].pc = "opened", ![r].slot = a.slot, ![r].file = a.key, ![r].rows = {},
                    ![r].bytes = IF Again(r) THEN @ ELSE <<0, SizeOf(a.key) - 1>>]
             ELSE ReaderFails(r)
     /\ ReadOnly

\* The header is parsed for the size of the open file.  A range the file has
\* closes the file and starts again from the row.
ParseForSize(r) ==
  /\ reader[r].pc = "opened" /\ ~Again(r)
  /\ \E range \in Ranges \ {"whole"} :
       /\ Satisfiable(range, SizeOf(reader[r].file))
       /\ reader' = [reader EXCEPT ![r].pc = "again", ![r].range = range, ![r].file = None,
                       ![r].bytes = ParseRange(range, SizeOf(reader[r].file))]
  /\ ReadOnly

\* A defect the checks must find: the bytes of the first file are served.
RespondUnchecked(r) ==
  LET range == IF Again(r) THEN reader[r].range ELSE "whole"
  IN /\ reader[r].pc = "opened" /\ Satisfiable(range, SizeOf(reader[r].file))
     /\ reader' = [reader EXCEPT ![r].pc = "served", ![r].range = range]
     /\ ReadOnly

\* artifactResponse parses the header once more and refuses bytes other than
\* those of the file it has.
Respond(r) ==
  LET range == IF Again(r) THEN reader[r].range ELSE "whole"
      size == SizeOf(reader[r].file)
  IN /\ reader[r].pc = "opened"
     /\ IF Satisfiable(range, size) /\ reader[r].bytes = ParseRange(range, size)
          THEN reader' = [reader EXCEPT ![r].pc = "served", ![r].range = range]
          ELSE ReaderFails(r)
     /\ ReadOnly

\* The file has no such range: status 416.
RespondUnsatisfiable(r) ==
  /\ reader[r].pc = "opened" /\ ~Again(r)
  /\ \E range \in Ranges : ~Satisfiable(range, SizeOf(reader[r].file))
  /\ ReaderFails(r)
  /\ ReadOnly

ReaderDone(r) ==
  /\ reader[r].pc = "served"
  /\ ReaderFails(r)
  /\ ReadOnly

-----------------------------------------------------------------------------
TabStep(t) ==
  \/ \E kind \in Kinds : Create(t, kind)
  \/ Reload(t)
  \/ \E op \in {"save", "upload", "publish", "downline", "discard", "remove"},
        slot \in Slots \cup {"none"} : Submit(t, op, slot)
  \/ CancelUpload(t)

ServerStep(t) ==
  \/ OpenStage(t) \/ Received(t) \/ ReceiveFails(t) \/ BeginAttach(t) \/ DeriveFails(t)
  \/ LinkFile(t) \/ UnlinkStage(t) \/ AllStored(t) \/ StoreAborts(t) \/ StoreFails(t)
  \/ AcquireLock(t) \/ LockTimesOut(t) \/ WorkFails(t) \/ Commit(t) \/ CommitUnanswered(t)
  \/ KeepReferenced(t) \/ CountedZero(t) \/ RemoveFile(t) \/ DeletePending(t)
  \/ CleanupFails(t) \/ SessionDies(t) \/ Release(t)
  \/ Compensate(t) \/ CompensationFails(t) \/ Refuse(t) \/ Answer(t)

ReaderStep(r) == \/ ReadRow(r) \/ ReadArtifacts(r) \/ InspectFiles(r) \/ OpenFile(r)
                 \/ ParseForSize(r) \/ Respond(r) \/ RespondUnsatisfiable(r) \/ ReaderDone(r)

DownloadsNext == \/ \E t \in Tabs : TabStep(t) \/ ServerStep(t)
                 \/ ServerDies
                 \/ \E r \in Readers : ReaderStep(r)

DownloadsSpec == DownloadsInit /\ [][DownloadsNext]_downloadVars

-----------------------------------------------------------------------------
Files == Ids \X (Slots \cup {"cover"})
RowType == [kind : Kinds, state : {"absent", "unpublished", "published", "downline"},
            published : Ids \cup {None}, draft : Ids \cup {None}, version : Nat]
ArtifactType == [revision : Ids, slot : Slots, key : Ids]
ShownType == [row : RowType, slots : SUBSET Slots]

\* The shape of the state, with the check constraint on state and pointers.
DownloadsTypeOK ==
  /\ resource \in RowType
  /\ resource.state = "published" <=> resource.published # None
  /\ resource.state = "downline" => resource.draft # None
  /\ revisions \subseteq Ids /\ cleanupPending \subseteq revisions
  /\ artifacts \subseteq ArtifactType
  /\ objects \subseteq Files
  /\ stages \subseteq (Tabs \cup {Nobody}) \X {"file", "cover"}
  /\ lock \in Tabs \cup {Nobody}
  /\ page \in [Tabs -> ShownType]
  /\ \A t \in Tabs : /\ request[t].pending \subseteq Ids
                     /\ request[t].files \subseteq Files
                     /\ request[t].id \in 0..issued
  /\ issued \in 0..MaxRevisions
  /\ unanswered \subseteq Ids /\ abandoned \subseteq Ids
  /\ downloadFaults \in 0..MaxFaults

\* A file that the draft or the published revision names is on the disk,
\* however uploads, removals, retries and lost sessions interleave.  The one
\* exception is an upload whose COMMIT was taken and not answered: the server
\* compensates for it (service.ts, attachUploadedArtifact).
LiveFilesExist ==
  \A a \in artifacts :
    a.revision \notin cleanupPending => FilesOf(a) \subseteq objects \/ a.key \in unanswered

\* Nothing is left behind: a revision is the draft, the published one or marked
\* for the next cleanup; a file is named by a row or belongs to an upload that
\* still runs, unless the process died or a removal failed; a stage belongs to
\* an upload that has yet to store it or to discard it, and the name of a stage
\* is lost only by a failure: no refusal, abort or commit forgets one.
NothingLeftBehind ==
  /\ revisions = cleanupPending \cup ({resource.draft, resource.published} \ {None})
  /\ \A f \in objects :
       \/ References(f, {}) # {}
       \/ f[1] \in abandoned
       \/ \E t \in Tabs : request[t].id = f[1] /\ ~Committed(t)
  /\ \A s \in stages :
       IF s[1] = Nobody THEN downloadFaults > 0
       ELSE request[s[1]].pc \in {"receiving", "staged", "storing", "compensating", "refused"}

\* The bytes a visitor gets are those the range asks of the file that is
\* served, also when another revision was published between the two opens.
RangeAnswersFit ==
  \A r \in Readers : reader[r].pc = "served" =>
    /\ reader[r].bytes[2] < SizeOf(reader[r].file)
    /\ reader[r].bytes = ParseRange(reader[r].range, SizeOf(reader[r].file))
=============================================================================
