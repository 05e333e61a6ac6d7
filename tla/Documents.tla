------------------------------ MODULE Documents ------------------------------
(***************************************************************************)
(* The documents of the portal: src/apps/web/src/server/documents, the     *)
(* tables of packages/database/src/schema/content.ts and the public reader *)
(* src/apps/web/src/components/docs-content.ts.                            *)
(*                                                                         *)
(* A document is edited as a row with a history of immutable revisions.    *)
(* Its addresses (slugs) are rows of their own: reserved by a draft, made  *)
(* canonical by a publication, demoted to an alias by the publication of   *)
(* another address.  Visitors are served from a cached catalog of all      *)
(* published documents, which refuses to be built from rows that disagree: *)
(* then no document at all is served.                                      *)
(*                                                                         *)
(* create and save take several statements, and their locks and unique     *)
(* indexes are modelled one by one: an uncommitted index entry makes the   *)
(* next writer of the same address wait, and a cycle of waits is broken by *)
(* the database, which aborts one of the transactions.  The other          *)
(* mutations lock nothing but rows of their own document and are one step. *)
(***************************************************************************)
EXTENDS Naturals, FiniteSets, FiniteSetsExt

CONSTANTS Docs,            \* identifiers of documents
          Slugs,           \* addresses
          NoSlug,          \* no address
          Editors,         \* administrators, each with a page and a request
          MaxDocRevision,  \* bound: no document is saved beyond this revision
          MaxChanges       \* bound: no change is asked for once the rows had this many

ASSUME DocumentsAssumption == /\ MaxDocRevision \in Nat \ {0}
                              /\ MaxChanges \in Nat
                              /\ NoSlug \notin Slugs \cup Docs

VARIABLES content,       \* rows of content
          revisionSlug,  \* content_revisions: the address each revision was saved with
          routes,        \* rows of content_routes
          edit,          \* the transaction each editor's request runs
          editor,        \* the row each editor's page was rendered from
          invalidating,  \* editors whose publication has yet to drop the catalog
          catalog,       \* the catalog in the cache
          reading,       \* a catalog that was read and is not stored yet
          redirects      \* permanent redirects that browsers remember

docVars == <<content, revisionSlug, routes, edit, editor, invalidating, catalog,
             reading, redirects>>

NoDocument == [slug |-> NoSlug, status |-> "absent", revision |-> 0, version |-> 0,
               published |-> 0, deleted |-> FALSE]
NoRoute == [doc |-> NoSlug, state |-> "free"]
NoEdit == [step |-> "none", op |-> "none", doc |-> NoSlug, slug |-> NoSlug]
NoPage == [doc |-> NoSlug, revision |-> 0, version |-> 0]
NoEntry == [kind |-> "missing", doc |-> NoSlug, canonical |-> NoSlug]
\* What the cache holds before the first read, and after the tag was updated.
NoCatalog == [s \in Slugs |-> [NoEntry EXCEPT !.kind = "unknown"]]

DocumentsInit ==
  /\ content = [d \in Docs |-> NoDocument]
  /\ revisionSlug = [d \in Docs |-> [n \in 1..MaxDocRevision |-> NoSlug]]
  /\ routes = [s \in Slugs |-> NoRoute]
  /\ edit = [e \in Editors |-> NoEdit]
  /\ editor = [e \in Editors |-> NoPage]
  /\ invalidating = {}
  /\ catalog = NoCatalog /\ reading = NoCatalog
  /\ redirects = {}

-----------------------------------------------------------------------------
\* What open transactions keep others from: the row a save has locked, the
\* address in the index of content, the address in the index of content_routes.
Locked(d) == \E e \in Editors : edit[e].step # "none" /\ edit[e].doc = d
TakesContentSlug(e, s) ==
  \/ edit[e].op = "create" /\ edit[e].slug = s
  \/ edit[e].step = "saved" /\ s \in {edit[e].slug, content[edit[e].doc].slug}
TakesRoute(e, s) ==
  /\ edit[e].step \in {"reserved", "saved"}
  /\ edit[e].slug = s /\ routes[s] = NoRoute

ContentSlugTaken(e, s) == \E f \in Editors \ {e} : TakesContentSlug(f, s)
RouteTaken(e, s) == \E f \in Editors \ {e} : TakesRoute(f, s)

\* A defect the checks must find: a document takes an alias of its own back.
MayReserveAlias(d, s) == routes[s] = NoRoute \/ routes[s].doc = d

\* reserveSlug: the address may be free, or the document's own unless an alias.
MayReserve(d, s) == \/ routes[s] = NoRoute
                    \/ routes[s].doc = d /\ routes[s].state \in {"reserved", "canonical"}

OnlyEdit == UNCHANGED <<content, revisionSlug, routes, editor, invalidating,
                        catalog, reading, redirects>>
\* A refused request leaves the database as it was.
RollBack(e) == edit' = [edit EXCEPT ![e] = NoEdit] /\ OnlyEdit

\* The page an editor opens, and opens again after a conflict.
OpenEditor(e, d) ==
  /\ content[d] # NoDocument
  /\ editor' = [editor EXCEPT ![e] = [doc |-> d, revision |-> content[d].revision,
                                      version |-> content[d].version]]
  /\ UNCHANGED <<content, revisionSlug, routes, edit, invalidating, catalog,
                 reading, redirects>>

\* insertDocument; another document with the address is a conflict.
InsertDocument(e, d, s) ==
  /\ edit[e] = NoEdit /\ e \notin invalidating
  /\ content[d] = NoDocument /\ ~Locked(d)
  /\ ~ContentSlugTaken(e, s) /\ \A other \in Docs : content[other].slug # s
  /\ edit' = [edit EXCEPT ![e] = [step |-> "open", op |-> "create", doc |-> d, slug |-> s]]
  /\ OnlyEdit

\* assertCas and the conditions every mutation of an existing row starts with.
Current(e, d) ==
  /\ edit[e] = NoEdit /\ e \notin invalidating
  /\ ~Locked(d)
  /\ editor[e] = [doc |-> d, revision |-> content[d].revision,
                  version |-> content[d].version]
  /\ MapThenSumSet(LAMBDA other : content[other].version, Docs) < MaxChanges

LockForSave(e, d, s) ==
  /\ Current(e, d) /\ ~content[d].deleted
  /\ content[d].revision < MaxDocRevision
  /\ edit' = [edit EXCEPT ![e] =
       [step |-> IF s = content[d].slug THEN "reserved" ELSE "open",
        op |-> "save", doc |-> d, slug |-> s]]
  /\ OnlyEdit

ReserveSlug(e) ==
  /\ edit[e].step = "open"
  /\ IF MayReserve(edit[e].doc, edit[e].slug)
     THEN /\ routes[edit[e].slug] = NoRoute => ~RouteTaken(e, edit[e].slug)
          /\ edit' = [edit EXCEPT ![e].step =
                        IF edit[e].op = "create" THEN "saved" ELSE "reserved"]
          /\ OnlyEdit
     ELSE RollBack(e)

SaveDraft(e) ==
  /\ edit[e].step = "reserved"
  /\ IF \E other \in Docs \ {edit[e].doc} : content[other].slug = edit[e].slug
     THEN RollBack(e)
     ELSE /\ edit[e].slug # content[edit[e].doc].slug => ~ContentSlugTaken(e, edit[e].slug)
          /\ edit' = [edit EXCEPT ![e].step = "saved"]
          /\ OnlyEdit

\* appendRevision and the COMMIT, which makes the whole edit visible at once.
CommitEdit(e) ==
  LET d == edit[e].doc
      s == edit[e].slug
      n == content[d].revision + 1
  IN /\ edit[e].step = "saved"
     /\ content' = [content EXCEPT
          ![d] = IF edit[e].op = "create"
                 THEN [slug |-> s, status |-> "draft", revision |-> 1, version |-> 1,
                       published |-> 0, deleted |-> FALSE]
                 ELSE [content[d] EXCEPT !.slug = s, !.revision = n,
                                          !.version = content[d].version + 1]]
     /\ revisionSlug' = [revisionSlug EXCEPT ![d][n] = s]
     /\ routes' = IF routes[s] = NoRoute
                  THEN [routes EXCEPT ![s] = [doc |-> d, state |-> "reserved"]]
                  ELSE routes
     /\ edit' = [edit EXCEPT ![e] = NoEdit]
     /\ UNCHANGED <<editor, invalidating, catalog, reading, redirects>>

\* A create waits for the address a save has reserved, and the save for the
\* address the create has inserted: the database aborts one of the two.
Waits(e, f) ==
  \/ edit[e].step = "open" /\ TakesRoute(f, edit[e].slug)
  \/ edit[e].step = "reserved" /\ TakesContentSlug(f, edit[e].slug)
AbortDeadlock(e) == /\ \E f \in Editors \ {e} : Waits(e, f) /\ Waits(f, e)
                    /\ RollBack(e)

-----------------------------------------------------------------------------
\* The action drops the cached catalog only after the commit.
Changed(e, d, row) ==
  /\ content' = [content EXCEPT ![d] = [row EXCEPT !.version = @ + 1]]
  /\ invalidating' = invalidating \cup {e}
  /\ UNCHANGED <<revisionSlug, edit, editor, catalog, reading, redirects>>

CanonicalOf(d) == {s \in Slugs : routes[s] = [doc |-> d, state |-> "canonical"]}

\* A defect the checks must find: the old canonical address is given up.
MoveCanonicalFreeing(d) ==
  [s \in Slugs |-> IF s = content[d].slug THEN [doc |-> d, state |-> "canonical"]
                   ELSE IF s \in CanonicalOf(d) THEN NoRoute ELSE routes[s]]

\* The publication moves the canonical address: the old one becomes an alias.
MoveCanonical(d) ==
  [s \in Slugs |-> IF s = content[d].slug THEN [doc |-> d, state |-> "canonical"]
                   ELSE IF s \in CanonicalOf(d) THEN [doc |-> d, state |-> "alias"]
                   ELSE routes[s]]

\* The route states with which a publication is accepted.
AddressAllows(d) ==
  IF content[d].slug \in CanonicalOf(d) THEN TRUE
  ELSE routes[content[d].slug] = [doc |-> d, state |-> "reserved"]

PublishDocument(e, d) ==
  /\ Current(e, d) /\ ~content[d].deleted
  /\ ~(content[d].status = "published" /\ content[d].published = content[d].revision)
  /\ AddressAllows(d)
  /\ routes' = MoveCanonical(d)
  /\ Changed(e, d, [content[d] EXCEPT !.status = "published", !.published = content[d].revision])

ArchiveDocument(e, d) ==
  /\ Current(e, d) /\ ~content[d].deleted /\ content[d].status = "published"
  /\ Changed(e, d, [content[d] EXCEPT !.status = "archived"])
  /\ UNCHANGED routes

DeleteDocument(e, d) ==
  /\ Current(e, d) /\ ~content[d].deleted
  /\ Changed(e, d, [content[d] EXCEPT !.status = "archived", !.deleted = TRUE])
  /\ UNCHANGED routes

RestoreDocument(e, d) ==
  /\ Current(e, d) /\ content[d].deleted
  /\ Changed(e, d, [content[d] EXCEPT !.status = "archived", !.deleted = FALSE])
  /\ UNCHANGED routes

\* updateTag, or its failure, which is reported and otherwise ignored.
Invalidate(e) ==
  /\ e \in invalidating
  /\ invalidating' = invalidating \ {e}
  /\ catalog' \in {NoCatalog, catalog}
  /\ UNCHANGED <<content, revisionSlug, routes, edit, editor, reading, redirects>>

-----------------------------------------------------------------------------
Public == {d \in Docs : content[d].status = "published" /\ ~content[d].deleted
                        /\ content[d].published # 0}
PublishedSlug(d) == revisionSlug[d][content[d].published]

\* catalogFromRows: what it throws on, and what it makes of rows that agree.
Consistent(d) == CanonicalOf(d) = {PublishedSlug(d)}

CatalogOfRows ==
  [s \in Slugs |-> IF routes[s].doc \in Public
                   THEN [kind |-> routes[s].state, doc |-> routes[s].doc,
                         canonical |-> PublishedSlug(routes[s].doc)]
                   ELSE NoEntry]

\* A page that finds the cache empty reads the rows in one statement and
\* stores the catalog later, also when the tag was updated meanwhile.
ReadCatalog ==
  /\ catalog = NoCatalog /\ reading = NoCatalog
  /\ \A d \in Public : Consistent(d)
  /\ reading' = CatalogOfRows
  /\ UNCHANGED <<content, revisionSlug, routes, edit, editor, invalidating, catalog, redirects>>

StoreCatalog ==
  /\ reading # NoCatalog
  /\ catalog' = reading /\ reading' = NoCatalog
  /\ UNCHANGED <<content, revisionSlug, routes, edit, editor, invalidating, redirects>>

\* resolvePublishedDocument: an alias is answered with a permanent redirect.
VisitAlias(s) ==
  /\ catalog[s].kind = "alias"
  /\ redirects' = redirects \cup {<<s, catalog[s].canonical>>}
  /\ UNCHANGED <<content, revisionSlug, routes, edit, editor, invalidating, catalog, reading>>

EditorStep(e) ==
  \/ \E d \in Docs : \/ OpenEditor(e, d) \/ PublishDocument(e, d) \/ ArchiveDocument(e, d)
                     \/ DeleteDocument(e, d) \/ RestoreDocument(e, d)
                     \/ \E s \in Slugs : InsertDocument(e, d, s) \/ LockForSave(e, d, s)
  \/ ReserveSlug(e) \/ SaveDraft(e) \/ CommitEdit(e) \/ AbortDeadlock(e) \/ Invalidate(e)

DocumentsNext == \/ \E e \in Editors : EditorStep(e)
                 \/ ReadCatalog \/ StoreCatalog \/ \E s \in Slugs : VisitAlias(s)

DocumentsSpec == DocumentsInit /\ [][DocumentsNext]_docVars

-----------------------------------------------------------------------------
ContentType == [slug : Slugs \cup {NoSlug},
                status : {"absent", "draft", "published", "archived"},
                revision : 0..MaxDocRevision, version : Nat,
                published : 0..MaxDocRevision, deleted : BOOLEAN]
RouteType == [doc : Docs \cup {NoSlug},
              state : {"free", "reserved", "canonical", "alias"}]
CatalogType == [Slugs -> [kind : {"unknown", "missing", "free", "reserved", "canonical", "alias"},
                          doc : Docs \cup {NoSlug}, canonical : Slugs \cup {NoSlug}]]

\* The shape of the state, with content_published_revision_check.
DocumentsTypeOK ==
  /\ content \in [Docs -> ContentType]
  /\ \A d \in Docs : content[d].published <= content[d].revision
  /\ revisionSlug \in [Docs -> [1..MaxDocRevision -> Slugs \cup {NoSlug}]]
  /\ routes \in [Slugs -> RouteType]
  /\ edit \in [Editors -> [step : {"none", "open", "reserved", "saved"},
                           op : {"none", "create", "save"},
                           doc : Docs \cup {NoSlug}, slug : Slugs \cup {NoSlug}]]
  /\ editor \in [Editors -> [doc : Docs \cup {NoSlug}, revision : 0..MaxDocRevision,
                             version : Nat]]
  /\ invalidating \subseteq Editors
  /\ catalog \in CatalogType /\ reading \in CatalogType
  /\ redirects \subseteq Slugs \X Slugs

\* The catalog can be built in every state: the published revision of each
\* public document carries its only canonical address (else catalogFromRows
\* throws and every page of the documentation is unavailable).  And a draft
\* can be published: its address is its own, reserved or canonical.
CatalogIsServable ==
  /\ \A d \in Public : Consistent(d)
  /\ \A d \in Docs : content[d] # NoDocument => AddressAllows(d)

\* An address that a catalog serves stays with its document, also in a catalog
\* that is out of date, and an alias never becomes the address of a page again:
\* the permanent redirects that browsers keep lead from aliases to addresses of
\* the same document.
AddressesStay ==
  /\ \A c \in {catalog, reading} : \A s \in Slugs :
       /\ c[s].kind \in {"canonical", "alias"} =>
            routes[s].doc = c[s].doc /\ routes[s].state \in {"canonical", "alias"}
       /\ c[s].kind = "alias" => routes[s].state = "alias"
  /\ \A r \in redirects : /\ routes[r[1]].state = "alias"
                          /\ routes[r[2]].state \in {"canonical", "alias"}
                          /\ routes[r[1]].doc = routes[r[2]].doc

\* The addresses the remembered redirects lead to.
Follow(from) == {s \in Slugs : \E r \in redirects : r[1] \in from /\ r[2] = s}

\* A browser that follows the redirects it remembers always arrives, at a page
\* of the document it first saw there: no addresses redirect to each other in a
\* circle, whatever was published since and however old the catalog was.
OldLinksArrive ==
  /\ AddressesStay
  /\ \A from \in (SUBSET Slugs) \ {{}} : ~(from \subseteq Follow(from))
=============================================================================
