-------------------------- MODULE WebContent_proofs --------------------------
(***************************************************************************)
(* Safety of Documents and of DownloadResources, for any number of         *)
(* documents, addresses, editors, revisions, tabs and visitors.            *)
(***************************************************************************)
EXTENDS MCWebContent, FiniteSetTheorems, TLAPS

-----------------------------------------------------------------------------
(* Documents: the inductive invariant                                       *)

Exists(d) == content[d] # NoDocument
Pending(e) == edit[e].step # "none"

\* A document and its addresses: the draft's is its own, the published
\* revision's is the only canonical one.
RowsInv ==
  /\ \A d \in Docs : Exists(d) =>
       /\ content[d].slug \in Slugs /\ content[d].revision >= 1
       /\ revisionSlug[d][content[d].revision] = content[d].slug
       /\ AddressAllows(d)
       /\ content[d].status = "published" => content[d].published # 0
       /\ IF content[d].published = 0
          THEN \A s \in Slugs : routes[s].doc = d => routes[s].state = "reserved"
          ELSE CanonicalOf(d) = {PublishedSlug(d)}
  /\ \A s \in Slugs : routes[s] # NoRoute =>
       routes[s].state # "free" /\ routes[s].doc \in Docs /\ Exists(routes[s].doc)

\* The transactions under way keep their document and their address to themselves.
EditsInv ==
  /\ \A e \in Editors : editor[e].doc \in Docs => Exists(editor[e].doc)
  /\ \A e \in Editors : Pending(e) =>
       /\ edit[e].doc \in Docs /\ edit[e].slug \in Slugs
       /\ \/ edit[e].op = "create" /\ ~Exists(edit[e].doc)
          \/ /\ edit[e].op = "save" /\ Exists(edit[e].doc)
             /\ content[edit[e].doc].revision < MaxDocRevision
       /\ edit[e].step \in {"reserved", "saved"} => MayReserve(edit[e].doc, edit[e].slug)
  /\ \A e, f \in Editors : e # f /\ Pending(e) /\ Pending(f) =>
       /\ edit[e].doc # edit[f].doc
       /\ \A s \in Slugs : ~(TakesRoute(e, s) /\ TakesRoute(f, s))

Links(c) == {<<s, c[s].canonical>> : s \in {t \in Slugs : c[t].kind = "alias"}}
RowLinks == {r \in Slugs \X Slugs : /\ routes[r[1]].state = "alias"
                                    /\ routes[r[2]].state = "canonical"
                                    /\ routes[r[1]].doc = routes[r[2]].doc}
AllLinks == redirects \cup Links(catalog) \cup Links(reading) \cup RowLinks
NoCircle(R) == \A from \in (SUBSET Slugs) \ {{}} : \E s \in from : \A t \in from : <<t, s>> \notin R

LinksInv ==
  /\ AddressesStay
  /\ \A c \in {catalog, reading} : \A s \in Slugs : c[s].kind = "alias" =>
       /\ c[s].canonical \in Slugs /\ routes[c[s].canonical].state \in {"canonical", "alias"}
       /\ routes[c[s].canonical].doc = routes[s].doc
  /\ NoCircle(AllLinks)

DocumentsInv == DocumentsTypeOK /\ RowsInv /\ EditsInv /\ LinksInv

-----------------------------------------------------------------------------
\* Links that are added lead to an address that has none yet; no circle comes of it.
LEMMA LinksAdded ==
  ASSUME NEW R, NEW Q, NEW c, NoCircle(R),
         \A s, t \in Slugs : <<t, s>> \in Q => <<t, s>> \in R \/ s = c,
         \A s \in Slugs : <<c, s>> \notin Q
  PROVE  NoCircle(Q)
<1> SUFFICES ASSUME NEW from \in (SUBSET Slugs) \ {{}}
             PROVE  \E s \in from : \A t \in from : <<t, s>> \notin Q
  BY DEF NoCircle
<1> DEFINE rest == from \ {c}
<1>1. CASE rest = {}
  BY <1>1
<1>2. CASE rest # {}
  <2>1. PICK s \in rest : \A t \in rest : <<t, s>> \notin R
    BY <1>2 DEF NoCircle
  <2>2. \A t \in from : <<t, s>> \notin Q
    BY <2>1
  <2> QED BY <2>1, <2>2
<1> QED BY <1>1, <1>2

LEMMA LinksKept ==
  ASSUME NEW R, NEW Q, NoCircle(R), Q \subseteq R
  PROVE  NoCircle(Q)
BY DEF NoCircle

\* The facts of the types that the steps use.
EditType == [step : {"none", "open", "reserved", "saved"}, op : {"none", "create", "save"},
             doc : Docs \cup {NoSlug}, slug : Slugs \cup {NoSlug}]

\* What the addresses say depends on the rows alone.
LEMMA RowsStay ==
  ASSUME RowsInv, UNCHANGED <<content, revisionSlug, routes>>
  PROVE  RowsInv'
BY DEF RowsInv, Exists, AddressAllows, CanonicalOf, PublishedSlug

LEMMA LinksStay ==
  ASSUME LinksInv, UNCHANGED <<routes, catalog, reading, redirects>>
  PROVE  LinksInv'
BY DEF LinksInv, AddressesStay, AllLinks, Links, RowLinks, NoCircle

\* A step of one transaction before its COMMIT keeps the invariant when its
\* document and its address are its own.
LEMMA EditKeeps ==
  ASSUME DocumentsInv, NEW e \in Editors, NEW q \in EditType,
         edit' = [edit EXCEPT ![e] = q], OnlyEdit,
         q.step # "none" =>
           /\ q.doc \in Docs /\ q.slug \in Slugs
           /\ \/ q.op = "create" /\ ~Exists(q.doc)
              \/ /\ q.op = "save" /\ Exists(q.doc)
                 /\ content[q.doc].revision < MaxDocRevision
           /\ q.step \in {"reserved", "saved"} => MayReserve(q.doc, q.slug)
           /\ \A f \in Editors \ {e} : Pending(f) => edit[f].doc # q.doc
           /\ q.step \in {"reserved", "saved"} /\ routes[q.slug] = NoRoute =>
                \A f \in Editors \ {e} : ~TakesRoute(f, q.slug)
  PROVE  DocumentsInv'
<1>1. /\ UNCHANGED <<content, revisionSlug, routes, editor, invalidating, catalog, reading,
                     redirects>>
      /\ edit \in [Editors -> EditType]
  BY DEF OnlyEdit, DocumentsInv, DocumentsTypeOK, EditType
<1>2. edit'[e] = q /\ \A f \in Editors \ {e} : edit'[f] = edit[f]
  BY <1>1
<1>3. DocumentsTypeOK'
  <2>1. edit' \in [Editors -> EditType]
    BY <1>1
  <2> QED BY <1>1, <2>1 DEF DocumentsInv, DocumentsTypeOK, EditType
<1>4. EditsInv'
  <2>1. \A f \in Editors : Pending(f)' =>
          /\ edit'[f].doc \in Docs /\ edit'[f].slug \in Slugs
          /\ \/ edit'[f].op = "create" /\ ~Exists(edit'[f].doc)
             \/ /\ edit'[f].op = "save" /\ Exists(edit'[f].doc)
                /\ content[edit'[f].doc].revision < MaxDocRevision
          /\ edit'[f].step \in {"reserved", "saved"} => MayReserve(edit'[f].doc, edit'[f].slug)
    BY <1>2 DEF DocumentsInv, EditsInv, Pending
  <2>2. \A f \in Editors \ {e} : Pending(f)' <=> Pending(f)
    BY <1>2 DEF Pending
  <2>3. \A f \in Editors \ {e} : \A s \in Slugs : TakesRoute(f, s)' <=> TakesRoute(f, s)
    BY <1>1, <1>2 DEF TakesRoute
  <2>4. \A s \in Slugs : TakesRoute(e, s)' =>
          q.step \in {"reserved", "saved"} /\ s = q.slug /\ routes[s] = NoRoute
    BY <1>1, <1>2 DEF TakesRoute
  <2>5. ASSUME NEW f \in Editors, NEW g \in Editors, f # g, Pending(f)', Pending(g)'
        PROVE  /\ edit'[f].doc # edit'[g].doc
               /\ \A s \in Slugs : ~(TakesRoute(f, s)' /\ TakesRoute(g, s)')
    <3>1. CASE f # e /\ g # e
      BY <1>2, <2>2, <2>3, <2>5, <3>1 DEF DocumentsInv, EditsInv
    <3>2. CASE f = e
      BY <1>2, <2>2, <2>3, <2>4, <2>5, <3>2 DEF Pending
    <3>3. CASE g = e
      BY <1>2, <2>2, <2>3, <2>4, <2>5, <3>3 DEF Pending
    <3> QED BY <3>1, <3>2, <3>3
  <2>6. \A f \in Editors : editor'[f].doc \in Docs => Exists(editor'[f].doc)
    BY <1>1 DEF DocumentsInv, EditsInv
  <2> QED BY <1>1, <2>1, <2>5, <2>6 DEF EditsInv, Exists, MayReserve
<1> QED BY <1>1, <1>3, <1>4, RowsStay, LinksStay DEF DocumentsInv
-----------------------------------------------------------------------------
LEMMA OpenKeeps ==
  ASSUME DocumentsInv, NEW e \in Editors, NEW d \in Docs, OpenEditor(e, d)
  PROVE  DocumentsInv'
<1> DEFINE row == [doc |-> d, revision |-> content[d].revision, version |-> content[d].version]
<1>1. /\ UNCHANGED <<content, revisionSlug, routes, edit, invalidating, catalog, reading, redirects>>
      /\ Exists(d) /\ editor' = [editor EXCEPT ![e] = row]
  BY DEF OpenEditor, Exists
<1>2. row \in [doc : Docs \cup {NoSlug}, revision : 0..MaxDocRevision, version : Nat]
  BY DEF DocumentsInv, DocumentsTypeOK, ContentType
<1>3. editor \in [Editors -> [doc : Docs \cup {NoSlug}, revision : 0..MaxDocRevision,
                              version : Nat]]
  BY DEF DocumentsInv, DocumentsTypeOK
<1>4. editor' \in [Editors -> [doc : Docs \cup {NoSlug}, revision : 0..MaxDocRevision,
                               version : Nat]]
  BY <1>1, <1>2, <1>3
<1>5. DocumentsTypeOK'
  BY <1>1, <1>4 DEF DocumentsInv, DocumentsTypeOK
<1>6. \A f \in Editors : editor'[f].doc \in Docs => Exists(editor'[f].doc)
  <2> TAKE f \in Editors
  <2>1. CASE f = e
    BY <1>1, <1>3, <2>1
  <2>2. CASE f # e
    BY <1>1, <1>3, <2>2 DEF DocumentsInv, EditsInv
  <2> QED BY <2>1, <2>2
<1>7. EditsInv'
  BY <1>1, <1>6 DEF DocumentsInv, EditsInv, Exists, Pending, MayReserve, TakesRoute
<1> QED BY <1>1, <1>5, <1>7, RowsStay, LinksStay DEF DocumentsInv

LEMMA InsertKeeps ==
  ASSUME DocumentsInv, NEW e \in Editors, NEW d \in Docs, NEW s \in Slugs,
         InsertDocument(e, d, s)
  PROVE  DocumentsInv'
<1> DEFINE q == [step |-> "open", op |-> "create", doc |-> d, slug |-> s]
<1>1. q \in EditType /\ edit' = [edit EXCEPT ![e] = q] /\ OnlyEdit /\ ~Exists(d)
  BY DEF InsertDocument, EditType, Exists
<1>2. \A f \in Editors \ {e} : Pending(f) => edit[f].doc # q.doc
  BY DEF InsertDocument, Locked, Pending
<1> QED BY <1>1, <1>2, EditKeeps

LEMMA CurrentFacts ==
  ASSUME DocumentsInv, NEW e \in Editors, NEW d \in Docs, Current(e, d)
  PROVE  /\ Exists(d)
         /\ \A f \in Editors : Pending(f) => edit[f].doc # d
BY DEF Current, Locked, Pending, DocumentsInv, EditsInv

LEMMA LockKeeps ==
  ASSUME DocumentsInv, NEW e \in Editors, NEW d \in Docs, NEW s \in Slugs,
         LockForSave(e, d, s)
  PROVE  DocumentsInv'
<1> DEFINE q == [step |-> IF s = content[d].slug THEN "reserved" ELSE "open",
                 op |-> "save", doc |-> d, slug |-> s]
<1>1. q \in EditType /\ edit' = [edit EXCEPT ![e] = q] /\ OnlyEdit /\ Current(e, d)
      /\ content[d].revision < MaxDocRevision
  BY DEF LockForSave, EditType
<1>2. Exists(d) /\ \A f \in Editors \ {e} : Pending(f) => edit[f].doc # q.doc
  BY <1>1, CurrentFacts
<1>3. q.step \in {"reserved", "saved"} => MayReserve(d, s) /\ routes[s] # NoRoute
  <2> SUFFICES ASSUME s = content[d].slug PROVE MayReserve(d, s) /\ routes[s] # NoRoute
    OBVIOUS
  <2>1. AddressAllows(d)
    BY <1>2 DEF DocumentsInv, RowsInv
  <2>2. routes[s] \in {[doc |-> d, state |-> "canonical"], [doc |-> d, state |-> "reserved"]}
    BY <2>1 DEF AddressAllows, CanonicalOf
  <2> QED BY <2>2 DEF MayReserve, NoRoute
<1> QED BY <1>1, <1>2, <1>3, EditKeeps

LEMMA RollBackKeeps ==
  ASSUME DocumentsInv, NEW e \in Editors, RollBack(e)
  PROVE  DocumentsInv'
<1>1. NoEdit \in EditType /\ NoEdit.step = "none"
  BY DEF NoEdit, EditType
<1> QED BY <1>1, EditKeeps DEF RollBack

LEMMA ReserveKeeps ==
  ASSUME DocumentsInv, NEW e \in Editors, ReserveSlug(e)
  PROVE  DocumentsInv'
<1>1. CASE RollBack(e)
  BY <1>1, RollBackKeeps
<1>2. CASE ~RollBack(e)
  <2> DEFINE q == [edit[e] EXCEPT !.step = IF edit[e].op = "create" THEN "saved" ELSE "reserved"]
  <2>1. /\ edit[e].step = "open" /\ MayReserve(edit[e].doc, edit[e].slug)
        /\ routes[edit[e].slug] = NoRoute => ~RouteTaken(e, edit[e].slug)
        /\ edit' = [edit EXCEPT ![e] = q] /\ OnlyEdit
    BY <1>2 DEF ReserveSlug
  <2>2. edit[e] \in EditType
    BY DEF DocumentsInv, DocumentsTypeOK, EditType
  <2>3. q \in EditType /\ q.doc = edit[e].doc /\ q.slug = edit[e].slug /\ q.op = edit[e].op
    BY <2>2 DEF EditType
  <2>4. Pending(e)
    BY <2>1 DEF Pending
  <2> HIDE DEF q
  <2>5. /\ q.doc \in Docs /\ q.slug \in Slugs
        /\ \/ q.op = "create" /\ ~Exists(q.doc)
           \/ q.op = "save" /\ Exists(q.doc) /\ content[q.doc].revision < MaxDocRevision
        /\ \A f \in Editors \ {e} : Pending(f) => edit[f].doc # q.doc
    BY <2>3, <2>4 DEF DocumentsInv, EditsInv
  <2> QED BY <2>1, <2>3, <2>5, EditKeeps DEF RouteTaken
<1> QED BY <1>1, <1>2

LEMMA SaveKeeps ==
  ASSUME DocumentsInv, NEW e \in Editors, SaveDraft(e)
  PROVE  DocumentsInv'
<1>1. CASE RollBack(e)
  BY <1>1, RollBackKeeps
<1>2. CASE ~RollBack(e)
  <2> DEFINE q == [edit[e] EXCEPT !.step = "saved"]
  <2>1. edit[e].step = "reserved" /\ edit' = [edit EXCEPT ![e] = q] /\ OnlyEdit
    BY <1>2 DEF SaveDraft
  <2>2. edit[e] \in EditType
    BY DEF DocumentsInv, DocumentsTypeOK, EditType
  <2>3. q \in EditType /\ q.doc = edit[e].doc /\ q.slug = edit[e].slug /\ q.op = edit[e].op
    BY <2>2 DEF EditType
  <2>4. Pending(e)
    BY <2>1 DEF Pending
  <2> HIDE DEF q
  <2>5. /\ q.doc \in Docs /\ q.slug \in Slugs
        /\ \/ q.op = "create" /\ ~Exists(q.doc)
           \/ q.op = "save" /\ Exists(q.doc) /\ content[q.doc].revision < MaxDocRevision
        /\ MayReserve(q.doc, q.slug)
        /\ \A f \in Editors \ {e} : Pending(f) => edit[f].doc # q.doc
    BY <2>1, <2>3, <2>4 DEF DocumentsInv, EditsInv
  <2>6. routes[q.slug] = NoRoute => \A f \in Editors \ {e} : ~TakesRoute(f, q.slug)
    <3> SUFFICES ASSUME routes[q.slug] = NoRoute, NEW f \in Editors \ {e}, TakesRoute(f, q.slug)
                 PROVE  FALSE
      OBVIOUS
    <3>1. TakesRoute(e, q.slug) /\ Pending(f)
      BY <2>1, <2>3 DEF TakesRoute, Pending
    <3> QED BY <2>4, <2>5, <3>1 DEF DocumentsInv, EditsInv
  <2> QED BY <2>1, <2>3, <2>5, <2>6, EditKeeps
<1> QED BY <1>1, <1>2

-----------------------------------------------------------------------------
\* What a visitor was told stays true while canonical addresses and aliases keep
\* their document and aliases stay aliases.
LEMMA AddressesKept ==
  ASSUME LinksInv, UNCHANGED <<catalog, reading, redirects>>,
         \A s \in Slugs : routes[s].state \in {"canonical", "alias"} =>
           /\ routes'[s].doc = routes[s].doc
           /\ routes'[s].state \in {"canonical", "alias"}
           /\ routes[s].state = "alias" => routes'[s].state = "alias",
         redirects \subseteq Slugs \X Slugs,
         NoCircle(AllLinks')
  PROVE  LinksInv'
<1>1. AddressesStay'
  <2>1. \A c \in {catalog, reading} : \A s \in Slugs :
          /\ c[s].kind \in {"canonical", "alias"} =>
               routes'[s].doc = c[s].doc /\ routes'[s].state \in {"canonical", "alias"}
          /\ c[s].kind = "alias" => routes'[s].state = "alias"
    BY DEF LinksInv, AddressesStay
  <2>2. \A r \in redirects : /\ routes'[r[1]].state = "alias"
                             /\ routes'[r[2]].state \in {"canonical", "alias"}
                             /\ routes'[r[1]].doc = routes'[r[2]].doc
    <3> TAKE r \in redirects
    <3>1. r[1] \in Slugs /\ r[2] \in Slugs
      OBVIOUS
    <3> QED BY <3>1 DEF LinksInv, AddressesStay
  <2> QED BY <2>1, <2>2 DEF AddressesStay
<1>2. \A c \in {catalog, reading} : \A s \in Slugs : c[s].kind = "alias" =>
        /\ c[s].canonical \in Slugs /\ routes'[c[s].canonical].state \in {"canonical", "alias"}
        /\ routes'[c[s].canonical].doc = routes'[s].doc
  BY DEF LinksInv, AddressesStay
<1>3. NoCircle(AllLinks)'
  BY DEF NoCircle
<1> QED BY <1>1, <1>2, <1>3 DEF LinksInv
\* A mutation of one document keeps the transactions of the others going.
LEMMA EditsKept ==
  ASSUME DocumentsInv, NEW e \in Editors, NEW d \in Docs, Current(e, d),
         NEW row, row # NoDocument, content' = [content EXCEPT ![d] = row],
         UNCHANGED <<edit, editor>>,
         \A s \in Slugs : routes'[s] # routes[s] => routes[s].doc = d /\ routes'[s].doc = d
  PROVE  EditsInv'
<1>1. Exists(d) /\ \A f \in Editors : Pending(f) => edit[f].doc # d
  BY CurrentFacts
<1>2. content \in [Docs -> ContentType]
  BY DEF DocumentsInv, DocumentsTypeOK
<1>3. \A x \in Docs : (Exists(x)' <=> Exists(x)) /\ (x # d => content'[x] = content[x])
  BY <1>1, <1>2 DEF Exists
<1>4. \A s \in Slugs : routes'[s] = NoRoute <=> routes[s] = NoRoute
  BY DocumentsAssumption DEF NoRoute
<1>5. \A x \in Docs : \A s \in Slugs : x # d /\ MayReserve(x, s) => MayReserve(x, s)'
  BY <1>4 DEF MayReserve
<1>6. \A f \in Editors : Pending(f)' = Pending(f)
  BY DEF Pending
<1>7. \A f \in Editors : \A s \in Slugs : TakesRoute(f, s)' => TakesRoute(f, s)
  BY <1>4 DEF TakesRoute
<1>8. \A f \in Editors : (editor[f].doc \in Docs => Exists(editor[f].doc))'
  BY <1>3 DEF DocumentsInv, EditsInv
<1>9. ASSUME NEW f \in Editors, Pending(f)'
      PROVE  /\ edit'[f].doc \in Docs /\ edit'[f].slug \in Slugs
             /\ \/ edit'[f].op = "create" /\ ~Exists(edit[f].doc)'
                \/ /\ edit'[f].op = "save" /\ Exists(edit[f].doc)'
                   /\ content'[edit'[f].doc].revision < MaxDocRevision
             /\ edit'[f].step \in {"reserved", "saved"} => MayReserve(edit[f].doc, edit[f].slug)'
  <2>1. Pending(f) /\ edit[f].doc # d
    BY <1>1, <1>6, <1>9
  <2> QED BY <2>1, <1>3, <1>5 DEF DocumentsInv, EditsInv
<1>10. \A f, g \in Editors : f # g /\ Pending(f)' /\ Pending(g)' =>
         /\ edit'[f].doc # edit'[g].doc
         /\ \A s \in Slugs : ~(TakesRoute(f, s)' /\ TakesRoute(g, s)')
  BY <1>6, <1>7 DEF DocumentsInv, EditsInv
<1> QED BY <1>8, <1>9, <1>10 DEF EditsInv, Exists, MayReserve

\* archiveDocument, deleteDocument and restoreDocument change the row alone.
LEMMA RowKeeps ==
  ASSUME DocumentsInv, NEW e \in Editors, NEW d \in Docs, Current(e, d),
         NEW row \in ContentType, Changed(e, d, row), UNCHANGED routes,
         row.slug = content[d].slug, row.revision = content[d].revision,
         row.published = content[d].published, row.status = "archived"
  PROVE  DocumentsInv'
<1> DEFINE r == [row EXCEPT !.version = @ + 1]
<1>1. /\ r \in ContentType /\ r.slug = content[d].slug /\ r.revision = content[d].revision
      /\ r.published = content[d].published /\ r.status = "archived"
      /\ content' = [content EXCEPT ![d] = r]
      /\ invalidating' = invalidating \cup {e}
      /\ UNCHANGED <<revisionSlug, edit, editor, catalog, reading, redirects, routes>>
  BY DEF Changed, ContentType
<1> HIDE DEF r
<1>2. content \in [Docs -> ContentType] /\ \A x \in Docs : content[x].published <= content[x].revision
  BY DEF DocumentsInv, DocumentsTypeOK
<1>3. content'[d] = r /\ \A x \in Docs \ {d} : content'[x] = content[x]
  BY <1>1, <1>2
<1>4. r # NoDocument
  BY <1>1 DEF NoDocument
<1>5. DocumentsTypeOK'
  <2>1. content' \in [Docs -> ContentType] /\ \A x \in Docs : content'[x].published <= content'[x].revision
    BY <1>1, <1>2, <1>3
  <2> QED BY <1>1, <2>1 DEF DocumentsInv, DocumentsTypeOK
<1>6. EditsInv'
  BY <1>1, <1>4, EditsKept
<1>7. RowsInv'
  <2>1. Exists(d) /\ \A x \in Docs : Exists(x)' <=> Exists(x)
    BY <1>3, <1>4, CurrentFacts DEF Exists
  <2>2. \A x \in Docs : /\ content'[x].slug = content[x].slug
                        /\ content'[x].revision = content[x].revision
                        /\ content'[x].published = content[x].published
                        /\ content'[x].status = "published" => content[x].status = "published"
    BY <1>1, <1>3
  <2>3. \A x \in Docs : (AddressAllows(x)' <=> AddressAllows(x)) /\ CanonicalOf(x)' = CanonicalOf(x)
                        /\ PublishedSlug(x)' = PublishedSlug(x)
    BY <1>1, <2>2 DEF AddressAllows, CanonicalOf, PublishedSlug
  <2>4. ASSUME NEW x \in Docs, Exists(x)'
        PROVE  /\ content'[x].slug \in Slugs /\ content'[x].revision >= 1
               /\ revisionSlug'[x][content'[x].revision] = content'[x].slug
               /\ AddressAllows(x)'
               /\ content'[x].status = "published" => content'[x].published # 0
               /\ IF content'[x].published = 0
                  THEN \A s \in Slugs : routes'[s].doc = x => routes'[s].state = "reserved"
                  ELSE CanonicalOf(x)' = {PublishedSlug(x)'}
    BY <1>1, <2>1, <2>2, <2>3, <2>4 DEF DocumentsInv, RowsInv
  <2>5. \A s \in Slugs : routes'[s] # NoRoute =>
          routes'[s].state # "free" /\ routes'[s].doc \in Docs /\ Exists(routes[s].doc)'
    BY <1>1, <2>1 DEF DocumentsInv, RowsInv
  <2> QED BY <2>4, <2>5 DEF RowsInv, Exists, CanonicalOf, PublishedSlug
<1> QED BY <1>1, <1>5, <1>6, <1>7, LinksStay DEF DocumentsInv

LEMMA ArchiveKeeps ==
  ASSUME DocumentsInv, NEW e \in Editors, NEW d \in Docs,
         ArchiveDocument(e, d) \/ DeleteDocument(e, d) \/ RestoreDocument(e, d)
  PROVE  DocumentsInv'
<1>1. content[d] \in ContentType
  BY DEF DocumentsInv, DocumentsTypeOK
<1>2. CASE ArchiveDocument(e, d)
  <2> DEFINE row == [content[d] EXCEPT !.status = "archived"]
  <2>1. /\ Current(e, d) /\ Changed(e, d, row) /\ UNCHANGED routes
        /\ row \in ContentType
        /\ row.slug = content[d].slug /\ row.revision = content[d].revision
        /\ row.published = content[d].published /\ row.status = "archived"
    BY <1>1, <1>2 DEF ArchiveDocument, ContentType
  <2> QED BY <2>1, RowKeeps
<1>3. CASE DeleteDocument(e, d)
  <2> DEFINE row == [content[d] EXCEPT !.status = "archived", !.deleted = TRUE]
  <2>1. /\ Current(e, d) /\ Changed(e, d, row) /\ UNCHANGED routes
        /\ row \in ContentType
        /\ row.slug = content[d].slug /\ row.revision = content[d].revision
        /\ row.published = content[d].published /\ row.status = "archived"
    BY <1>1, <1>3 DEF DeleteDocument, ContentType
  <2> QED BY <2>1, RowKeeps
<1>4. CASE RestoreDocument(e, d)
  <2> DEFINE row == [content[d] EXCEPT !.status = "archived", !.deleted = FALSE]
  <2>1. /\ Current(e, d) /\ Changed(e, d, row) /\ UNCHANGED routes
        /\ row \in ContentType
        /\ row.slug = content[d].slug /\ row.revision = content[d].revision
        /\ row.published = content[d].published /\ row.status = "archived"
    BY <1>1, <1>4 DEF RestoreDocument, ContentType
  <2> QED BY <2>1, RowKeeps
<1> QED BY <1>2, <1>3, <1>4
LEMMA PublishKeeps ==
  ASSUME DocumentsInv, NEW e \in Editors, NEW d \in Docs, PublishDocument(e, d)
  PROVE  DocumentsInv'
<1> DEFINE s0 == content[d].slug
<1> DEFINE p == [content[d] EXCEPT !.status = "published", !.published = content[d].revision]
<1> DEFINE r == [p EXCEPT !.version = @ + 1]
<1>1. content[d] \in ContentType
  BY DEF DocumentsInv, DocumentsTypeOK
<1>2. /\ r \in ContentType /\ r.slug = s0 /\ r.revision = content[d].revision
      /\ r.published = content[d].revision
  <2>1. /\ p \in ContentType /\ p.slug = s0 /\ p.revision = content[d].revision
        /\ p.published = content[d].revision
    BY <1>1 DEF ContentType
  <2> HIDE DEF p
  <2> QED BY <2>1 DEF ContentType
<1>3. /\ Current(e, d) /\ AddressAllows(d) /\ routes' = MoveCanonical(d)
      /\ content' = [content EXCEPT ![d] = r]
      /\ invalidating' = invalidating \cup {e}
      /\ UNCHANGED <<revisionSlug, edit, editor, catalog, reading, redirects>>
  BY DEF PublishDocument, Changed
<1>4. Exists(d)
  BY <1>3, CurrentFacts
<1>5. /\ s0 \in Slugs /\ content[d].revision >= 1 /\ revisionSlug[d][content[d].revision] = s0
      /\ IF content[d].published = 0
         THEN \A s \in Slugs : routes[s].doc = d => routes[s].state = "reserved"
         ELSE CanonicalOf(d) = {PublishedSlug(d)}
  BY <1>4 DEF DocumentsInv, RowsInv
<1> HIDE DEF r
<1>6. content \in [Docs -> ContentType] /\ \A x \in Docs : content[x].published <= content[x].revision
  BY DEF DocumentsInv, DocumentsTypeOK
<1>7. content'[d] = r /\ \A x \in Docs \ {d} : content'[x] = content[x]
  BY <1>3, <1>6
<1>8. r # NoDocument
  BY <1>2, <1>5, DocumentsAssumption DEF NoDocument
<1>9. routes[s0].doc = d /\ routes[s0].state \in {"canonical", "reserved"}
  BY <1>3 DEF AddressAllows, CanonicalOf
<1>10. /\ routes'[s0] = [doc |-> d, state |-> "canonical"]
       /\ \A s \in Slugs \ {s0} :
            IF routes[s] = [doc |-> d, state |-> "canonical"]
            THEN routes'[s] = [doc |-> d, state |-> "alias"]
            ELSE routes'[s] = routes[s]
  BY <1>3, <1>5 DEF MoveCanonical, CanonicalOf
<1>11. routes \in [Slugs -> RouteType]
  BY DEF DocumentsInv, DocumentsTypeOK
<1>12. \A s \in Slugs : /\ routes'[s] # routes[s] => routes[s].doc = d
                        /\ routes'[s].doc = routes[s].doc
  BY <1>9, <1>10
<1>13. DocumentsTypeOK'
  <2>1. content' \in [Docs -> ContentType] /\ \A x \in Docs : content'[x].published <= content'[x].revision
    BY <1>1, <1>2, <1>3, <1>6, <1>7 DEF ContentType
  <2>2. \A s \in Slugs : routes'[s] \in RouteType
    BY <1>10, <1>11 DEF RouteType
  <2>3. routes' \in [Slugs -> RouteType]
    BY <1>3, <2>2 DEF MoveCanonical
  <2> QED BY <1>3, <2>1, <2>3 DEF DocumentsInv, DocumentsTypeOK
<1>14. EditsInv'
  BY <1>3, <1>8, <1>12, EditsKept
<1>15. RowsInv'
  <2>1. \A x \in Docs : (Exists(x)' <=> Exists(x))
    BY <1>4, <1>7, <1>8 DEF Exists
  <2>2. ASSUME NEW x \in Docs, Exists(x)'
        PROVE  /\ content'[x].slug \in Slugs /\ content'[x].revision >= 1
               /\ revisionSlug'[x][content'[x].revision] = content'[x].slug
               /\ AddressAllows(x)'
               /\ content'[x].status = "published" => content'[x].published # 0
               /\ IF content'[x].published = 0
                  THEN \A s \in Slugs : routes'[s].doc = x => routes'[s].state = "reserved"
                  ELSE CanonicalOf(x)' = {PublishedSlug(x)'}
    <3>1. CASE x = d
      <4>1. CanonicalOf(d)' = {s0}
        BY <1>5, <1>10 DEF CanonicalOf
      <4>2. PublishedSlug(d)' = s0
        BY <1>2, <1>3, <1>5, <1>7 DEF PublishedSlug
      <4>3. AddressAllows(d)'
        BY <1>2, <1>7, <4>1 DEF AddressAllows
      <4> QED BY <1>1, <1>2, <1>3, <1>5, <1>7, <3>1, <4>1, <4>2, <4>3 DEF ContentType
    <3>2. CASE x # d
      <4>1. \A s \in Slugs : routes'[s].doc = x \/ routes[s].doc = x => routes'[s] = routes[s]
        BY <1>12, <3>2
      <4>2. CanonicalOf(x)' = CanonicalOf(x)
        BY <4>1 DEF CanonicalOf
      <4>3. content'[x] = content[x] /\ PublishedSlug(x)' = PublishedSlug(x)
        BY <1>3, <1>7, <3>2 DEF PublishedSlug
      <4>4. content[x].slug \in Slugs /\ AddressAllows(x)
        BY <2>1, <2>2 DEF DocumentsInv, RowsInv
      <4>5. AddressAllows(x)'
        BY <4>1, <4>2, <4>3, <4>4 DEF AddressAllows
      <4> QED BY <1>3, <2>1, <2>2, <4>1, <4>2, <4>3, <4>5 DEF DocumentsInv, RowsInv
    <3> QED BY <3>1, <3>2
  <2>3. ASSUME NEW s \in Slugs, routes'[s] # NoRoute
        PROVE  routes'[s].state # "free" /\ routes'[s].doc \in Docs /\ Exists(routes[s].doc)'
    <3>1. CASE routes'[s] = routes[s]
      BY <2>1, <2>3, <3>1 DEF DocumentsInv, RowsInv
    <3>2. CASE routes'[s] # routes[s]
      <4>1. routes'[s].doc = d /\ routes[s].doc = d /\ routes'[s].state # "free"
        BY <1>10, <1>12, <3>2
      <4> QED BY <1>4, <2>1, <4>1
    <3> QED BY <3>1, <3>2
  <2>4. \A s \in Slugs : Exists(routes[s].doc)' <=> content'[routes'[s].doc] # NoDocument
    BY DEF Exists
  <2> QED BY <2>2, <2>3, <2>4 DEF RowsInv, Exists, CanonicalOf, PublishedSlug
<1>16. LinksInv'
  <2>1. CASE s0 \in CanonicalOf(d)
    <3>1. CanonicalOf(d) = {s0}
      BY <1>5, <2>1 DEF CanonicalOf
    <3>2. \A s \in Slugs : routes'[s] = routes[s]
      BY <1>10, <2>1, <3>1 DEF CanonicalOf
    <3>3. routes' = routes
      BY <1>3, <1>11, <3>2 DEF MoveCanonical
    <3> QED BY <1>3, <3>3, LinksStay DEF DocumentsInv
  <2>2. CASE s0 \notin CanonicalOf(d)
    <3>1. routes[s0].state = "reserved"
      BY <1>3, <2>2 DEF AddressAllows
    <3>2. \A s \in Slugs : routes[s].state \in {"canonical", "alias"} =>
            /\ routes'[s].doc = routes[s].doc
            /\ routes'[s].state \in {"canonical", "alias"}
            /\ routes[s].state = "alias" => routes'[s].state = "alias"
      BY <1>10, <1>12, <3>1
    <3>3. redirects \subseteq Slugs \X Slugs
      BY DEF DocumentsInv, DocumentsTypeOK
    <3>4. \A s, t \in Slugs : <<t, s>> \in AllLinks' => <<t, s>> \in AllLinks \/ s = s0
      <4> SUFFICES ASSUME NEW s \in Slugs, NEW t \in Slugs, <<t, s>> \in RowLinks', s # s0
                   PROVE  <<t, s>> \in RowLinks
        BY <1>3 DEF AllLinks, Links
      <4>1. /\ routes'[t].state = "alias" /\ routes'[s].state = "canonical"
            /\ routes'[t].doc = routes'[s].doc
        BY DEF RowLinks
      <4>2. routes'[s] = routes[s] /\ routes[s].doc # d
        BY <1>10, <1>11, <4>1 DEF RouteType
      <4>3. routes'[t] = routes[t]
        BY <1>12, <4>1, <4>2
      <4> QED BY <4>1, <4>2, <4>3 DEF RowLinks
    <3>5. \A s \in Slugs : <<s0, s>> \notin AllLinks'
      <4> SUFFICES ASSUME NEW s \in Slugs, <<s0, s>> \in AllLinks'
                   PROVE  FALSE
        OBVIOUS
      <4>1. <<s0, s>> \notin RowLinks'
        BY <1>10 DEF RowLinks
      <4>2. <<s0, s>> \notin redirects
        BY <3>1 DEF DocumentsInv, LinksInv, AddressesStay
      <4>3. catalog[s0].kind # "alias" /\ reading[s0].kind # "alias"
        BY <1>5, <3>1 DEF DocumentsInv, LinksInv, AddressesStay
      <4>4. <<s0, s>> \notin Links(catalog) /\ <<s0, s>> \notin Links(reading)
        BY <4>3 DEF Links
      <4> QED BY <1>3, <4>1, <4>2, <4>4 DEF AllLinks, Links
    <3>6. NoCircle(AllLinks)
      BY DEF DocumentsInv, LinksInv
    <3>7. NoCircle(AllLinks')
      BY <3>4, <3>5, <3>6, LinksAdded
    <3> QED BY <1>3, <3>2, <3>3, <3>7, AddressesKept DEF DocumentsInv
  <2> QED BY <2>1, <2>2
<1> QED BY <1>13, <1>14, <1>15, <1>16 DEF DocumentsInv
-----------------------------------------------------------------------------
\* A route is determined by its two columns.
LEMMA RoutesAreRecords ==
  \A r, q \in RouteType : r.doc = q.doc /\ r.state = q.state => r = q
BY DEF RouteType

\* The COMMIT of a create or a save: the address was free or the document's own.
LEMMA CommitKeeps ==
  ASSUME DocumentsInv, NEW e \in Editors, CommitEdit(e)
  PROVE  DocumentsInv'
<1>0. Pending(e) /\ edit[e].step = "saved"
  BY DEF CommitEdit, Pending
<1> PICK d \in Docs, s \in Slugs : edit[e].doc = d /\ edit[e].slug = s
  BY <1>0 DEF DocumentsInv, EditsInv
<1>2. /\ MayReserve(d, s)
      /\ \/ edit[e].op = "create" /\ ~Exists(d)
         \/ edit[e].op = "save" /\ Exists(d) /\ content[d].revision < MaxDocRevision
      /\ \A f \in Editors \ {e} : Pending(f) =>
           edit[f].doc # d /\ \A t \in Slugs : ~(TakesRoute(e, t) /\ TakesRoute(f, t))
  BY <1>0 DEF DocumentsInv, EditsInv
<1>3. /\ content \in [Docs -> ContentType] /\ \A x \in Docs : content[x].published <= content[x].revision
      /\ routes \in [Slugs -> RouteType]
      /\ revisionSlug \in [Docs -> [1..MaxDocRevision -> Slugs \cup {NoSlug}]]
      /\ edit \in [Editors -> EditType]
  BY DEF DocumentsInv, DocumentsTypeOK, EditType
<1> PICK n \in 1..MaxDocRevision :
      n = content[d].revision + 1 /\ content[d].published < n
  <2>1. content[d] \in ContentType /\ content[d].published <= content[d].revision
    BY <1>3
  <2>2. content[d].revision < MaxDocRevision
    <3>1. CASE Exists(d)
      BY <1>2, <3>1
    <3>2. CASE ~Exists(d)
      BY <3>2, DocumentsAssumption DEF Exists, NoDocument
    <3> QED BY <3>1, <3>2
  <2>3. content[d].revision \in Nat /\ content[d].published \in Nat
    BY <2>1, DocumentsAssumption DEF ContentType
  <2> QED BY <2>1, <2>2, <2>3, DocumentsAssumption
<1>1. /\ revisionSlug' = [revisionSlug EXCEPT ![d][n] = s]
      /\ routes' = IF routes[s] = NoRoute
                   THEN [routes EXCEPT ![s] = [doc |-> d, state |-> "reserved"]]
                   ELSE routes
      /\ edit' = [edit EXCEPT ![e] = NoEdit]
      /\ UNCHANGED <<editor, invalidating, catalog, reading, redirects>>
  BY DEF CommitEdit
<1> PICK r \in ContentType :
      /\ content' = [content EXCEPT ![d] = r]
      /\ r.slug = s /\ r.revision = n /\ r.published = content[d].published
      /\ r.status = "published" => content[d].status = "published" /\ Exists(d)
  <2>1. content[d] \in ContentType
    BY <1>3
  <2>2. CASE edit[e].op = "create"
    <3> DEFINE fresh == [slug |-> s, status |-> "draft", revision |-> 1, version |-> 1,
                         published |-> 0, deleted |-> FALSE]
    <3>1. content[d] = NoDocument
      BY <1>2, <2>2 DEF Exists
    <3>2. n = 1 /\ content[d].published = 0
      BY <3>1 DEF NoDocument
    <3>3. fresh \in ContentType
      BY DocumentsAssumption DEF ContentType
    <3>4. content' = [content EXCEPT ![d] = fresh]
      BY <2>2 DEF CommitEdit
    <3> QED BY <3>2, <3>3, <3>4
  <2>3. CASE edit[e].op # "create"
    <3> DEFINE moved == [content[d] EXCEPT !.slug = s, !.revision = n]
               saved == [moved EXCEPT !.version = content[d].version + 1]
    <3>1. Exists(d)
      BY <1>2, <2>3
    <3>2. /\ moved \in ContentType /\ moved.slug = s /\ moved.revision = n
          /\ moved.published = content[d].published /\ moved.status = content[d].status
      <4>1. n \in 0..MaxDocRevision
        BY DocumentsAssumption
      <4> QED BY <2>1, <4>1 DEF ContentType
    <3>3. content' = [content EXCEPT ![d] = saved]
      BY <2>3 DEF CommitEdit
    <3> HIDE DEF moved
    <3>4. /\ saved \in ContentType /\ saved.slug = s /\ saved.revision = n
          /\ saved.published = content[d].published /\ saved.status = content[d].status
      <4>1. content[d].version + 1 \in Nat
        BY <2>1 DEF ContentType
      <4> QED BY <3>2, <4>1 DEF ContentType
    <3> HIDE DEF saved
    <3> QED BY <3>1, <3>3, <3>4
  <2> QED BY <2>2, <2>3
<1>6. content'[d] = r /\ \A x \in Docs \ {d} : content'[x] = content[x]
  BY <1>3
<1>7. r # NoDocument /\ Exists(d)'
  BY <1>6, DocumentsAssumption DEF NoDocument, Exists
<1>8. \A x \in Docs : Exists(x) => Exists(x)'
  BY <1>6, <1>7 DEF Exists
<1>9. /\ revisionSlug'[d][n] = s
      /\ \A m \in 1..MaxDocRevision : m # n => revisionSlug'[d][m] = revisionSlug[d][m]
      /\ \A x \in Docs \ {d} : revisionSlug'[x] = revisionSlug[x]
  BY <1>1, <1>2, <1>3
<1>10. \/ routes[s] = NoRoute /\ routes'[s] = [doc |-> d, state |-> "reserved"]
       \/ /\ routes[s].doc = d /\ routes[s].state \in {"reserved", "canonical"}
          /\ routes'[s] = routes[s]
  BY <1>1, <1>2, <1>3, DocumentsAssumption DEF MayReserve, NoRoute
<1>11. \A t \in Slugs \ {s} : routes'[t] = routes[t]
  BY <1>1, <1>3
<1>12. \A t \in Slugs : routes[t] # NoRoute => routes'[t] = routes[t]
  BY <1>10, <1>11
<1>13. edit'[e] = NoEdit /\ \A f \in Editors \ {e} : edit'[f] = edit[f]
  BY <1>1, <1>3
<1>14. DocumentsTypeOK'
  <2>1. content' \in [Docs -> ContentType] /\ \A x \in Docs : content'[x].published <= content'[x].revision
    BY <1>2, <1>3, <1>6, DocumentsAssumption DEF ContentType
  <2>2. revisionSlug' \in [Docs -> [1..MaxDocRevision -> Slugs \cup {NoSlug}]]
    BY <1>1, <1>2, <1>3
  <2>3. routes' \in [Slugs -> RouteType]
    BY <1>1, <1>2, <1>3 DEF RouteType
  <2>4. edit' \in [Editors -> EditType]
    BY <1>1, <1>3 DEF NoEdit, EditType
  <2> QED BY <1>1, <2>1, <2>2, <2>3, <2>4 DEF DocumentsInv, DocumentsTypeOK, EditType
<1>15. \A x \in Docs : CanonicalOf(x)' = CanonicalOf(x)
  <2> TAKE x \in Docs
  <2>1. \A t \in Slugs : routes'[t] = [doc |-> x, state |-> "canonical"]
                     <=> routes[t] = [doc |-> x, state |-> "canonical"]
    BY <1>10, <1>11, DocumentsAssumption DEF NoRoute
  <2> QED BY <2>1 DEF CanonicalOf
<1>16. RowsInv'
  <2>1. ASSUME NEW x \in Docs, Exists(x)'
        PROVE  /\ content'[x].slug \in Slugs /\ content'[x].revision >= 1
               /\ revisionSlug'[x][content'[x].revision] = content'[x].slug
               /\ AddressAllows(x)'
               /\ content'[x].status = "published" => content'[x].published # 0
               /\ IF content'[x].published = 0
                  THEN \A t \in Slugs : routes'[t].doc = x => routes'[t].state = "reserved"
                  ELSE CanonicalOf(x)' = {PublishedSlug(x)'}
    <3>1. CASE x = d
      <4>1. AddressAllows(d)'
        <5>1. routes'[s] = [doc |-> d, state |-> "reserved"] \/ s \in CanonicalOf(d)'
          <6>1. CASE routes'[s] = [doc |-> d, state |-> "reserved"]
            BY <6>1
          <6>2. CASE routes[s].doc = d /\ routes[s].state = "reserved" /\ routes'[s] = routes[s]
            <7>1. routes[s] \in RouteType /\ [doc |-> d, state |-> "reserved"] \in RouteType
              BY <1>3 DEF RouteType
            <7> QED BY <6>2, <7>1, RoutesAreRecords
          <6>3. CASE routes[s].doc = d /\ routes[s].state = "canonical"
            <7>1. routes[s] \in RouteType /\ [doc |-> d, state |-> "canonical"] \in RouteType
              BY <1>3 DEF RouteType
            <7>2. s \in CanonicalOf(d)
              BY <6>3, <7>1, RoutesAreRecords DEF CanonicalOf
            <7> QED BY <1>15, <7>2
          <6> QED BY <1>10, <6>1, <6>2, <6>3
        <5> QED BY <1>6, <5>1 DEF AddressAllows
      <4>2. content'[d].status = "published" => content'[d].published # 0
        BY <1>2, <1>6 DEF DocumentsInv, RowsInv
      <4>3. ASSUME content'[d].published = 0, NEW t \in Slugs, routes'[t].doc = d
            PROVE  routes'[t].state = "reserved"
        <5>1. CASE routes[t] = NoRoute
          BY <1>2, <1>10, <1>11, <4>3, <5>1, DocumentsAssumption DEF NoRoute
        <5>2. CASE routes[t] # NoRoute
          <6>1. Exists(d) /\ routes[t].doc = d /\ content[d].published = 0
            BY <1>6, <1>12, <4>3, <5>2 DEF DocumentsInv, RowsInv
          <6> QED BY <1>2, <1>12, <5>2, <6>1 DEF DocumentsInv, RowsInv
        <5> QED BY <5>1, <5>2
      <4>4. ASSUME content'[d].published # 0
            PROVE  CanonicalOf(d)' = {PublishedSlug(d)'}
        <5>1. content[d].published # 0 /\ content'[d].published = content[d].published
          BY <1>6, <4>4
        <5>2. Exists(d)
          BY <5>1 DEF Exists, NoDocument
        <5>3. content[d].published \in 1..MaxDocRevision /\ content[d].published # n
          BY <1>2, <1>3, <5>1, DocumentsAssumption DEF ContentType
        <5>4. PublishedSlug(d)' = PublishedSlug(d)
          BY <1>9, <5>1, <5>3 DEF PublishedSlug
        <5> QED BY <1>2, <1>15, <5>1, <5>2, <5>4 DEF DocumentsInv, RowsInv
      <4> QED BY <1>2, <1>6, <1>9, <3>1, <4>1, <4>2, <4>3, <4>4
    <3>2. CASE x # d
      <4>1. Exists(x) /\ content'[x] = content[x] /\ revisionSlug'[x] = revisionSlug[x]
        BY <1>6, <1>9, <2>1, <3>2 DEF Exists
      <4>2. content[x].slug \in Slugs /\ AddressAllows(x)
        BY <4>1 DEF DocumentsInv, RowsInv
      <4>3. AddressAllows(x)'
        <5>1. CASE content[x].slug \in CanonicalOf(x)
          BY <1>15, <4>1, <5>1 DEF AddressAllows
        <5>2. CASE content[x].slug \notin CanonicalOf(x)
          <6>1. routes[content[x].slug] = [doc |-> x, state |-> "reserved"]
            BY <4>2, <5>2 DEF AddressAllows
          <6>2. routes'[content[x].slug] = routes[content[x].slug]
            BY <1>12, <4>2, <6>1 DEF NoRoute
          <6> QED BY <4>1, <6>1, <6>2 DEF AddressAllows
        <5> QED BY <5>1, <5>2
      <4>4. \A t \in Slugs : routes'[t].doc = x => routes'[t] = routes[t]
        BY <1>10, <1>11, <3>2
      <4>5. PublishedSlug(x)' = PublishedSlug(x)
        BY <4>1 DEF PublishedSlug
      <4> QED BY <1>15, <4>1, <4>3, <4>4, <4>5 DEF DocumentsInv, RowsInv
    <3> QED BY <3>1, <3>2
  <2>2. ASSUME NEW t \in Slugs, routes'[t] # NoRoute
        PROVE  routes'[t].state # "free" /\ routes'[t].doc \in Docs /\ Exists(routes[t].doc)'
    <3>1. CASE routes[t] = NoRoute
      <4>1. routes'[t] = [doc |-> d, state |-> "reserved"]
        BY <1>10, <1>11, <2>2, <3>1
      <4>2. Exists(routes[t].doc)' <=> content'[routes'[t].doc] # NoDocument
        BY DEF Exists
      <4> QED BY <1>2, <1>6, <1>7, <4>1, <4>2
    <3>2. CASE routes[t] # NoRoute
      <4>1. routes'[t] = routes[t]
        BY <1>12, <3>2
      <4>2. Exists(routes[t].doc)' <=> content'[routes[t].doc] # NoDocument
        BY <4>1 DEF Exists
      <4>3. routes[t].state # "free" /\ routes[t].doc \in Docs /\ Exists(routes[t].doc)
        BY <3>2 DEF DocumentsInv, RowsInv
      <4> QED BY <1>8, <4>1, <4>2, <4>3 DEF Exists
    <3> QED BY <3>1, <3>2
  <2>3. \A t \in Slugs : Exists(routes[t].doc)' <=> content'[routes'[t].doc] # NoDocument
    BY DEF Exists
  <2> QED BY <2>1, <2>2, <2>3 DEF RowsInv, Exists, CanonicalOf, PublishedSlug
<1>17. EditsInv'
  <2>1. ~Pending(e)'
    BY <1>13 DEF Pending, NoEdit
  <2>2. \A f \in Editors \ {e} : Pending(f)' <=> Pending(f)
    BY <1>13 DEF Pending
  <2>3. \A f \in Editors \ {e} : \A t \in Slugs : TakesRoute(f, t)' => TakesRoute(f, t)
    BY <1>12, <1>13 DEF TakesRoute
  <2>4. ASSUME NEW f \in Editors, Pending(f)'
        PROVE  /\ edit'[f].doc \in Docs /\ edit'[f].slug \in Slugs
               /\ \/ edit'[f].op = "create" /\ ~(content'[edit'[f].doc] # NoDocument)
                  \/ /\ edit'[f].op = "save" /\ content'[edit'[f].doc] # NoDocument
                     /\ content'[edit'[f].doc].revision < MaxDocRevision
               /\ edit'[f].step \in {"reserved", "saved"} =>
                    \/ routes'[edit'[f].slug] = NoRoute
                    \/ /\ routes'[edit'[f].slug].doc = edit'[f].doc
                       /\ routes'[edit'[f].slug].state \in {"reserved", "canonical"}
    <3>1. f # e /\ Pending(f) /\ edit'[f] = edit[f] /\ edit[f].doc # d
      BY <1>2, <1>13, <2>1, <2>2, <2>4
    <3>2. content'[edit[f].doc] = content[edit[f].doc]
      BY <1>6, <3>1 DEF DocumentsInv, EditsInv
    <3>3. edit[f].doc \in Docs /\ edit[f].slug \in Slugs
      BY <3>1 DEF DocumentsInv, EditsInv
    <3>4. ASSUME edit[f].step \in {"reserved", "saved"}
          PROVE  \/ routes'[edit[f].slug] = NoRoute
                 \/ /\ routes'[edit[f].slug].doc = edit[f].doc
                    /\ routes'[edit[f].slug].state \in {"reserved", "canonical"}
      <4>1. MayReserve(edit[f].doc, edit[f].slug)
        BY <3>1, <3>4 DEF DocumentsInv, EditsInv
      <4>2. CASE routes[edit[f].slug] = NoRoute
        <5>1. TakesRoute(f, edit[f].slug)
          BY <3>4, <4>2 DEF TakesRoute
        <5>2. edit[f].slug # s
          BY <1>0, <1>2, <3>1, <3>3, <4>2, <5>1 DEF TakesRoute
        <5> QED BY <1>11, <3>3, <4>2, <5>2
      <4>3. CASE routes[edit[f].slug] # NoRoute
        BY <1>12, <3>3, <4>1, <4>3 DEF MayReserve
      <4> QED BY <4>2, <4>3
    <3>5. \/ edit[f].op = "create" /\ ~Exists(edit[f].doc)
          \/ /\ edit[f].op = "save" /\ Exists(edit[f].doc)
             /\ content[edit[f].doc].revision < MaxDocRevision
      BY <3>1 DEF DocumentsInv, EditsInv
    <3> QED BY <3>1, <3>2, <3>3, <3>4, <3>5 DEF Exists
  <2>5. \A f, g \in Editors : f # g /\ Pending(f)' /\ Pending(g)' =>
          /\ edit'[f].doc # edit'[g].doc
          /\ \A t \in Slugs : ~(TakesRoute(f, t)' /\ TakesRoute(g, t)')
    BY <1>13, <2>1, <2>2, <2>3 DEF DocumentsInv, EditsInv
  <2>6. \A f \in Editors : editor'[f].doc \in Docs => content'[editor'[f].doc] # NoDocument
    BY <1>1, <1>8 DEF DocumentsInv, EditsInv, Exists
  <2> QED BY <2>4, <2>5, <2>6 DEF EditsInv, Exists, MayReserve
<1>18. LinksInv'
  <2>1. \A t \in Slugs : routes[t].state \in {"canonical", "alias"} => routes'[t] = routes[t]
    BY <1>12 DEF NoRoute
  <2>2. RowLinks' = RowLinks
    <3>1. \A t \in Slugs : routes'[t].state \in {"canonical", "alias"} => routes'[t] = routes[t]
      BY <1>10, <1>11
    <3> QED BY <2>1, <3>1 DEF RowLinks
  <2>3. AllLinks' = AllLinks
    BY <1>1, <2>2 DEF AllLinks, Links
  <2>4. NoCircle(AllLinks') /\ redirects \subseteq Slugs \X Slugs
    BY <2>3 DEF DocumentsInv, LinksInv, DocumentsTypeOK
  <2> QED BY <1>1, <2>1, <2>4, AddressesKept DEF DocumentsInv
<1> QED BY <1>14, <1>16, <1>17, <1>18 DEF DocumentsInv
-----------------------------------------------------------------------------
\* A catalog that is kept, dropped or stored holds no link that was not known.
LEMMA CachesKept ==
  ASSUME DocumentsInv, UNCHANGED <<content, revisionSlug, routes, edit, editor, redirects>>,
         invalidating' \subseteq invalidating,
         catalog' \in {catalog, reading, NoCatalog}, reading' \in {reading, NoCatalog}
  PROVE  DocumentsInv'
<1>1. /\ NoCatalog \in CatalogType
      /\ \A s \in Slugs : NoCatalog[s].kind = "unknown"
  BY DEF NoCatalog, NoEntry, CatalogType
<1>2. DocumentsTypeOK'
  <2>1. catalog' \in CatalogType /\ reading' \in CatalogType
    BY <1>1 DEF DocumentsInv, DocumentsTypeOK
  <2> QED BY <2>1 DEF DocumentsInv, DocumentsTypeOK
<1>3. EditsInv'
  BY DEF DocumentsInv, EditsInv, Exists, Pending, MayReserve, TakesRoute
<1>4. LinksInv'
  <2>1. Links(NoCatalog) = {}
    BY <1>1 DEF Links
  <2>2. Links(catalog') \in {Links(catalog), Links(reading), {}}
        /\ Links(reading') \in {Links(reading), {}}
    BY <2>1
  <2>3. AllLinks' \subseteq AllLinks
    <3>1. RowLinks' = RowLinks
      BY DEF RowLinks
    <3>2. AllLinks' = redirects \cup Links(catalog') \cup Links(reading') \cup RowLinks
      BY <3>1 DEF AllLinks, Links
    <3> QED BY <2>2, <3>2 DEF AllLinks
  <2>4. NoCircle(AllLinks')
    BY <2>3, LinksKept DEF DocumentsInv, LinksInv
  <2>5. AddressesStay'
    BY <1>1 DEF DocumentsInv, LinksInv, AddressesStay
  <2>6. \A c \in {catalog', reading'} : \A s \in Slugs : c[s].kind = "alias" =>
          /\ c[s].canonical \in Slugs /\ routes[c[s].canonical].state \in {"canonical", "alias"}
          /\ routes[c[s].canonical].doc = routes[s].doc
    BY <1>1 DEF DocumentsInv, LinksInv
  <2>7. NoCircle(AllLinks)'
    BY <2>4 DEF NoCircle
  <2> QED BY <2>5, <2>6, <2>7 DEF LinksInv
<1> QED BY <1>2, <1>3, <1>4, RowsStay DEF DocumentsInv

\* The catalog that is read links each alias to the canonical address of its document.
LEMMA ReadKeeps ==
  ASSUME DocumentsInv, ReadCatalog
  PROVE  DocumentsInv'
<1>1. /\ reading' = CatalogOfRows /\ \A d \in Public : Consistent(d)
      /\ UNCHANGED <<content, revisionSlug, routes, edit, editor, invalidating, catalog, redirects>>
  BY DEF ReadCatalog
<1>2. /\ content \in [Docs -> ContentType] /\ routes \in [Slugs -> RouteType]
      /\ revisionSlug \in [Docs -> [1..MaxDocRevision -> Slugs \cup {NoSlug}]]
  BY DEF DocumentsInv, DocumentsTypeOK
<1>3. \A d \in Public : d \in Docs /\ PublishedSlug(d) \in Slugs \cup {NoSlug}
  <2> TAKE d \in Public
  <2>1. d \in Docs /\ content[d].published \in 0..MaxDocRevision /\ content[d].published # 0
    BY <1>2 DEF Public, ContentType
  <2>2. content[d].published \in 1..MaxDocRevision
    BY <2>1, DocumentsAssumption
  <2> QED BY <1>2, <2>1, <2>2 DEF PublishedSlug
<1>4. CatalogOfRows \in CatalogType
  <2>1. \A s \in Slugs : routes[s].doc \in Public =>
          [kind |-> routes[s].state, doc |-> routes[s].doc,
           canonical |-> PublishedSlug(routes[s].doc)]
            \in [kind : {"unknown", "missing", "free", "reserved", "canonical", "alias"},
                 doc : Docs \cup {NoSlug}, canonical : Slugs \cup {NoSlug}]
    BY <1>2, <1>3 DEF RouteType
  <2>2. NoEntry \in [kind : {"unknown", "missing", "free", "reserved", "canonical", "alias"},
                     doc : Docs \cup {NoSlug}, canonical : Slugs \cup {NoSlug}]
    BY DEF NoEntry
  <2> QED BY <2>1, <2>2 DEF CatalogOfRows, CatalogType
<1>5. \A s \in Slugs : CatalogOfRows[s].kind \in {"canonical", "alias"} =>
        /\ routes[s].doc \in Public /\ CatalogOfRows[s].kind = routes[s].state
        /\ CatalogOfRows[s].doc = routes[s].doc
        /\ CatalogOfRows[s].canonical = PublishedSlug(routes[s].doc)
  BY DEF CatalogOfRows, NoEntry
<1>6. \A d \in Public : /\ PublishedSlug(d) \in Slugs
                        /\ routes[PublishedSlug(d)] = [doc |-> d, state |-> "canonical"]
  BY <1>1 DEF Consistent, CanonicalOf
<1>10. ASSUME NEW s \in Slugs, CatalogOfRows[s].kind = "alias"
       PROVE  /\ CatalogOfRows[s].canonical \in Slugs /\ routes[s].state = "alias"
              /\ routes[CatalogOfRows[s].canonical].state = "canonical"
              /\ routes[CatalogOfRows[s].canonical].doc = routes[s].doc
  <2> DEFINE d == routes[s].doc
  <2>1. /\ d \in Public /\ routes[s].state = "alias"
        /\ CatalogOfRows[s].canonical = PublishedSlug(d)
    BY <1>5, <1>10
  <2>2. PublishedSlug(d) \in Slugs /\ routes[PublishedSlug(d)] = [doc |-> d, state |-> "canonical"]
    BY <1>6, <2>1
  <2> QED BY <2>1, <2>2
<1>7. DocumentsTypeOK'
  BY <1>1, <1>4 DEF DocumentsInv, DocumentsTypeOK
<1>8. EditsInv'
  BY <1>1 DEF DocumentsInv, EditsInv, Exists, Pending, MayReserve, TakesRoute
<1>9. LinksInv'
  <2>1. Links(CatalogOfRows) \subseteq RowLinks
    <3> SUFFICES ASSUME NEW s \in Slugs, CatalogOfRows[s].kind = "alias"
                 PROVE  <<s, CatalogOfRows[s].canonical>> \in RowLinks
      BY DEF Links
    <3> QED BY <1>10 DEF RowLinks
  <2>2. AllLinks' \subseteq AllLinks
    <3>1. AllLinks' = redirects \cup Links(catalog) \cup Links(CatalogOfRows) \cup RowLinks
      BY <1>1 DEF AllLinks, Links, RowLinks
    <3> QED BY <2>1, <3>1 DEF AllLinks
  <2>3. NoCircle(AllLinks)'
    <3>1. NoCircle(AllLinks')
      BY <2>2, LinksKept DEF DocumentsInv, LinksInv
    <3> QED BY <3>1 DEF NoCircle
  <2>4. AddressesStay'
    BY <1>1, <1>5 DEF DocumentsInv, LinksInv, AddressesStay
  <2>5. \A c \in {catalog, CatalogOfRows} : \A s \in Slugs : c[s].kind = "alias" =>
          /\ c[s].canonical \in Slugs /\ routes[c[s].canonical].state \in {"canonical", "alias"}
          /\ routes[c[s].canonical].doc = routes[s].doc
    BY <1>10 DEF DocumentsInv, LinksInv
  <2> QED BY <1>1, <2>3, <2>4, <2>5 DEF LinksInv
<1> QED BY <1>1, <1>7, <1>8, <1>9, RowsStay DEF DocumentsInv

\* A browser remembers a link the catalog holds.
LEMMA VisitKeeps ==
  ASSUME DocumentsInv, NEW s \in Slugs, VisitAlias(s)
  PROVE  DocumentsInv'
<1>1. /\ catalog[s].kind = "alias"
      /\ redirects' = redirects \cup {<<s, catalog[s].canonical>>}
      /\ UNCHANGED <<content, revisionSlug, routes, edit, editor, invalidating, catalog, reading>>
  BY DEF VisitAlias
<1>2. /\ catalog[s].canonical \in Slugs /\ routes[s].state = "alias"
      /\ routes[catalog[s].canonical].state \in {"canonical", "alias"}
      /\ routes[catalog[s].canonical].doc = routes[s].doc
  BY <1>1 DEF DocumentsInv, LinksInv, AddressesStay
<1>3. DocumentsTypeOK'
  BY <1>1, <1>2 DEF DocumentsInv, DocumentsTypeOK
<1>4. EditsInv'
  BY <1>1 DEF DocumentsInv, EditsInv, Exists, Pending, MayReserve, TakesRoute
<1>5. LinksInv'
  <2>1. <<s, catalog[s].canonical>> \in Links(catalog)
    BY <1>1 DEF Links
  <2>2. AllLinks' = AllLinks
    <3>1. AllLinks' = redirects' \cup Links(catalog) \cup Links(reading) \cup RowLinks
      BY <1>1 DEF AllLinks, Links, RowLinks
    <3> QED BY <1>1, <2>1, <3>1 DEF AllLinks
  <2>3. AddressesStay'
    <3>1. \A r \in redirects' : /\ routes[r[1]].state = "alias"
                                /\ routes[r[2]].state \in {"canonical", "alias"}
                                /\ routes[r[1]].doc = routes[r[2]].doc
      BY <1>1, <1>2 DEF DocumentsInv, LinksInv, AddressesStay
    <3> QED BY <1>1, <3>1 DEF DocumentsInv, LinksInv, AddressesStay
  <2> QED BY <1>1, <2>2, <2>3 DEF DocumentsInv, LinksInv, NoCircle
<1> QED BY <1>1, <1>3, <1>4, <1>5, RowsStay DEF DocumentsInv

LEMMA DocumentsStepKept ==
  ASSUME DocumentsInv, [DocumentsNext]_docVars
  PROVE  DocumentsInv'
<1>1. CASE UNCHANGED docVars
  <2>1. UNCHANGED <<content, revisionSlug, routes, edit, editor, invalidating, catalog,
                    reading, redirects>>
    BY <1>1 DEF docVars
  <2> QED BY <2>1, CachesKept
<1>2. ASSUME NEW e \in Editors, EditorStep(e)
      PROVE  DocumentsInv'
  <2>1. CASE \E d \in Docs : OpenEditor(e, d)
    BY <2>1, OpenKeeps
  <2>2. CASE \E d \in Docs : PublishDocument(e, d)
    BY <2>2, PublishKeeps
  <2>3. CASE \E d \in Docs : ArchiveDocument(e, d) \/ DeleteDocument(e, d) \/ RestoreDocument(e, d)
    BY <2>3, ArchiveKeeps
  <2>4. CASE \E d \in Docs, s \in Slugs : InsertDocument(e, d, s)
    BY <2>4, InsertKeeps
  <2>5. CASE \E d \in Docs, s \in Slugs : LockForSave(e, d, s)
    BY <2>5, LockKeeps
  <2>6. CASE ReserveSlug(e)
    BY <2>6, ReserveKeeps
  <2>7. CASE SaveDraft(e)
    BY <2>7, SaveKeeps
  <2>8. CASE CommitEdit(e)
    BY <2>8, CommitKeeps
  <2>9. CASE AbortDeadlock(e)
    BY <2>9, RollBackKeeps DEF AbortDeadlock
  <2>10. CASE Invalidate(e)
    <3>1. /\ UNCHANGED <<content, revisionSlug, routes, edit, editor, redirects, reading>>
          /\ invalidating' \subseteq invalidating /\ catalog' \in {NoCatalog, catalog}
      BY <2>10 DEF Invalidate
    <3> QED BY <3>1, CachesKept
  <2> QED BY <1>2, <2>1, <2>2, <2>3, <2>4, <2>5, <2>6, <2>7, <2>8, <2>9, <2>10 DEF EditorStep
<1>3. CASE ReadCatalog
  BY <1>3, ReadKeeps
<1>4. CASE StoreCatalog
  <2>1. /\ UNCHANGED <<content, revisionSlug, routes, edit, editor, redirects, invalidating>>
        /\ catalog' = reading /\ reading' = NoCatalog
    BY <1>4 DEF StoreCatalog
  <2> QED BY <2>1, CachesKept
<1>5. CASE \E s \in Slugs : VisitAlias(s)
  BY <1>5, VisitKeeps
<1> QED BY <1>1, <1>2, <1>3, <1>4, <1>5 DEF DocumentsNext

LEMMA DocumentsInitHolds == DocumentsInit => DocumentsInv
<1> SUFFICES ASSUME DocumentsInit PROVE DocumentsInv
  OBVIOUS
<1>1. /\ NoCatalog \in CatalogType
      /\ \A s \in Slugs : NoCatalog[s].kind = "unknown"
  BY DEF NoCatalog, NoEntry, CatalogType
<1>2. NoDocument \in ContentType /\ NoRoute \in RouteType
  BY DocumentsAssumption DEF NoDocument, NoRoute, ContentType, RouteType
<1>3. DocumentsTypeOK
  <2>1. content \in [Docs -> ContentType] /\ routes \in [Slugs -> RouteType]
        /\ \A d \in Docs : content[d].published <= content[d].revision
    BY <1>2 DEF DocumentsInit, NoDocument
  <2>2. edit \in [Editors -> [step : {"none", "open", "reserved", "saved"},
                              op : {"none", "create", "save"},
                              doc : Docs \cup {NoSlug}, slug : Slugs \cup {NoSlug}]]
    BY DEF DocumentsInit, NoEdit
  <2>3. editor \in [Editors -> [doc : Docs \cup {NoSlug}, revision : 0..MaxDocRevision,
                                version : Nat]]
    BY DocumentsAssumption DEF DocumentsInit, NoPage
  <2> QED BY <1>1, <2>1, <2>2, <2>3 DEF DocumentsInit, DocumentsTypeOK
<1>4. RowsInv
  BY DEF DocumentsInit, RowsInv, Exists
<1>5. EditsInv
  BY DocumentsAssumption DEF DocumentsInit, EditsInv, Pending, NoEdit, NoPage
<1>6. LinksInv
  <2>1. AllLinks = {}
    BY <1>1 DEF DocumentsInit, AllLinks, Links, RowLinks, NoRoute
  <2> QED BY <1>1, <2>1 DEF DocumentsInit, LinksInv, AddressesStay, NoCircle
<1> QED BY <1>3, <1>4, <1>5, <1>6 DEF DocumentsInv

\* Rows, addresses, transactions under way and links fit together, however the
\* statements of the editors interleave.
THEOREM DocumentsInvariant == DocumentsSpec => []DocumentsInv
<1>1. DocumentsInit => DocumentsInv
  BY DocumentsInitHolds
<1>2. DocumentsInv /\ [DocumentsNext]_docVars => DocumentsInv'
  BY DocumentsStepKept
<1> QED BY <1>1, <1>2, PTL DEF DocumentsSpec

\* The shape of the tables and caches of the documentation.
THEOREM DocumentsTypesCorrect == DocumentsSpec => []DocumentsTypeOK
<1>1. DocumentsInv => DocumentsTypeOK
  BY DEF DocumentsInv
<1> QED BY <1>1, DocumentsInvariant, PTL

\* What is published can be served: its address is the canonical one of the
\* revision that is shown.
THEOREM CatalogCorrect == DocumentsSpec => []CatalogIsServable
<1>1. DocumentsInv => CatalogIsServable
  <2> SUFFICES ASSUME DocumentsInv PROVE CatalogIsServable
    OBVIOUS
  <2>1. ASSUME NEW d \in Public PROVE Consistent(d)
    <3>1. d \in Docs /\ content[d].status = "published" /\ content[d].published # 0
      BY DEF Public
    <3>2. Exists(d)
      BY <3>1 DEF Exists, NoDocument
    <3> QED BY <3>1, <3>2 DEF DocumentsInv, RowsInv, Consistent
  <2>2. \A d \in Docs : content[d] # NoDocument => AddressAllows(d)
    BY DEF DocumentsInv, RowsInv, Exists
  <2> QED BY <2>1, <2>2 DEF CatalogIsServable
<1> QED BY <1>1, DocumentsInvariant, PTL

\* An address that was public once leads to the document in finitely many
\* redirects: the links that browsers and caches keep form no circle.
THEOREM LinksCorrect == DocumentsSpec => []OldLinksArrive
<1>1. DocumentsInv => OldLinksArrive
  <2> SUFFICES ASSUME DocumentsInv PROVE OldLinksArrive
    OBVIOUS
  <2>1. ASSUME NEW from \in (SUBSET Slugs) \ {{}} PROVE ~(from \subseteq Follow(from))
    <3>1. PICK s \in from : \A t \in from : <<t, s>> \notin AllLinks
      BY DEF DocumentsInv, LinksInv, NoCircle
    <3>2. \A r \in redirects : r \in Slugs \X Slugs /\ r = <<r[1], r[2]>>
      BY DEF DocumentsInv, DocumentsTypeOK
    <3>3. s \notin Follow(from)
      BY <3>1, <3>2 DEF Follow, AllLinks
    <3> QED BY <3>3
  <2> QED BY <2>1 DEF DocumentsInv, LinksInv, OldLinksArrive
<1> QED BY <1>1, DocumentsInvariant, PTL

-----------------------------------------------------------------------------
(* DownloadResources: the inductive invariant                               *)

Parts == Slots \cup {"cover"}
ResourceRow == [kind : Kinds, state : {"absent", "unpublished", "published", "downline"},
                published : Nat, draft : Nat, version : Nat]
ArtifactRow == [revision : Nat, slot : Slots, key : Nat]
RequestPcs == {"idle", "reading", "receiving", "staged", "storing", "waiting", "working",
               "cleaning", "removing", "releasing", "compensating", "refused", "answering"}
RequestType ==
  [pc : RequestPcs, op : {"none", "save", "upload", "publish", "downline", "discard", "remove"},
   slot : Slots \cup {"none"}, id : Nat, pending : SUBSET Nat, files : SUBSET (Nat \X Parts),
   aborted : BOOLEAN, failed : BOOLEAN,
   result : [row : ResourceRow, slots : SUBSET Slots]]

\* The values of the variables, with unbounded identifiers.
DownloadsShape ==
  /\ resource \in ResourceRow
  /\ artifacts \in SUBSET ArtifactRow
  /\ objects \in SUBSET (Nat \X Parts)
  /\ stages \in SUBSET ((Tabs \cup {Nobody}) \X {"file", "cover"})
  /\ request \in [Tabs -> RequestType]
  /\ page \in [Tabs -> [row : ResourceRow, slots : SUBSET Slots]]
  /\ \A t \in Tabs : request[t].pc # "idle" => page[t].row.version > 0
  /\ issued \in Nat

\* Identifiers are given out in order, and the pointers of the resource are
\* two of its revisions, which are not marked.
RevisionsInv ==
  /\ revisions = cleanupPending \cup ({resource.draft, resource.published} \ {None})
  /\ resource.draft \notin cleanupPending /\ resource.published \notin cleanupPending
  /\ resource.draft = resource.published => resource.draft = None
  /\ resource.state = "absent" =>
       resource.draft = None /\ resource.published = None /\ resource.version = 0
  /\ \A r \in revisions : r \in 1..issued
  /\ \A a \in artifacts : a.revision \in revisions /\ a.key \in 1..issued
  /\ \A f \in objects : f[1] \in 1..issued
  /\ \A r \in unanswered : r \in 1..issued

\* What a request has done is seen from where it stands.
Done(q) == q.result.row.version > 0
FlowOk(q) ==
  /\ q.pc \in {"reading", "receiving", "staged", "storing", "compensating"} => q.op = "upload"
  /\ q.op = "upload" => q.slot \in Slots
  /\ q.op = "upload" /\ q.pc \in {"storing", "waiting", "working"} => q.id # None
  /\ q.id # None => /\ q.op = "upload"
                    /\ q.pc \notin {"idle", "reading", "receiving", "staged"}
  /\ Done(q) => q.pc \in {"cleaning", "removing", "releasing", "answering", "refused"}
  /\ q.pc \in {"cleaning", "removing", "answering"} => Done(q)
  /\ q.pc = "releasing" => q.failed \/ Done(q)
FlowInv ==
  \A t \in Tabs : /\ FlowOk(request[t])
                  /\ request[t].id \in 0..issued
                  /\ \A p \in request[t].pending : p \in 1..issued
                  /\ \A f \in request[t].files : f[1] \in 1..issued

\* An upload that has not committed shares its identifier with nothing else.
Own(q) == q.id # None /\ ~Done(q) /\ q.id \notin unanswered
Sole(q) == /\ q.id \notin revisions
           /\ \A a \in artifacts : a.key # q.id
           /\ \A u \in Tabs : /\ q.id \notin request[u].pending
                              /\ \A f \in request[u].files : f[1] # q.id
           /\ \A f \in objects : f[1] = q.id => f[2] \in PartsOf(q.slot)
OwnInv ==
  /\ \A t, u \in Tabs : t # u /\ request[t].id = request[u].id => request[t].id = None
  /\ \A t \in Tabs :
       /\ request[t].id # None /\ ~Done(request[t])
            /\ request[t].pc \in {"storing", "waiting", "working", "releasing"} => Own(request[t])
       /\ Own(request[t]) => Sole(request[t])

\* The files of an upload are staged, then stored, and stay until it commits.
\* A compensation leaves the object of a stage alone, so that there is none or
\* it was given up.
StagesOk(t, q) ==
  /\ \A s \in stages : s[1] = t =>
       q.pc \in {"receiving", "staged", "storing", "compensating", "refused"}
  /\ q.pc \in {"receiving", "staged"} => <<t, "file">> \in stages /\ <<t, "cover">> \notin stages
  /\ q.pc = "storing" =>
       /\ <<t, "file">> \in stages \/ <<q.id, q.slot>> \in objects
       /\ <<t, "cover">> \in stages => q.slot = "document"
       /\ q.slot = "document" => <<t, "cover">> \in stages \/ <<q.id, "cover">> \in objects
       /\ <<t, "file">> \in stages => <<q.id, "cover">> \notin objects
  /\ q.pc = "compensating" /\ q.id \notin abandoned =>
       /\ <<t, "file">> \in stages => <<q.id, q.slot>> \notin objects
       /\ <<t, "cover">> \in stages => <<q.id, "cover">> \notin objects
  /\ q.op = "upload" /\ q.pc \in {"waiting", "working"} =>
       {q.id} \X PartsOf(q.slot) \subseteq objects
  /\ q.pc = "refused" /\ q.id # None /\ ~Done(q) =>
       \A f \in objects : f[1] = q.id => f[1] \in abandoned
StagesInv == \A t \in Tabs : StagesOk(t, request[t])

\* What a cleanup works on: revisions that nobody can publish any more, and
\* files that no other row names.
Cleaning(q) == q.pc \in {"cleaning", "removing"}
NextOf(q) == CHOOSE f \in q.files : TRUE
CleanOk(q) ==
  /\ Cleaning(q) =>
       /\ q.pending \cap revisions \subseteq cleanupPending
       /\ \A a \in artifacts : a.revision \in q.pending =>
            \A f \in FilesOf(a) \cap objects : f \in q.files \/ References(f, q.pending) # {}
  /\ q.pc = "removing" =>
       /\ q.files # {}
       /\ \A a \in artifacts : a.revision \notin cleanupPending => NextOf(q) \notin FilesOf(a)
CleanupInv ==
  /\ \A t \in Tabs : CleanOk(request[t])
  /\ \A t, u \in Tabs : Cleaning(request[t]) /\ Cleaning(request[u]) =>
       \/ request[t].pending \cap revisions \subseteq request[u].pending
       \/ request[u].pending \cap revisions \subseteq request[t].pending

\* Every file has a reason to be there.
ObjectsInv ==
  \A f \in objects :
    \/ \E a \in artifacts : f \in FilesOf(a)
    \/ f[1] \in abandoned
    \/ \E t \in Tabs : request[t].id = f[1] /\ ~Done(request[t])

DownloadsInv == /\ DownloadsShape /\ RevisionsInv /\ FlowInv /\ OwnInv
                /\ StagesInv /\ CleanupInv /\ ObjectsInv /\ LiveFilesExist

-----------------------------------------------------------------------------
\* A step of one request that leaves the rows and the files alone.
LEMMA RequestKeeps ==
  ASSUME DownloadsInv, NEW t \in Tabs, NEW q \in RequestType,
         request' = [request EXCEPT ![t] = q],
         UNCHANGED <<resource, revisions, cleanupPending, artifacts, objects, issued, unanswered>>,
         abandoned \subseteq abandoned',
         page' \in [Tabs -> [row : ResourceRow, slots : SUBSET Slots]],
         \A u \in Tabs \ {t} : page'[u] = page[u],
         q.pc # "idle" => page'[t].row.version > 0,
         stages' \in SUBSET ((Tabs \cup {Nobody}) \X {"file", "cover"}),
         \A s \in Tabs \X {"file", "cover"} : s[1] # t => (s \in stages' <=> s \in stages),
         FlowOk(q),
         q.id \in {None, request[t].id},
         q.id # None => q.result = request[t].result /\ q.slot = request[t].slot,
         q.id # None /\ ~Done(q) /\ q.pc \in {"storing", "waiting", "working", "releasing"} => Own(q),
         q.pending \subseteq request[t].pending, q.files \subseteq request[t].files,
         StagesOk(t, q)',
         CleanOk(q), Cleaning(q) => Cleaning(request[t]),
         Cleaning(q) => q.pending = request[t].pending,
         request[t].id # None /\ ~Done(request[t]) /\ q.id = None =>
           \A f \in objects : f[1] = request[t].id => f[1] \in abandoned'
  PROVE  DownloadsInv'
<1>1. request'[t] = q /\ \A u \in Tabs \ {t} : request'[u] = request[u]
  BY DEF DownloadsInv, DownloadsShape
<1>2. DownloadsShape'
  BY <1>1 DEF DownloadsInv, DownloadsShape
<1>3. RevisionsInv'
  BY DEF DownloadsInv, RevisionsInv
<1>4. FlowInv'
  <2>1. /\ q.id \in 0..issued
        /\ \A p \in q.pending : p \in 1..issued
        /\ \A f \in q.files : f[1] \in 1..issued
    BY DEF DownloadsInv, DownloadsShape, FlowInv, None
  <2> QED BY <1>1, <2>1 DEF DownloadsInv, FlowInv
<1>5. OwnInv'
  <2>1. \A u, v \in Tabs : u # v /\ request'[u].id = request'[v].id => request'[u].id = None
    BY <1>1 DEF DownloadsInv, OwnInv
  <2>2. \A u \in Tabs : /\ request'[u].pending \subseteq request[u].pending
                        /\ request'[u].files \subseteq request[u].files
    BY <1>1
  <2>3. ASSUME NEW u \in Tabs, Own(request[u])'
        PROVE  Sole(request[u])'
    <3>1. Own(request[u]) /\ request'[u].id = request[u].id /\ request'[u].slot = request[u].slot
      BY <1>1, <2>3 DEF Own, Done
    <3>2. Sole(request[u])
      BY <3>1 DEF DownloadsInv, OwnInv
    <3> QED BY <2>2, <3>1, <3>2 DEF Sole
  <2>4. ASSUME NEW u \in Tabs, request'[u].id # None, ~Done(request[u])',
               request'[u].pc \in {"storing", "waiting", "working", "releasing"}
        PROVE  Own(request[u])'
    <3>1. CASE u = t
      BY <1>1, <2>4, <3>1 DEF Own, Done
    <3>2. CASE u # t
      BY <1>1, <2>4, <3>2 DEF DownloadsInv, OwnInv, Own, Done
    <3> QED BY <3>1, <3>2
  <2> QED BY <2>1, <2>3, <2>4 DEF OwnInv
<1>6. StagesInv'
  <2> SUFFICES ASSUME NEW u \in Tabs PROVE StagesOk(u, request[u])'
    BY DEF StagesInv
  <2>1. CASE u = t
    BY <1>1, <2>1 DEF StagesOk, Done
  <2>2. CASE u # t
    <3>1. StagesOk(u, request[u]) /\ request'[u] = request[u]
      BY <1>1, <2>2 DEF DownloadsInv, StagesInv
    <3>2. \A s \in stages' : s[1] = u => s \in stages
      BY <2>2
    <3>3. \A p \in {"file", "cover"} : <<u, p>> \in stages' <=> <<u, p>> \in stages
      BY <2>2
    <3> QED BY <3>1, <3>2, <3>3 DEF StagesOk, Done
  <2> QED BY <2>1, <2>2
<1>7. CleanupInv'
  <2>1. \A u \in Tabs : CleanOk(request[u])'
    BY <1>1 DEF DownloadsInv, CleanupInv, CleanOk, Cleaning, NextOf, References, FilesOf
  <2>2. \A u \in Tabs : Cleaning(request[u])' =>
          Cleaning(request[u]) /\ request'[u].pending = request[u].pending
    BY <1>1 DEF Cleaning
  <2> QED BY <2>1, <2>2 DEF DownloadsInv, CleanupInv
<1>8. ObjectsInv'
  <2> SUFFICES ASSUME NEW f \in objects, ~\E a \in artifacts : f \in FilesOf(a),
                      f[1] \notin abandoned'
               PROVE  \E u \in Tabs : request'[u].id = f[1] /\ ~Done(request'[u])
    BY DEF ObjectsInv, Done
  <2>1. PICK u \in Tabs : request[u].id = f[1] /\ ~Done(request[u])
    BY DEF DownloadsInv, ObjectsInv
  <2>2. f[1] # None
    BY DEF DownloadsInv, RevisionsInv, None
  <2> QED BY <1>1, <2>1, <2>2 DEF Done
<1>9. LiveFilesExist'
  BY DEF DownloadsInv, LiveFilesExist
<1> QED BY <1>2, <1>3, <1>4, <1>5, <1>6, <1>7, <1>8, <1>9 DEF DownloadsInv

\* Fields a change of the program counter leaves alone.
Same(q, r) == /\ q.op = r.op /\ q.slot = r.slot /\ q.id = r.id
              /\ q.pending = r.pending /\ q.files = r.files /\ q.result = r.result
Moves(t, q) == /\ request' = [request EXCEPT ![t] = q]
               /\ Same(q, request[t])

\* The steps that only move a request, as a new value of the request.
LEMMA GoesTo ==
  ASSUME DownloadsInv, NEW t \in Tabs, NEW pc \in RequestPcs, Goto(t, pc)
  PROVE  \E q \in RequestType : Moves(t, q) /\ q.pc = pc /\ q.failed = request[t].failed
<1> DEFINE q == [request[t] EXCEPT !.pc = pc]
<1>1. request[t] \in RequestType
  BY DEF DownloadsInv, DownloadsShape
<1>2. q \in RequestType /\ q.pc = pc /\ q.failed = request[t].failed /\ Same(q, request[t])
  BY <1>1 DEF RequestType, Same
<1>3. request' = [request EXCEPT ![t] = q]
  BY DEF Goto
<1> QED BY <1>2, <1>3 DEF Moves

LEMMA FailsTo ==
  ASSUME DownloadsInv, NEW t \in Tabs, NEW pc \in RequestPcs, FailTo(t, pc)
  PROVE  \E q \in RequestType : Moves(t, q) /\ q.pc = pc /\ q.failed = TRUE
<1> DEFINE q == [request[t] EXCEPT !.pc = pc, !.failed = TRUE]
<1>1. request[t] \in RequestType
  BY DEF DownloadsInv, DownloadsShape
<1>2. q \in RequestType /\ q.pc = pc /\ q.failed = TRUE /\ Same(q, request[t])
  BY <1>1 DEF RequestType, Same
<1>3. request' = [request EXCEPT ![t] = q]
  BY DEF FailTo
<1> QED BY <1>2, <1>3 DEF Moves

\* Such a step, with the pages, the rows and the files as they are.
Quiet == UNCHANGED <<resource, revisions, cleanupPending, artifacts, objects, page, issued,
                     unanswered>>
OwnPcs == {"storing", "waiting", "working", "releasing"}

LEMMA MoveKeeps ==
  ASSUME DownloadsInv, NEW t \in Tabs, NEW q \in RequestType, Moves(t, q), Quiet,
         abandoned \subseteq abandoned',
         stages' \in SUBSET ((Tabs \cup {Nobody}) \X {"file", "cover"}),
         \A s \in Tabs \X {"file", "cover"} : s[1] # t => (s \in stages' <=> s \in stages),
         FlowOk(q), q.pc # "idle", request[t].pc # "idle",
         q.pc \in OwnPcs => request[t].pc \in OwnPcs \/ request[t].id = None,
         StagesOk(t, q)', CleanOk(q),
         Cleaning(q) => Cleaning(request[t])
  PROVE  DownloadsInv'
<1>1. q.id # None /\ ~Done(q) /\ q.pc \in {"storing", "waiting", "working", "releasing"} => Own(q)
  BY DEF DownloadsInv, OwnInv, Own, Done, Moves, Same, OwnPcs
<1>2. /\ q.id = request[t].id /\ q.result = request[t].result /\ q.slot = request[t].slot
      /\ q.pending = request[t].pending /\ q.files = request[t].files
      /\ request' = [request EXCEPT ![t] = q]
  BY DEF Moves, Same
<1>3. /\ page' \in [Tabs -> [row : ResourceRow, slots : SUBSET Slots]]
      /\ page' = page /\ page[t].row.version > 0
  BY DEF Quiet, DownloadsInv, DownloadsShape
<1>4. request[t].id # None /\ ~Done(request[t]) /\ q.id = None =>
        \A f \in objects : f[1] = request[t].id => f[1] \in abandoned'
  BY <1>2
<1> QED BY <1>1, <1>2, <1>3, <1>4, RequestKeeps DEF Quiet

\* What the invariant says of one request.
LEMMA RequestFacts ==
  ASSUME DownloadsInv, NEW t \in Tabs
  PROVE  /\ request[t] \in RequestType /\ FlowOk(request[t])
         /\ StagesOk(t, request[t]) /\ CleanOk(request[t])
BY DEF DownloadsInv, DownloadsShape, FlowInv, StagesInv, CleanupInv

LEMMA NoneCleaning ==
  ASSUME NEW q, ~Cleaning(q)
  PROVE  CleanOk(q)
BY DEF CleanOk, Cleaning

\* The stages of the other requests stay, whatever becomes of those of one.
OthersStay(t) ==
  /\ stages' \in SUBSET ((Tabs \cup {Nobody}) \X {"file", "cover"})
  /\ \A s \in Tabs \X {"file", "cover"} : s[1] # t => (s \in stages' <=> s \in stages)

LEMMA DiscardsOwn ==
  ASSUME DownloadsInv, NEW t \in Tabs,
         \E left \in SUBSET StagesOf(t) : DiscardStages(t, left)
  PROVE  OthersStay(t) /\ \A s \in stages' : s[1] # t
<1>1. stages \in SUBSET ((Tabs \cup {Nobody}) \X {"file", "cover"}) /\ Nobody \notin Tabs
  BY DownloadsAssumption DEF DownloadsInv, DownloadsShape
<1> PICK left \in SUBSET StagesOf(t) : stages' = (stages \ StagesOf(t)) \cup Stray(left)
  BY DEF DiscardStages
<1>2. Stray(left) \subseteq {Nobody} \X {"file", "cover"}
  BY <1>1 DEF Stray, StagesOf
<1>3. \A s \in Tabs \X {"file", "cover"} : s[1] # t => (s \in stages' <=> s \in stages)
  BY <1>1, <1>2 DEF StagesOf
<1>4. \A s \in stages' : s[1] # t
  BY <1>1, <1>2 DEF StagesOf
<1> QED BY <1>1, <1>2, <1>3, <1>4 DEF OthersStay

\* The steps of the upload route up to the lock.
LEMMA ReceivingKeeps ==
  ASSUME DownloadsInv, NEW t \in Tabs,
         OpenStage(t) \/ Received(t) \/ ReceiveFails(t) \/ DeriveFails(t)
  PROVE  DownloadsInv'
<1> USE RequestFacts
<1>1. CASE OpenStage(t)
  <2> PICK q \in RequestType : Moves(t, q) /\ q.pc = "receiving"
    BY <1>1, GoesTo DEF OpenStage, RequestPcs
  <2>1. /\ request[t].pc = "reading" /\ stages' = stages \cup {<<t, "file">>} /\ Quiet
        /\ UNCHANGED abandoned
    BY <1>1 DEF OpenStage, Quiet, database
  <2>2. FlowOk(q) /\ ~Cleaning(q)
    BY <2>1 DEF FlowOk, Moves, Same, Done, Cleaning
  <2>3. stages \in SUBSET ((Tabs \cup {Nobody}) \X {"file", "cover"})
    BY DEF DownloadsInv, DownloadsShape
  <2>4. StagesOk(t, q)'
    <3>1. \A s \in stages : s[1] # t
      BY <2>1 DEF StagesOk
    <3> QED BY <2>1, <3>1 DEF StagesOk
  <2> QED BY <2>1, <2>2, <2>3, <2>4, MoveKeeps, NoneCleaning DEF OwnPcs
<1>2. CASE Received(t)
  <2> PICK q \in RequestType : Moves(t, q) /\ q.pc = "staged"
    BY <1>2, GoesTo DEF Received, RequestPcs
  <2>1. request[t].pc = "receiving" /\ UNCHANGED <<stages, abandoned>> /\ Quiet
    BY <1>2 DEF Received, Quiet, database
  <2>2. FlowOk(q) /\ ~Cleaning(q)
    BY <2>1 DEF FlowOk, Moves, Same, Done, Cleaning
  <2>3. stages \in SUBSET ((Tabs \cup {Nobody}) \X {"file", "cover"})
    BY DEF DownloadsInv, DownloadsShape
  <2>4. StagesOk(t, q)'
    BY <2>1 DEF StagesOk
  <2> QED BY <2>1, <2>2, <2>3, <2>4, MoveKeeps, NoneCleaning DEF OwnPcs
<1>3. CASE ReceiveFails(t) \/ DeriveFails(t)
  <2>0. FailTo(t, "refused") /\ "refused" \in RequestPcs
    BY <1>3 DEF ReceiveFails, DeriveFails, RequestPcs
  <2> PICK q \in RequestType : Moves(t, q) /\ q.pc = "refused" /\ q.failed = TRUE
    BY <2>0, FailsTo
  <2>1. /\ request[t].pc \in {"reading", "receiving", "staged"} /\ UNCHANGED abandoned /\ Quiet
    BY <1>3 DEF ReceiveFails, DeriveFails, Quiet, database
  <2>2. FlowOk(q) /\ ~Cleaning(q) /\ q.id = None
    BY <2>1 DEF FlowOk, Moves, Same, Done, Cleaning
  <2>3. OthersStay(t)
    <3>1. CASE ReceiveFails(t)
      BY <3>1, DiscardsOwn DEF ReceiveFails
    <3>2. CASE DeriveFails(t)
      <4>1. PICK left \in SUBSET {"cover"} : stages' = stages \cup ({Nobody} \X left)
        BY <3>2 DEF DeriveFails
      <4> QED BY <4>1, DownloadsAssumption DEF OthersStay, DownloadsInv, DownloadsShape
    <3> QED BY <1>3, <3>1, <3>2
  <2>4. StagesOk(t, q)'
    BY <2>1, <2>2 DEF StagesOk
  <2> QED BY <2>1, <2>2, <2>3, <2>4, MoveKeeps, NoneCleaning DEF OwnPcs, OthersStay
<1> QED BY <1>1, <1>2, <1>3

LEMMA CancelKeeps ==
  ASSUME DownloadsInv, NEW t \in Tabs, CancelUpload(t)
  PROVE  DownloadsInv'
<1> USE RequestFacts
<1> PICK q \in RequestType :
      Moves(t, q) /\ q.pc = request[t].pc /\ q.failed = request[t].failed
  <2> DEFINE q == [request[t] EXCEPT !.aborted = TRUE]
  <2>1. q \in RequestType /\ q.pc = request[t].pc /\ q.failed = request[t].failed
        /\ Same(q, request[t])
    BY DEF RequestType, Same
  <2>2. request' = [request EXCEPT ![t] = q]
    BY DEF CancelUpload
  <2> QED BY <2>1, <2>2 DEF Moves
<1>1. /\ request[t].pc \in {"reading", "receiving", "staged", "storing", "waiting", "working",
                            "answering"}
      /\ UNCHANGED <<stages, abandoned>> /\ Quiet
  BY DEF CancelUpload, Quiet, database
<1>2. FlowOk(q) /\ ~Cleaning(q)
  BY <1>1 DEF FlowOk, Moves, Same, Done, Cleaning
<1>3. stages \in SUBSET ((Tabs \cup {Nobody}) \X {"file", "cover"})
  BY DEF DownloadsInv, DownloadsShape
<1>4. StagesOk(t, q)'
  BY <1>1 DEF StagesOk, Moves, Same, Quiet
<1> QED BY <1>1, <1>2, <1>3, <1>4, MoveKeeps, NoneCleaning DEF OwnPcs

\* Nothing is half stored: the object of the next stage is not there yet.
LEMMA NoneHalfStored ==
  ASSUME DownloadsInv, NEW t \in Tabs, request[t].pc = "storing", ~HalfStored(t)
  PROVE  /\ <<t, "file">> \in stages => <<request[t].id, request[t].slot>> \notin objects
         /\ <<t, "cover">> \in stages => <<request[t].id, "cover">> \notin objects
<1>1. <<t, "file">> \in stages => <<request[t].id, "cover">> \notin objects
  BY RequestFacts DEF StagesOk
<1>2. CASE <<t, "file">> \in stages
  BY <1>1, <1>2 DEF HalfStored, NextPart, ObjectFor
<1>3. CASE <<t, "file">> \notin stages
  BY <1>3 DEF HalfStored, NextPart, ObjectFor
<1> QED BY <1>2, <1>3

\* The upload has stored its files, or gives up with every file where it is.
LEMMA StoringEnds ==
  ASSUME DownloadsInv, NEW t \in Tabs,
         \/ AllStored(t) \/ StoreAborts(t)
         \/ StoreFails(t) /\ UNCHANGED <<objects, stages>>
              /\ abandoned' = abandoned \cup {request[t].id}
  PROVE  DownloadsInv'
<1> USE RequestFacts
<1>1. stages \in SUBSET ((Tabs \cup {Nobody}) \X {"file", "cover"})
  BY DEF DownloadsInv, DownloadsShape
<1>2. CASE AllStored(t)
  <2> PICK q \in RequestType : Moves(t, q) /\ q.pc = "waiting"
    BY <1>2, GoesTo DEF AllStored, RequestPcs
  <2>1. request[t].pc = "storing" /\ UNCHANGED <<stages, abandoned>> /\ Quiet
    BY <1>2 DEF AllStored, Quiet, database
  <2>2. FlowOk(q) /\ ~Cleaning(q)
    BY <2>1 DEF FlowOk, Moves, Same, Done, Cleaning
  <2>3. <<t, "file">> \notin stages /\ <<t, "cover">> \notin stages
    BY <1>2 DEF AllStored, NextPart
  <2>4. \A s \in stages : s[1] # t
    BY <1>1, <2>3
  <2>5. <<q.id, q.slot>> \in objects /\ (q.slot = "document" => <<q.id, "cover">> \in objects)
    BY <2>1, <2>3 DEF StagesOk, Moves, Same
  <2>6. {q.id} \X PartsOf(q.slot) \subseteq objects
    BY <2>5 DEF PartsOf
  <2>7. StagesOk(t, q)'
    BY <2>1, <2>4, <2>6 DEF StagesOk, Quiet
  <2> QED BY <1>1, <2>1, <2>2, <2>7, MoveKeeps, NoneCleaning DEF OwnPcs
<1>3. CASE StoreAborts(t) \/ (StoreFails(t) /\ UNCHANGED <<objects, stages>>
                               /\ abandoned' = abandoned \cup {request[t].id})
  <2>0. FailTo(t, "compensating") /\ "compensating" \in RequestPcs
    BY <1>3 DEF StoreAborts, StoreFails, RequestPcs
  <2> PICK q \in RequestType : Moves(t, q) /\ q.pc = "compensating" /\ q.failed = TRUE
    BY <2>0, FailsTo
  <2>1. /\ request[t].pc = "storing" /\ UNCHANGED stages /\ Quiet
        /\ abandoned \subseteq abandoned'
    BY <1>3 DEF StoreAborts, StoreFails, Quiet, database
  <2>2. FlowOk(q) /\ ~Cleaning(q)
    BY <2>1 DEF FlowOk, Moves, Same, Done, Cleaning
  <2>3. ~HalfStored(t) \/ request[t].id \in abandoned'
    BY <1>3 DEF StoreAborts
  <2>4. StagesOk(t, q)'
    <3>1. q.id \notin abandoned' =>
            /\ <<t, "file">> \in stages => <<q.id, q.slot>> \notin objects
            /\ <<t, "cover">> \in stages => <<q.id, "cover">> \notin objects
      BY <2>1, <2>3, NoneHalfStored DEF Moves, Same
    <3> QED BY <2>1, <3>1 DEF StagesOk, Quiet
  <2> QED BY <1>1, <2>1, <2>2, <2>4, MoveKeeps, NoneCleaning DEF OwnPcs
<1> QED BY <1>2, <1>3

\* The lock is taken or not, and the transaction fails.
LEMMA LockingKeeps ==
  ASSUME DownloadsInv, NEW t \in Tabs, AcquireLock(t) \/ LockTimesOut(t) \/ WorkFails(t)
  PROVE  DownloadsInv'
<1> USE RequestFacts
<1>1. /\ request[t].pc \in {"waiting", "working"} /\ UNCHANGED <<stages, abandoned>> /\ Quiet
      /\ stages \in SUBSET ((Tabs \cup {Nobody}) \X {"file", "cover"})
  BY DEF AcquireLock, LockTimesOut, WorkFails, Quiet, database, DownloadsInv, DownloadsShape
<1>2. CASE AcquireLock(t)
  <2> PICK q \in RequestType : Moves(t, q) /\ q.pc = "working"
    BY <1>2, GoesTo DEF AcquireLock, RequestPcs
  <2>1. request[t].pc = "waiting"
    BY <1>2 DEF AcquireLock
  <2>2. FlowOk(q) /\ ~Cleaning(q)
    BY <2>1 DEF FlowOk, Moves, Same, Done, Cleaning
  <2>3. StagesOk(t, q)'
    BY <1>1, <2>1 DEF StagesOk, Quiet, Moves, Same
  <2> QED BY <1>1, <2>2, <2>3, MoveKeeps, NoneCleaning DEF OwnPcs
<1>3. CASE LockTimesOut(t)
  <2>1. AfterFailure(t) \in {"compensating", "refused"} /\ request[t].pc = "waiting"
        /\ (AfterFailure(t) = "compensating" <=> request[t].op = "upload")
    BY <1>3 DEF LockTimesOut, AfterFailure
  <2> PICK pc \in RequestPcs : pc = AfterFailure(t)
    BY <2>1 DEF RequestPcs
  <2>0. FailTo(t, pc)
    BY <1>3 DEF LockTimesOut
  <2> PICK q \in RequestType : Moves(t, q) /\ q.pc = pc /\ q.failed = TRUE
    BY <2>0, FailsTo
  <2>2. FlowOk(q) /\ ~Cleaning(q) /\ (q.pc = "refused" => q.id = None)
    BY <2>1 DEF FlowOk, Moves, Same, Done, Cleaning
  <2>3. StagesOk(t, q)'
    BY <1>1, <2>1, <2>2 DEF StagesOk
  <2>4. q.pc # "idle" /\ q.pc \notin OwnPcs
    BY <2>1 DEF OwnPcs
  <2> QED BY <1>1, <2>2, <2>3, <2>4, MoveKeeps, NoneCleaning
<1>4. CASE WorkFails(t)
  <2> PICK q \in RequestType : Moves(t, q) /\ q.pc = "releasing" /\ q.failed = TRUE
    BY <1>4, FailsTo DEF WorkFails, RequestPcs
  <2>1. request[t].pc = "working"
    BY <1>4 DEF WorkFails
  <2>2. FlowOk(q) /\ ~Cleaning(q)
    BY <2>1 DEF FlowOk, Moves, Same, Done, Cleaning
  <2>3. StagesOk(t, q)'
    BY <1>1, <2>1 DEF StagesOk, Quiet, Moves, Same
  <2> QED BY <1>1, <2>2, <2>3, MoveKeeps, NoneCleaning DEF OwnPcs
<1> QED BY <1>2, <1>3, <1>4

-----------------------------------------------------------------------------
\* The cleanup decides about one file.
LEMMA CountingKeeps ==
  ASSUME DownloadsInv, NEW t \in Tabs, KeepReferenced(t) \/ CountedZero(t)
  PROVE  DownloadsInv'
<1> USE RequestFacts
<1>1. /\ request[t].pc = "cleaning" /\ UNCHANGED <<stages, abandoned>> /\ Quiet
      /\ stages \in SUBSET ((Tabs \cup {Nobody}) \X {"file", "cover"})
  BY DEF KeepReferenced, CountedZero, Quiet, database, DownloadsInv, DownloadsShape
<1>2. CASE CountedZero(t)
  <2> PICK q \in RequestType : Moves(t, q) /\ q.pc = "removing" /\ q.failed = request[t].failed
    BY <1>2, GoesTo DEF CountedZero, RequestPcs
  <2>1. request[t].files # {} /\ References(NextFile(t), request[t].pending) = {}
    BY <1>2 DEF CountedZero
  <2>2. FlowOk(q)
    BY <1>1 DEF FlowOk, Moves, Same, Done
  <2>3. StagesOk(t, q)'
    BY <1>1 DEF StagesOk, Quiet, Moves, Same
  <2>4. NextFile(t) = NextOf(q)
    BY DEF NextFile, NextOf, Moves, Same
  <2>5. \A a \in artifacts : a.revision \notin cleanupPending => NextOf(q) \notin FilesOf(a)
    <3> SUFFICES ASSUME NEW a \in artifacts, a.revision \notin cleanupPending
                 PROVE  NextOf(q) \notin FilesOf(a)
      OBVIOUS
    <3>1. a.revision \in revisions
      BY DEF DownloadsInv, RevisionsInv
    <3>2. a.revision \notin request[t].pending
      BY <1>1, <3>1 DEF CleanOk, Cleaning
    <3> QED BY <2>1, <2>4, <3>2 DEF References
  <2>6. CleanOk(q)
    BY <1>1, <2>1, <2>5 DEF CleanOk, Cleaning, Moves, Same
  <2>7. q.pc # "idle" /\ q.pc \notin OwnPcs /\ Cleaning(request[t])
    BY <1>1 DEF OwnPcs, Cleaning
  <2> QED BY <1>1, <2>2, <2>3, <2>6, <2>7, MoveKeeps
<1>3. CASE KeepReferenced(t)
  <2> PICK q \in RequestType :
        /\ request' = [request EXCEPT ![t] = q]
        /\ q.pc = "cleaning" /\ q.op = request[t].op /\ q.slot = request[t].slot
        /\ q.id = request[t].id /\ q.pending = request[t].pending
        /\ q.files = request[t].files \ {NextFile(t)} /\ q.result = request[t].result
    <3> DEFINE q == [request[t] EXCEPT !.files = @ \ {NextFile(t)}]
    <3>1. /\ q \in RequestType
          /\ q.pc = "cleaning" /\ q.op = request[t].op /\ q.slot = request[t].slot
          /\ q.id = request[t].id /\ q.pending = request[t].pending
          /\ q.files = request[t].files \ {NextFile(t)} /\ q.result = request[t].result
      BY <1>1 DEF RequestType
    <3>2. request' = [request EXCEPT ![t] = q]
      BY <1>3 DEF KeepReferenced
    <3> QED BY <3>1, <3>2
  <2>1. References(NextFile(t), request[t].pending) # {}
    BY <1>3 DEF KeepReferenced
  <2>2. FlowOk(q)
    BY <1>1 DEF FlowOk, Done
  <2>3. StagesOk(t, q)'
    BY <1>1 DEF StagesOk, Quiet
  <2>4. CleanOk(q)
    <3>1. Cleaning(request[t])
      BY <1>1 DEF Cleaning
    <3> QED BY <1>1, <2>1, <3>1 DEF CleanOk, Cleaning
  <2>5. /\ page' \in [Tabs -> [row : ResourceRow, slots : SUBSET Slots]]
        /\ page' = page /\ page[t].row.version > 0
    BY <1>1 DEF Quiet, DownloadsInv, DownloadsShape
  <2>6. Cleaning(request[t])
    BY <1>1 DEF Cleaning
  <2>7. q.pc \notin {"storing", "waiting", "working", "releasing"}
    OBVIOUS
  <2>8. request[t].id # None /\ ~Done(request[t]) /\ q.id = None =>
          \A f \in objects : f[1] = request[t].id => f[1] \in abandoned'
    OBVIOUS
  <2> QED BY <1>1, <2>2, <2>3, <2>4, <2>5, <2>6, <2>7, <2>8, RequestKeeps DEF Quiet
<1> QED BY <1>2, <1>3

\* The ways out of the transaction and of the cleanup.
LEMMA ReleasingKeeps ==
  ASSUME DownloadsInv, NEW t \in Tabs, CleanupFails(t) \/ Release(t)
  PROVE  DownloadsInv'
<1> USE RequestFacts
<1>1. /\ request[t].pc \in {"cleaning", "removing", "releasing"}
      /\ UNCHANGED stages /\ Quiet /\ abandoned \subseteq abandoned'
      /\ stages \in SUBSET ((Tabs \cup {Nobody}) \X {"file", "cover"})
  BY DEF CleanupFails, Release, Quiet, database, DownloadsInv, DownloadsShape
<1>2. CASE CleanupFails(t)
  <2> PICK q \in RequestType : Moves(t, q) /\ q.pc = "releasing"
    <3> PICK reported \in BOOLEAN :
          request' = [request EXCEPT ![t].pc = "releasing", ![t].failed = ~reported]
      BY <1>2 DEF CleanupFails
    <3> DEFINE q == [request[t] EXCEPT !.pc = "releasing", !.failed = ~reported]
    <3>1. q \in RequestType /\ q.pc = "releasing" /\ Same(q, request[t])
      BY DEF RequestType, Same, RequestPcs
    <3>2. request' = [request EXCEPT ![t] = q]
      OBVIOUS
    <3> QED BY <3>1, <3>2 DEF Moves
  <2>1. request[t].pc \in {"cleaning", "removing"}
    BY <1>2 DEF CleanupFails
  <2>2. Done(request[t]) /\ Done(q)
    BY <2>1 DEF FlowOk, Moves, Same, Done
  <2>3. FlowOk(q) /\ ~Cleaning(q)
    BY <2>1, <2>2 DEF FlowOk, Moves, Same, Cleaning
  <2>4. StagesOk(t, q)'
    BY <1>1, <2>1 DEF StagesOk
  <2>5. q.id # None /\ ~Done(q) /\ q.pc \in {"storing", "waiting", "working", "releasing"} => Own(q)
    BY <2>2
  <2>6. /\ page' \in [Tabs -> [row : ResourceRow, slots : SUBSET Slots]]
        /\ page' = page /\ page[t].row.version > 0
    BY <1>1 DEF Quiet, DownloadsInv, DownloadsShape
  <2> QED BY <1>1, <2>2, <2>3, <2>4, <2>5, <2>6, NoneCleaning, RequestKeeps DEF Quiet, Moves, Same
<1>3. CASE Release(t)
  <2>1. PICK pc \in {"answering", "refused", "compensating"} :
          /\ Goto(t, pc) /\ request[t].pc = "releasing" /\ UNCHANGED abandoned
          /\ pc = "answering" => ~request[t].failed
          /\ pc = "compensating" => ~Committed(t) /\ request[t].op = "upload"
          /\ pc = "refused" => Committed(t) \/ request[t].op # "upload"
    BY <1>3 DEF Release, Goto, AfterFailure
  <2> PICK q \in RequestType : Moves(t, q) /\ q.pc = pc /\ q.failed = request[t].failed
    BY <2>1, GoesTo DEF RequestPcs
  <2>2. FlowOk(q) /\ ~Cleaning(q)
    BY <2>1 DEF FlowOk, Moves, Same, Done, Cleaning, Committed
  <2>3. StagesOk(t, q)'
    <3>1. \A s \in stages : s[1] # t
      BY <2>1 DEF StagesOk
    <3>2. q.pc = "refused" => Done(q) \/ q.id = None
      BY <2>1 DEF FlowOk, Moves, Same, Done, Committed
    <3> QED BY <1>1, <2>1, <3>1, <3>2 DEF StagesOk, Done
  <2>4. q.pc # "idle" /\ q.pc \notin OwnPcs
    BY <2>1 DEF OwnPcs
  <2> QED BY <1>1, <2>2, <2>3, <2>4, MoveKeeps, NoneCleaning
<1> QED BY <1>2, <1>3

\* A request begins or ends: it then has no identifier, no files, no rows.
LEMMA EndsKeep ==
  ASSUME DownloadsInv, NEW t \in Tabs, Refuse(t) \/ Answer(t)
  PROVE  DownloadsInv'
<1> USE RequestFacts
<1>1. /\ NoRequest \in RequestType /\ NoRequest.id = None /\ NoRequest.pc = "idle"
      /\ NoRequest.op = "none" /\ NoRequest.pending = {} /\ NoRequest.files = {}
      /\ ~Done(NoRequest)
  BY DEF NoRequest, RequestType, RequestPcs, ResourceRow, Absent, Kinds, Done, None
<1> PICK q \in RequestType :
      /\ q.id = None /\ q.pc = "idle" /\ q.op = "none" /\ q.pending = {} /\ q.files = {}
      /\ ~Done(q) /\ q = NoRequest
  BY <1>1
<1>2. /\ UNCHANGED <<resource, revisions, cleanupPending, artifacts, objects, issued,
                     unanswered, abandoned>>
      /\ request' = [request EXCEPT ![t] = q]
      /\ request[t].pc \in {"refused", "answering"}
  BY DEF Refuse, Answer, database
<1>3. FlowOk(q) /\ ~Cleaning(q) /\ CleanOk(q)
  BY NoneCleaning DEF FlowOk, Cleaning
<1>4. /\ stages' \in SUBSET ((Tabs \cup {Nobody}) \X {"file", "cover"})
      /\ \A s \in Tabs \X {"file", "cover"} : s[1] # t => (s \in stages' <=> s \in stages)
      /\ \A s \in stages' : s[1] # t
  <2>1. stages \in SUBSET ((Tabs \cup {Nobody}) \X {"file", "cover"})
    BY DEF DownloadsInv, DownloadsShape
  <2>2. CASE Refuse(t)
    BY <2>2, DiscardsOwn DEF Refuse, OthersStay
  <2>3. CASE Answer(t)
    <3>1. \A s \in stages : s[1] # t
      BY <2>3 DEF Answer, StagesOk
    <3> QED BY <2>1, <2>3, <3>1 DEF Answer
  <2> QED BY <2>2, <2>3
<1>5. StagesOk(t, q)'
  BY <1>4 DEF StagesOk
<1>6. /\ page' \in [Tabs -> [row : ResourceRow, slots : SUBSET Slots]]
      /\ \A u \in Tabs \ {t} : page'[u] = page[u]
  <2>1. page \in [Tabs -> [row : ResourceRow, slots : SUBSET Slots]]
    BY DEF DownloadsInv, DownloadsShape
  <2>2. request[t].result \in [row : ResourceRow, slots : SUBSET Slots]
    BY DEF RequestType
  <2>3. page' = page \/ page' = [page EXCEPT ![t] = request[t].result]
    BY DEF Refuse, Answer
  <2> QED BY <2>1, <2>2, <2>3
<1>7. request[t].id # None /\ ~Done(request[t]) =>
        \A f \in objects : f[1] = request[t].id => f[1] \in abandoned
  BY <1>2 DEF StagesOk, FlowOk
<1> QED BY <1>2, <1>3, <1>4, <1>5, <1>6, <1>7, RequestKeeps

LEMMA SubmitKeeps ==
  ASSUME DownloadsInv, NEW t \in Tabs,
         NEW o \in {"save", "upload", "publish", "downline", "discard", "remove"},
         NEW slot \in Slots \cup {"none"}, Submit(t, o, slot)
  PROVE  DownloadsInv'
<1> USE RequestFacts
<1> PICK q \in RequestType :
      /\ request' = [request EXCEPT ![t] = q]
      /\ q.pc = IF o = "upload" THEN "reading" ELSE "waiting"
      /\ q.op = o /\ q.slot = slot /\ q.id = None /\ q.pending = {} /\ q.files = {} /\ ~Done(q)
  <2> PICK pc \in RequestPcs : pc = IF o = "upload" THEN "reading" ELSE "waiting"
    BY DEF RequestPcs
  <2> DEFINE begun == [NoRequest EXCEPT !.pc = pc]
             named == [begun EXCEPT !.op = o]
             q == [named EXCEPT !.slot = slot]
  <2>1. NoRequest \in RequestType /\ ~Done(NoRequest)
        /\ NoRequest.id = None /\ NoRequest.pending = {} /\ NoRequest.files = {}
    BY DEF NoRequest, RequestType, RequestPcs, ResourceRow, Absent, Kinds, Done, None
  <2>5. request' = [request EXCEPT ![t] = q]
    BY DEF Submit
  <2>2. q \in RequestType /\ q.pc = pc
        /\ q.op = o /\ q.slot = slot /\ q.id = None /\ q.pending = {} /\ q.files = {}
        /\ q.result = NoRequest.result
    <3>1. /\ begun \in RequestType /\ begun.pc = pc /\ begun.id = None
          /\ begun.pending = {} /\ begun.files = {} /\ begun.result = NoRequest.result
      BY <2>1 DEF RequestType
    <3> HIDE DEF begun
    <3>2. /\ named \in RequestType /\ named.pc = pc /\ named.op = o /\ named.id = None
          /\ named.pending = {} /\ named.files = {} /\ named.result = NoRequest.result
      BY <3>1 DEF RequestType
    <3> HIDE DEF named
    <3> QED BY <3>2 DEF RequestType
  <2> HIDE DEF q
  <2>4. ~Done(q)
    BY <2>1, <2>2 DEF Done
  <2> QED BY <2>2, <2>4, <2>5
<1>1. /\ request[t].pc = "idle" /\ UNCHANGED <<stages, abandoned>> /\ Quiet
      /\ page[t].row.version > 0 /\ (o = "upload" => slot \in Slots)
  BY DEF Submit, Quiet, database, Offered, SlotsOf, Slots
<1>2. FlowOk(q) /\ ~Cleaning(q) /\ CleanOk(q)
  BY <1>1, NoneCleaning DEF FlowOk, Cleaning
<1>3. StagesOk(t, q)'
  <2>1. \A s \in stages : s[1] # t
    BY <1>1 DEF StagesOk
  <2> QED BY <1>1, <2>1 DEF StagesOk
<1>4. stages \in SUBSET ((Tabs \cup {Nobody}) \X {"file", "cover"}) /\ request[t].id = None
      /\ page \in [Tabs -> [row : ResourceRow, slots : SUBSET Slots]]
  BY <1>1 DEF DownloadsInv, DownloadsShape, FlowOk
<1> QED BY <1>1, <1>2, <1>3, <1>4, RequestKeeps DEF Quiet

-----------------------------------------------------------------------------
\* An upload gets its identifier, and stores its files under it.
LEMMA AttachKeeps ==
  ASSUME DownloadsInv, NEW t \in Tabs, BeginAttach(t)
  PROVE  DownloadsInv'
<1> USE RequestFacts
<1> PICK n \in Nat : n = issued + 1
  BY DEF DownloadsInv, DownloadsShape
<1> PICK q \in RequestType :
      /\ request' = [request EXCEPT ![t] = q]
      /\ q.pc = "storing" /\ q.id = n /\ q.op = request[t].op /\ q.slot = request[t].slot
      /\ q.pending = request[t].pending /\ q.files = request[t].files
      /\ q.result = request[t].result
  <2> DEFINE q == [request[t] EXCEPT !.pc = "storing", !.id = n]
  <2>1. /\ q \in RequestType
        /\ q.pc = "storing" /\ q.id = n /\ q.op = request[t].op /\ q.slot = request[t].slot
        /\ q.pending = request[t].pending /\ q.files = request[t].files
        /\ q.result = request[t].result
    BY DEF RequestType, RequestPcs
  <2>2. request' = [request EXCEPT ![t] = q]
    BY DEF BeginAttach
  <2> QED BY <2>1, <2>2
<1>1. /\ request[t].pc = "staged" /\ issued' = n
      /\ stages' = stages \cup (IF request[t].slot = "document" THEN {<<t, "cover">>} ELSE {})
      /\ UNCHANGED <<resource, revisions, cleanupPending, artifacts, objects, page, unanswered,
                     abandoned>>
  BY DEF BeginAttach, database
<1>2. request[t].op = "upload" /\ request[t].id = None /\ ~Done(request[t])
  BY <1>1 DEF FlowOk
<1>3. request'[t] = q /\ \A u \in Tabs \ {t} : request'[u] = request[u]
  BY DEF DownloadsInv, DownloadsShape
<1>4. issued \in Nat /\ n # None /\ \A i \in 1..issued : i \in 1..n /\ i # n
  BY DEF DownloadsInv, DownloadsShape, None
<1>5. DownloadsShape'
  BY <1>1, <1>3 DEF DownloadsInv, DownloadsShape
<1>6. RevisionsInv'
  BY <1>1, <1>4 DEF DownloadsInv, RevisionsInv
<1>7. FlowInv'
  <2>1. FlowOk(q)
    BY <1>1, <1>2, <1>4 DEF FlowOk, Done
  <2>2. \A u \in Tabs : request[u].id \in 0..n
    BY <1>4 DEF DownloadsInv, FlowInv
  <2> QED BY <1>1, <1>3, <1>4, <2>1, <2>2 DEF DownloadsInv, FlowInv
<1>8. \A u \in Tabs : request[u].id # n
  BY <1>4 DEF DownloadsInv, FlowInv
<1>9. OwnInv'
  <2>1. \A u, v \in Tabs : u # v /\ request'[u].id = request'[v].id => request'[u].id = None
    BY <1>3, <1>8 DEF DownloadsInv, OwnInv
  <2>2. \A u \in Tabs : /\ request'[u].pending = request[u].pending
                        /\ request'[u].files = request[u].files
    BY <1>3
  <2>3. Sole(q)'
    <3>1. n \notin revisions /\ n \notin unanswered
      BY <1>4 DEF DownloadsInv, RevisionsInv
    <3>2. \A a \in artifacts : a.key # n
      BY <1>4 DEF DownloadsInv, RevisionsInv
    <3>3. \A f \in objects : f[1] # n
      BY <1>4 DEF DownloadsInv, RevisionsInv
    <3>4. \A u \in Tabs : n \notin request[u].pending /\ \A f \in request[u].files : f[1] # n
      BY <1>4 DEF DownloadsInv, FlowInv
    <3> QED BY <1>1, <2>2, <3>1, <3>2, <3>3, <3>4 DEF Sole
  <2>4. ASSUME NEW u \in Tabs, Own(request[u])'
        PROVE  Sole(request[u])'
    <3>1. CASE u = t
      BY <1>3, <2>3, <3>1 DEF Sole
    <3>2. CASE u # t
      <4>1. Own(request[u]) /\ request'[u] = request[u]
        BY <1>1, <1>3, <2>4, <3>2 DEF Own, Done
      <4>2. Sole(request[u])
        BY <4>1 DEF DownloadsInv, OwnInv
      <4> QED BY <1>1, <2>2, <4>1, <4>2 DEF Sole
    <3> QED BY <3>1, <3>2
  <2>5. ASSUME NEW u \in Tabs, request'[u].id # None, ~Done(request[u])',
               request'[u].pc \in {"storing", "waiting", "working", "releasing"}
        PROVE  Own(request[u])'
    <3>1. CASE u = t
      <4>1. n \notin unanswered
        BY <1>4 DEF DownloadsInv, RevisionsInv
      <4> QED BY <1>1, <1>3, <2>5, <3>1, <4>1 DEF Own, Done
    <3>2. CASE u # t
      BY <1>1, <1>3, <2>5, <3>2 DEF DownloadsInv, OwnInv, Own, Done
    <3> QED BY <3>1, <3>2
  <2> QED BY <2>1, <2>4, <2>5 DEF OwnInv
<1>10. StagesInv'
  <2> SUFFICES ASSUME NEW u \in Tabs PROVE StagesOk(u, request[u])'
    BY DEF StagesInv
  <2>1. CASE u = t
    <3>1. <<t, "file">> \in stages /\ <<t, "cover">> \notin stages
      BY <1>1 DEF StagesOk
    <3>2. /\ <<t, "file">> \in stages'
          /\ <<t, "cover">> \in stages' <=> request[t].slot = "document"
      BY <1>1, <3>1
    <3>3. <<n, "cover">> \notin objects'
      BY <1>1, <1>4 DEF DownloadsInv, RevisionsInv
    <3> QED BY <1>3, <2>1, <3>2, <3>3 DEF StagesOk
  <2>2. CASE u # t
    <3>1. StagesOk(u, request[u]) /\ request'[u] = request[u]
      BY <1>3, <2>2
    <3>2. \A s \in stages' : s[1] = u => s \in stages
      BY <1>1, <2>2
    <3>3. \A p \in {"file", "cover"} : <<u, p>> \in stages' <=> <<u, p>> \in stages
      BY <1>1, <2>2
    <3> QED BY <1>1, <3>1, <3>2, <3>3 DEF StagesOk, Done
  <2> QED BY <2>1, <2>2
<1>11. CleanupInv'
  <2>1. ~Cleaning(request[t])'
    BY <1>3 DEF Cleaning
  <2>2. \A u \in Tabs : CleanOk(request[u])'
    BY <1>1, <1>3 DEF DownloadsInv, CleanupInv, CleanOk, Cleaning, NextOf, References, FilesOf
  <2>3. \A u \in Tabs : Cleaning(request[u])' => Cleaning(request[u]) /\ request'[u] = request[u]
    BY <1>3, <2>1 DEF Cleaning
  <2> QED BY <1>1, <2>2, <2>3 DEF DownloadsInv, CleanupInv
<1>12. ObjectsInv'
  <2> SUFFICES ASSUME NEW f \in objects, ~\E a \in artifacts : f \in FilesOf(a), f[1] \notin abandoned
               PROVE  \E u \in Tabs : request'[u].id = f[1] /\ ~Done(request'[u])
    BY <1>1 DEF ObjectsInv, Done
  <2>1. PICK u \in Tabs : request[u].id = f[1] /\ ~Done(request[u])
    BY DEF DownloadsInv, ObjectsInv
  <2>2. f[1] # None
    BY DEF DownloadsInv, RevisionsInv, None
  <2> QED BY <1>2, <1>3, <2>1, <2>2
<1>13. LiveFilesExist'
  BY <1>1 DEF DownloadsInv, LiveFilesExist
<1> QED BY <1>5, <1>6, <1>7, <1>9, <1>10, <1>11, <1>12, <1>13 DEF DownloadsInv

LEMMA LinkKeeps ==
  ASSUME DownloadsInv, NEW t \in Tabs, LinkFile(t)
  PROVE  DownloadsInv'
<1> USE RequestFacts
<1>1. /\ request[t].pc = "storing" /\ NextPart(t) \in stages
      /\ objects' = objects \cup {ObjectFor(t, NextPart(t))}
      /\ UNCHANGED <<resource, revisions, cleanupPending, artifacts, stages, request, page, issued,
                     unanswered, abandoned>>
  BY DEF LinkFile, database
<1>2. /\ request[t].op = "upload" /\ request[t].id # None /\ ~Done(request[t])
      /\ request[t].slot \in Slots
  BY <1>1 DEF FlowOk
<1>3. Own(request[t]) /\ Sole(request[t])
  BY <1>1, <1>2 DEF DownloadsInv, OwnInv
<1> PICK part \in Parts :
      /\ ObjectFor(t, NextPart(t)) = <<request[t].id, part>>
      /\ part \in PartsOf(request[t].slot)
      /\ \/ NextPart(t) = <<t, "file">> /\ part = request[t].slot
         \/ /\ NextPart(t) = <<t, "cover">> /\ part = "cover" /\ request[t].slot = "document"
            /\ <<t, "file">> \notin stages
  <2>1. CASE <<t, "file">> \in stages
    BY <1>2, <2>1 DEF NextPart, ObjectFor, PartsOf, Parts
  <2>2. CASE <<t, "file">> \notin stages
    <3>1. NextPart(t) = <<t, "cover">> /\ request[t].slot = "document"
      BY <1>1, <2>2 DEF NextPart, StagesOk
    <3> QED BY <2>2, <3>1 DEF ObjectFor, PartsOf, Parts
  <2> QED BY <2>1, <2>2
<1>4. objects' = objects \cup {<<request[t].id, part>>}
  BY <1>1
<1>5. \A u \in Tabs \ {t} : request[u].id # request[t].id
  BY <1>2 DEF DownloadsInv, OwnInv
<1>6. DownloadsShape'
  <2>1. request[t].id \in Nat
    BY DEF RequestType
  <2> QED BY <1>1, <1>4, <2>1 DEF DownloadsInv, DownloadsShape
<1>7. RevisionsInv'
  <2>1. request[t].id \in 1..issued
    BY <1>2 DEF DownloadsInv, DownloadsShape, FlowInv, None
  <2> QED BY <1>1, <1>4, <2>1 DEF DownloadsInv, RevisionsInv
<1>8. FlowInv'
  BY <1>1 DEF DownloadsInv, FlowInv, FlowOk, Done
<1>9. OwnInv'
  <2>1. ASSUME NEW u \in Tabs, Own(request[u])'
        PROVE  Sole(request[u])'
    <3>1. Sole(request[u])
      BY <1>1, <2>1 DEF DownloadsInv, OwnInv, Own, Done
    <3>2. \A f \in objects' : f[1] = request[u].id => f[2] \in PartsOf(request[u].slot)
      BY <1>4, <1>5, <3>1 DEF Sole
    <3> QED BY <1>1, <3>1, <3>2 DEF Sole
  <2> QED BY <1>1, <2>1 DEF DownloadsInv, OwnInv, Own, Done
<1>10. StagesInv'
  <2> SUFFICES ASSUME NEW u \in Tabs PROVE StagesOk(u, request[u])'
    BY DEF StagesInv
  <2>1. CASE u = t
    <3>1. <<t, "file">> \in stages => part = request[t].slot
      OBVIOUS
    <3>2. <<t, "file">> \in stages => <<request[t].id, "cover">> \notin objects'
      <4>1. request[t].slot # "cover"
        BY <1>2 DEF Slots
      <4> QED BY <1>1, <1>4, <3>1, <4>1 DEF StagesOk
    <3> QED BY <1>1, <1>4, <2>1, <3>2 DEF StagesOk
  <2>2. CASE u # t
    <3>1. StagesOk(u, request[u]) /\ request'[u] = request[u] /\ request[u].id # request[t].id
      BY <1>1, <1>5, <2>2
    <3>2. \A f \in objects' : f[1] = request[u].id => f \in objects
      BY <1>4, <3>1
    <3> QED BY <1>1, <1>4, <3>1, <3>2 DEF StagesOk, Done
  <2> QED BY <2>1, <2>2
<1>11. CleanupInv'
  <2>1. ASSUME NEW a \in artifacts PROVE FilesOf(a) \cap objects' = FilesOf(a) \cap objects
    <3>1. <<request[t].id, part>> \notin FilesOf(a)
      BY <1>3 DEF Sole, FilesOf
    <3> QED BY <1>4, <3>1
  <2>2. \A u \in Tabs : CleanOk(request[u])'
    BY <1>1, <2>1 DEF DownloadsInv, CleanupInv, CleanOk, Cleaning, NextOf, References, FilesOf
  <2> QED BY <1>1, <2>2 DEF DownloadsInv, CleanupInv, Cleaning
<1>12. ObjectsInv'
  BY <1>1, <1>2, <1>4 DEF DownloadsInv, ObjectsInv, Done, FilesOf
<1>13. LiveFilesExist'
  BY <1>1, <1>4 DEF DownloadsInv, LiveFilesExist, FilesOf
<1> QED BY <1>6, <1>7, <1>8, <1>9, <1>10, <1>11, <1>12, <1>13 DEF DownloadsInv

\* The name of a file under staging/ goes when its object is there.
LEMMA UnlinkKeeps ==
  ASSUME DownloadsInv, NEW t \in Tabs, UnlinkStage(t)
  PROVE  DownloadsInv'
<1> USE RequestFacts
<1>1. /\ request[t].pc = "storing" /\ HalfStored(t)
      /\ stages' = stages \ {NextPart(t)} /\ NextPart(t)[1] = t
      /\ UNCHANGED <<resource, revisions, cleanupPending, artifacts, objects, request, page, issued,
                     unanswered, abandoned>>
  BY DEF UnlinkStage, NextPart, database
<1> PICK q \in RequestType : q = request[t]
  OBVIOUS
<1>2. request' = [request EXCEPT ![t] = q] /\ request[t].pc = q.pc
  BY <1>1 DEF DownloadsInv, DownloadsShape
<1>3. OthersStay(t)
  BY <1>1 DEF OthersStay, DownloadsInv, DownloadsShape
<1>4. StagesOk(t, q)'
  <2>1. CASE <<t, "file">> \in stages
    <3>1. NextPart(t) = <<t, "file">> /\ <<q.id, q.slot>> \in objects
      BY <1>1, <2>1 DEF HalfStored, NextPart, ObjectFor
    <3> QED BY <1>1, <3>1 DEF StagesOk
  <2>2. CASE <<t, "file">> \notin stages
    <3>1. NextPart(t) = <<t, "cover">> /\ <<q.id, "cover">> \in objects
      BY <1>1, <2>2 DEF HalfStored, NextPart, ObjectFor
    <3> QED BY <1>1, <2>2, <3>1 DEF StagesOk
  <2> QED BY <2>1, <2>2
<1>5. /\ page' \in [Tabs -> [row : ResourceRow, slots : SUBSET Slots]]
      /\ page' = page /\ page[t].row.version > 0
  BY <1>1 DEF DownloadsInv, DownloadsShape
<1>6. q.id # None /\ ~Done(q) /\ q.pc \in {"storing", "waiting", "working", "releasing"} => Own(q)
  BY DEF DownloadsInv, OwnInv
<1>7. FlowOk(q) /\ ~Cleaning(q) /\ CleanOk(q)
  BY <1>1, NoneCleaning DEF Cleaning
<1> QED BY <1>1, <1>2, <1>3, <1>4, <1>5, <1>6, <1>7, RequestKeeps DEF OthersStay

-----------------------------------------------------------------------------
\* Files disappear: those of an upload that is given up, and those that no row
\* names any more.
LEMMA FilesGo ==
  ASSUME DownloadsInv, NEW t \in Tabs, NEW q \in RequestType,
         request' = [request EXCEPT ![t] = q],
         UNCHANGED <<resource, revisions, cleanupPending, artifacts, page, issued, unanswered>>,
         objects' \subseteq objects, abandoned \subseteq abandoned', OthersStay(t),
         q.op = request[t].op, q.slot = request[t].slot, q.id = request[t].id,
         q.pending = request[t].pending, q.result = request[t].result,
         q.files \subseteq request[t].files,
         FlowOk(q), request[t].pc # "idle", q.pc \notin OwnPcs, q.pc # "idle",
         StagesOk(t, q)', CleanOk(q)', Cleaning(q) => Cleaning(request[t]),
         \A u \in Tabs \ {t} : Own(request[u]) =>
           \A f \in objects : f[1] = request[u].id => f \in objects',
         LiveFilesExist'
  PROVE  DownloadsInv'
<1>1. request'[t] = q /\ \A u \in Tabs \ {t} : request'[u] = request[u]
  BY DEF DownloadsInv, DownloadsShape
<1>2. DownloadsShape'
  BY <1>1 DEF DownloadsInv, DownloadsShape, OthersStay
<1>3. RevisionsInv'
  BY DEF DownloadsInv, RevisionsInv
<1>4. FlowInv'
  BY <1>1 DEF DownloadsInv, FlowInv
<1>5. OwnInv'
  <2>1. \A u, v \in Tabs : u # v /\ request'[u].id = request'[v].id => request'[u].id = None
    BY <1>1 DEF DownloadsInv, OwnInv
  <2>2. \A u \in Tabs : /\ request'[u].pending \subseteq request[u].pending
                        /\ request'[u].files \subseteq request[u].files
    BY <1>1
  <2>3. ASSUME NEW u \in Tabs, Own(request[u])'
        PROVE  Sole(request[u])'
    <3>1. Own(request[u]) /\ request'[u].id = request[u].id /\ request'[u].slot = request[u].slot
      BY <1>1, <2>3 DEF Own, Done
    <3>2. Sole(request[u])
      BY <3>1 DEF DownloadsInv, OwnInv
    <3> QED BY <2>2, <3>1, <3>2 DEF Sole
  <2>4. ASSUME NEW u \in Tabs, request'[u].id # None, ~Done(request[u])',
               request'[u].pc \in {"storing", "waiting", "working", "releasing"}
        PROVE  Own(request[u])'
    BY <1>1, <2>4 DEF DownloadsInv, OwnInv, Own, Done, OwnPcs
  <2> QED BY <2>1, <2>3, <2>4 DEF OwnInv
<1>6. StagesInv'
  <2> SUFFICES ASSUME NEW u \in Tabs PROVE StagesOk(u, request[u])'
    BY DEF StagesInv
  <2>1. CASE u = t
    BY <1>1, <2>1 DEF StagesOk, Done
  <2>2. CASE u # t
    <3>1. StagesOk(u, request[u]) /\ request'[u] = request[u] /\ FlowOk(request[u])
          /\ request[u] \in RequestType
      BY <1>1, <2>2, RequestFacts
    <3>2. ASSUME request[u].op = "upload", request[u].pc \in {"storing", "waiting", "working"}
          PROVE  \A part \in Parts : <<request[u].id, part>> \in objects =>
                                       <<request[u].id, part>> \in objects'
      <4>1. Own(request[u])
        BY <3>1, <3>2 DEF FlowOk, DownloadsInv, OwnInv
      <4> QED BY <2>2, <4>1
    <3>3. PartsOf(request[u].slot) \subseteq Parts \/ request[u].op # "upload"
      BY <3>1 DEF FlowOk, PartsOf, Parts, Slots
    <3>4. request[u].pc = "storing" => request[u].op = "upload" /\ request[u].slot \in Parts
      BY <3>1 DEF FlowOk, Parts
    <3>5. "cover" \in Parts
      BY DEF Parts
    <3>6. /\ \A s \in stages' : s[1] = u => s \in stages
          /\ \A p \in {"file", "cover"} : <<u, p>> \in stages' <=> <<u, p>> \in stages
      BY <1>2, <2>2, DownloadsAssumption DEF DownloadsShape, OthersStay
    <3> QED BY <3>1, <3>2, <3>3, <3>4, <3>5, <3>6 DEF StagesOk, Done
  <2> QED BY <2>1, <2>2
<1>7. CleanupInv'
  <2>1. \A u \in Tabs : CleanOk(request[u])'
    <3> SUFFICES ASSUME NEW u \in Tabs PROVE CleanOk(request[u])'
      OBVIOUS
    <3>1. CASE u = t
      BY <1>1, <3>1 DEF CleanOk, Cleaning, NextOf, References, FilesOf
    <3>2. CASE u # t
      <4>1. CleanOk(request[u]) /\ request'[u] = request[u]
        BY <1>1, <3>2, RequestFacts
      <4> QED BY <4>1 DEF CleanOk, Cleaning, NextOf, References, FilesOf
    <3> QED BY <3>1, <3>2
  <2>2. \A u \in Tabs : Cleaning(request[u])' =>
          Cleaning(request[u]) /\ request'[u].pending = request[u].pending
    BY <1>1 DEF Cleaning
  <2> QED BY <2>1, <2>2 DEF DownloadsInv, CleanupInv
<1>8. ObjectsInv'
  <2> SUFFICES ASSUME NEW f \in objects, ~\E a \in artifacts : f \in FilesOf(a),
                      f[1] \notin abandoned'
               PROVE  \E u \in Tabs : request'[u].id = f[1] /\ ~Done(request'[u])
    BY DEF ObjectsInv, Done, FilesOf
  <2>1. PICK u \in Tabs : request[u].id = f[1] /\ ~Done(request[u])
    BY DEF DownloadsInv, ObjectsInv
  <2> QED BY <1>1, <2>1 DEF Done
<1> QED BY <1>2, <1>3, <1>4, <1>5, <1>6, <1>7, <1>8 DEF DownloadsInv

\* The files of an upload are its own, so that no row of the resource misses
\* one that goes before the upload commits.
LEMMA OwnFilesGo ==
  ASSUME DownloadsInv, NEW t \in Tabs, ~Done(request[t]), objects' \subseteq objects,
         \A f \in objects : f[1] # request[t].id => f \in objects',
         UNCHANGED <<cleanupPending, artifacts, unanswered>>
  PROVE  /\ \A u \in Tabs \ {t} : Own(request[u]) =>
              \A f \in objects : f[1] = request[u].id => f \in objects'
         /\ LiveFilesExist'
<1>1. \A u \in Tabs \ {t} : Own(request[u]) =>
        \A f \in objects : f[1] = request[u].id => f \in objects'
  BY DEF DownloadsInv, OwnInv, Own
<1>2. LiveFilesExist'
  <2> SUFFICES ASSUME NEW a \in artifacts, a.revision \notin cleanupPending, a.key \notin unanswered
               PROVE  FilesOf(a) \subseteq objects'
    BY DEF LiveFilesExist, FilesOf
  <2>1. FilesOf(a) \subseteq objects
    BY DEF DownloadsInv, LiveFilesExist
  <2>2. a.key # request[t].id
    <3>1. CASE request[t].id = None
      BY <3>1 DEF DownloadsInv, RevisionsInv, None
    <3>2. CASE request[t].id # None /\ request[t].id \notin unanswered
      <4>1. Own(request[t])
        BY <3>2 DEF Own
      <4> QED BY <4>1 DEF DownloadsInv, OwnInv, Sole
    <3> QED BY <3>1, <3>2
  <2> QED BY <2>1, <2>2 DEF FilesOf
<1> QED BY <1>1, <1>2

\* A file cannot be stored, and what was linked of it is taken back.
LEMMA RollbackKeeps ==
  ASSUME DownloadsInv, NEW t \in Tabs, StoreFails(t),
         objects' = objects \ {ObjectFor(t, NextPart(t))}, UNCHANGED abandoned,
         \E gone \in SUBSET {NextPart(t)} : stages' = stages \ gone
  PROVE  DownloadsInv'
<1> USE RequestFacts
<1>0. FailTo(t, "compensating") /\ "compensating" \in RequestPcs
  BY DEF StoreFails, RequestPcs
<1> PICK q \in RequestType : Moves(t, q) /\ q.pc = "compensating" /\ q.failed = TRUE
  BY <1>0, FailsTo
<1>1. /\ request[t].pc = "storing" /\ NextPart(t) \in stages /\ NextPart(t)[1] = t
      /\ UNCHANGED <<resource, revisions, cleanupPending, artifacts, page, issued, unanswered>>
      /\ stages' \subseteq stages /\ \A s \in stages : s[1] # t => s \in stages'
  BY DEF StoreFails, NextPart, database
<1>2. FlowOk(q) /\ ~Cleaning(q) /\ ~Done(request[t])
  BY <1>1 DEF FlowOk, Moves, Same, Done, Cleaning
<1>3. OthersStay(t)
  BY <1>1 DEF OthersStay, DownloadsInv, DownloadsShape
<1>4. StagesOk(t, q)'
  <2>1. /\ <<t, "file">> \in stages => <<q.id, q.slot>> \notin objects'
        /\ <<t, "cover">> \in stages => <<q.id, "cover">> \notin objects'
    <3>1. CASE <<t, "file">> \in stages
      <4>1. ObjectFor(t, NextPart(t)) = <<q.id, q.slot>>
        BY <3>1 DEF NextPart, ObjectFor, Moves, Same
      <4>2. <<q.id, "cover">> \notin objects
        BY <1>1, <3>1 DEF StagesOk, Moves, Same
      <4> QED BY <4>1, <4>2
    <3>2. CASE <<t, "file">> \notin stages
      <4>1. ObjectFor(t, NextPart(t)) = <<q.id, "cover">>
        BY <3>2 DEF NextPart, ObjectFor, Moves, Same
      <4> QED BY <3>2, <4>1
    <3> QED BY <3>1, <3>2
  <2> QED BY <1>1, <2>1 DEF StagesOk
<1>5. ObjectFor(t, NextPart(t))[1] = request[t].id
  BY DEF ObjectFor
<1>6. CleanOk(q)'
  BY <1>2 DEF CleanOk, Cleaning
<1>7. /\ LiveFilesExist'
      /\ \A u \in Tabs \ {t} : Own(request[u]) =>
           \A f \in objects : f[1] = request[u].id => f \in objects'
  BY <1>1, <1>2, <1>5, OwnFilesGo
<1> QED BY <1>1, <1>2, <1>3, <1>4, <1>6, <1>7, FilesGo DEF Moves, Same, OwnPcs

\* A failed upload removes what it stored; what it cannot remove is given up.
LEMMA CompensateKeeps ==
  ASSUME DownloadsInv, NEW t \in Tabs, Compensate(t) \/ CompensationFails(t)
  PROVE  DownloadsInv'
<1> USE RequestFacts
<1>0. Goto(t, "refused") /\ "refused" \in RequestPcs
  BY DEF Compensate, CompensationFails, RequestPcs
<1> PICK q \in RequestType : Moves(t, q) /\ q.pc = "refused" /\ q.failed = request[t].failed
  BY <1>0, GoesTo
<1>1. /\ request[t].pc = "compensating"
      /\ UNCHANGED <<resource, revisions, cleanupPending, artifacts, stages, page, issued, unanswered>>
      /\ abandoned \subseteq abandoned'
  BY DEF Compensate, CompensationFails, database
<1>2. FlowOk(q) /\ ~Cleaning(q) /\ ~Done(request[t])
  BY <1>1 DEF FlowOk, Moves, Same, Done, Cleaning
<1>3. /\ objects' \subseteq objects
      /\ \A f \in objects : f[1] # request[t].id => f \in objects'
      /\ request[t].id \in abandoned' \/ objects' = objects \ CommittedFiles(t)
  BY DEF Compensate, CompensationFails, CommittedFiles
<1>4. \A f \in objects' : f[1] = request[t].id => f[1] \in abandoned'
  <2> SUFFICES ASSUME NEW f \in objects', f[1] = request[t].id, request[t].id \notin abandoned'
               PROVE  FALSE
    OBVIOUS
  <2>1. f \in objects /\ f \notin CommittedFiles(t)
    BY <1>3
  <2>2. PICK s \in StagesOf(t) : f = ObjectFor(t, s)
    BY <2>1 DEF CommittedFiles
  <2>3. s \in stages /\ (s = <<t, "file">> \/ s = <<t, "cover">>)
    BY DEF StagesOf, DownloadsInv, DownloadsShape
  <2>4. CASE s = <<t, "file">>
    <3>1. f = <<request[t].id, request[t].slot>>
      BY <2>2, <2>4 DEF ObjectFor
    <3> QED BY <1>1, <2>1, <2>3, <2>4, <3>1 DEF StagesOk
  <2>5. CASE s = <<t, "cover">>
    <3>1. f = <<request[t].id, "cover">>
      BY <2>2, <2>5 DEF ObjectFor
    <3> QED BY <1>1, <2>1, <2>3, <2>5, <3>1 DEF StagesOk
  <2> QED BY <2>3, <2>4, <2>5
<1>5. StagesOk(t, q)'
  BY <1>1, <1>4 DEF StagesOk, Moves, Same
<1>6. CleanOk(q)'
  BY <1>2 DEF CleanOk, Cleaning
<1>7. /\ LiveFilesExist'
      /\ \A u \in Tabs \ {t} : Own(request[u]) =>
           \A f \in objects : f[1] = request[u].id => f \in objects'
  BY <1>1, <1>2, <1>3, OwnFilesGo
<1>8. OthersStay(t)
  BY <1>1 DEF OthersStay, DownloadsInv, DownloadsShape
<1> QED BY <1>1, <1>2, <1>3, <1>5, <1>6, <1>7, <1>8, FilesGo DEF Moves, Same, OwnPcs

\* The cleanup removes a file that no row outside the listed revisions names.
LEMMA RemoveKeeps ==
  ASSUME DownloadsInv, NEW t \in Tabs, RemoveFile(t)
  PROVE  DownloadsInv'
<1> USE RequestFacts
<1> PICK q \in RequestType :
      /\ request' = [request EXCEPT ![t] = q]
      /\ q.pc = "cleaning" /\ q.op = request[t].op /\ q.slot = request[t].slot
      /\ q.id = request[t].id /\ q.pending = request[t].pending
      /\ q.files = request[t].files \ {NextFile(t)} /\ q.result = request[t].result
  <2> DEFINE q == [request[t] EXCEPT !.pc = "cleaning", !.files = @ \ {NextFile(t)}]
  <2>1. /\ q \in RequestType
        /\ q.pc = "cleaning" /\ q.op = request[t].op /\ q.slot = request[t].slot
        /\ q.id = request[t].id /\ q.pending = request[t].pending
        /\ q.files = request[t].files \ {NextFile(t)} /\ q.result = request[t].result
    BY DEF RequestType, RequestPcs
  <2>2. request' = [request EXCEPT ![t] = q]
    BY DEF RemoveFile
  <2> QED BY <2>1, <2>2
<1>1. /\ request[t].pc = "removing" /\ objects' = objects \ {NextFile(t)}
      /\ UNCHANGED <<resource, revisions, cleanupPending, artifacts, stages, page, issued,
                     unanswered, abandoned>>
  BY DEF RemoveFile, database
<1>2. /\ request[t].files # {} /\ NextFile(t) = NextOf(request[t])
      /\ \A a \in artifacts : a.revision \notin cleanupPending => NextFile(t) \notin FilesOf(a)
  BY <1>1 DEF CleanOk, NextOf, NextFile
<1>3. NextFile(t) \in request[t].files
  BY <1>2 DEF NextFile
<1>4. FlowOk(q) /\ Cleaning(request[t])
  BY <1>1 DEF FlowOk, Done, Cleaning
<1>5. StagesOk(t, q)'
  BY <1>1 DEF StagesOk
<1>6. CleanOk(q)'
  BY <1>1, <1>4 DEF CleanOk, Cleaning, References, FilesOf
<1>7. \A u \in Tabs \ {t} : Own(request[u]) =>
        \A f \in objects : f[1] = request[u].id => f \in objects'
  BY <1>1, <1>3 DEF DownloadsInv, OwnInv, Sole
<1>8. LiveFilesExist'
  BY <1>1, <1>2 DEF DownloadsInv, LiveFilesExist, FilesOf
<1>9. OthersStay(t)
  BY <1>1 DEF OthersStay, DownloadsInv, DownloadsShape
<1> QED BY <1>1, <1>4, <1>5, <1>6, <1>7, <1>8, <1>9, FilesGo DEF OwnPcs

-----------------------------------------------------------------------------
\* What a transaction does to the rows.  Rows that are added belong to a new
\* revision; they are copies of rows of a revision that is not marked, or the
\* row of the upload.
Copied(a) == \E b \in artifacts : /\ b.revision \notin cleanupPending
                                  /\ a.slot = b.slot /\ a.key = b.key
Uploaded(t, a) == /\ request[t].op = "upload"
                  /\ a.key = request[t].id /\ a.slot = request[t].slot
New(t, r) == \/ request[t].op # "upload" /\ r = issued + 1 /\ issued' = issued + 1
             \/ request[t].op = "upload" /\ r = request[t].id /\ issued' = issued

TransactionEffect(t) ==
  /\ resource' \in ResourceRow /\ resource'.version > 0 /\ resource'.state # "absent"
  /\ issued' \in {issued, issued + 1}
  /\ revisions' = cleanupPending' \cup ({resource'.draft, resource'.published} \ {None})
  /\ resource'.draft \notin cleanupPending' /\ resource'.published \notin cleanupPending'
  /\ resource'.draft = resource'.published => resource'.draft = None
  /\ revisions \subseteq revisions' /\ cleanupPending \subseteq cleanupPending'
  /\ cleanupPending' \subseteq revisions
  /\ \A r \in revisions' \ revisions : New(t, r)
  /\ artifacts \subseteq artifacts'
  /\ \A a \in artifacts' \ artifacts :
       /\ a \in ArtifactRow /\ a.revision \in revisions' /\ New(t, a.revision)
       /\ Copied(a) \/ Uploaded(t, a)
  /\ request[t].op = "upload" => \E a \in artifacts' : Uploaded(t, a)

\* The operations that make a new draft have it, whatever rows they add.
LEMMA ReplaceEffect ==
  ASSUME DownloadsInv, NEW t \in Tabs, request[t].pc = "working",
         resource.version > 0, NEW rows, ReplaceDraft(t, rows),
         \A a \in rows : /\ a \in ArtifactRow /\ a.revision = NewDraft(t)
                         /\ Copied(a) \/ Uploaded(t, a),
         request[t].op = "upload" => \E a \in rows : Uploaded(t, a)
  PROVE  TransactionEffect(t)
<1> USE RequestFacts
<1> PICK n \in Nat : /\ n = NewDraft(t) /\ n # None /\ n \notin revisions /\ New(t, n)
                     /\ issued' \in {issued, issued + 1}
  <2>1. CASE request[t].op = "upload"
    <3>1. request[t].id # None /\ ~Done(request[t]) /\ request[t].id \in Nat
      BY <2>1 DEF FlowOk, RequestType
    <3>2. request[t].id \notin revisions
      BY <3>1 DEF DownloadsInv, OwnInv, Sole
    <3>3. issued' = issued /\ NewDraft(t) = request[t].id
      BY <2>1 DEF ReplaceDraft, NewDraft
    <3> QED BY <2>1, <3>1, <3>2, <3>3 DEF New
  <2>2. CASE request[t].op # "upload"
    <3>1. issued \in Nat /\ issued' = issued + 1 /\ NewDraft(t) = issued + 1
      BY <2>2 DEF ReplaceDraft, NewDraft, DownloadsInv, DownloadsShape
    <3>2. issued + 1 \notin revisions
      BY <3>1 DEF DownloadsInv, RevisionsInv
    <3> QED BY <2>2, <3>1, <3>2 DEF New, None
  <2> QED BY <2>1, <2>2
<1> DEFINE raised == [resource EXCEPT !.draft = n]
<1>1. /\ revisions' = revisions \cup {n} /\ artifacts' = artifacts \cup rows
      /\ resource' = [raised EXCEPT !.version = resource.version + 1]
      /\ cleanupPending' = cleanupPending \cup ({resource.draft} \ {None})
  BY DEF ReplaceDraft
<1>2. /\ resource' \in ResourceRow /\ resource'.version > 0 /\ resource'.state = resource.state
      /\ resource'.draft = n /\ resource'.published = resource.published
  <2>1. resource \in ResourceRow
    BY DEF DownloadsInv, DownloadsShape
  <2>2. /\ raised \in ResourceRow /\ raised.state = resource.state
        /\ raised.draft = n /\ raised.published = resource.published
    BY <2>1 DEF ResourceRow
  <2> HIDE DEF raised
  <2>3. resource.version + 1 \in Nat /\ resource.version + 1 > 0
    BY <2>1 DEF ResourceRow
  <2> QED BY <1>1, <2>2, <2>3 DEF ResourceRow
<1>3. /\ revisions = cleanupPending \cup ({resource.draft, resource.published} \ {None})
      /\ resource.draft \notin cleanupPending /\ resource.published \notin cleanupPending
      /\ resource.draft = resource.published => resource.draft = None
      /\ resource.state # "absent"
  BY DEF DownloadsInv, RevisionsInv
<1>4. revisions' = cleanupPending' \cup ({resource'.draft, resource'.published} \ {None})
  BY <1>1, <1>2, <1>3
<1>5. resource'.draft \notin cleanupPending' /\ resource'.published \notin cleanupPending'
      /\ (resource'.draft = resource'.published => resource'.draft = None)
  BY <1>1, <1>2, <1>3
<1>6. \A a \in artifacts' \ artifacts :
        /\ a \in ArtifactRow /\ a.revision \in revisions' /\ New(t, a.revision)
        /\ Copied(a) \/ Uploaded(t, a)
  BY <1>1
<1>7. cleanupPending' \subseteq revisions /\ cleanupPending \subseteq cleanupPending'
      /\ \A r \in revisions' \ revisions : New(t, r)
  BY <1>1, <1>3
<1> QED BY <1>1, <1>2, <1>3, <1>4, <1>5, <1>6, <1>7 DEF TransactionEffect

\* A revision that is the draft or the published one is copied row by row.
LEMMA CloneFacts ==
  ASSUME DownloadsInv, NEW source, NEW n \in Nat,
         source = None \/ source \notin cleanupPending, NEW a \in Clone(source, n)
  PROVE  a \in ArtifactRow /\ a.revision = n /\ Copied(a)
<1>1. PICK b \in artifacts : b.revision = source /\ a = [b EXCEPT !.revision = n]
  BY DEF Clone, Rows
<1>2. b \in ArtifactRow /\ b.revision # None
  BY DEF DownloadsInv, DownloadsShape, RevisionsInv, None
<1>3. a \in ArtifactRow /\ a.revision = n /\ a.slot = b.slot /\ a.key = b.key
  BY <1>1, <1>2 DEF ArtifactRow
<1> QED BY <1>1, <1>2, <1>3 DEF Copied

\* Each of the six operations has that effect.
LEMMA TransactionFacts ==
  ASSUME DownloadsInv, NEW t \in Tabs, request[t].pc = "working", Transaction(t)
  PROVE  TransactionEffect(t)
<1> USE RequestFacts
<1>1. resource.version > 0 /\ resource \in ResourceRow /\ issued \in Nat
  BY DEF Transaction, Allowed, DownloadsInv, DownloadsShape
<1>2. /\ revisions = cleanupPending \cup ({resource.draft, resource.published} \ {None})
      /\ resource.draft \notin cleanupPending /\ resource.published \notin cleanupPending
      /\ resource.draft = resource.published => resource.draft = None
      /\ resource.state # "absent"
  BY <1>1 DEF DownloadsInv, RevisionsInv
<1>3. NewDraft(t) \in Nat
  BY <1>1 DEF NewDraft, RequestType
<1>4. CASE request[t].op = "save" /\ SaveTypedDraft(t)
  <2> PICK source : /\ source = IF resource.draft # None THEN resource.draft ELSE resource.published
                    /\ ReplaceDraft(t, Clone(source, NewDraft(t)))
    BY <1>4 DEF SaveTypedDraft
  <2>1. source \notin cleanupPending
    BY <1>2
  <2>2. \A a \in Clone(source, NewDraft(t)) :
          a \in ArtifactRow /\ a.revision = NewDraft(t) /\ Copied(a)
    BY <1>3, <2>1, CloneFacts
  <2> QED BY <1>1, <1>4, <2>2, ReplaceEffect
<1>5. CASE request[t].op = "remove" /\ RemoveDraftArtifact(t)
  <2> DEFINE rows == {a \in Clone(resource.draft, NewDraft(t)) : a.slot # request[t].slot}
  <2>1. ReplaceDraft(t, rows)
    BY <1>5 DEF RemoveDraftArtifact
  <2>2. \A a \in rows : a \in ArtifactRow /\ a.revision = NewDraft(t) /\ Copied(a)
    BY <1>2, <1>3, CloneFacts
  <2> HIDE DEF rows
  <2> QED BY <1>1, <1>5, <2>1, <2>2, ReplaceEffect
<1>6. CASE request[t].op = "upload" /\ AttachUploadedArtifact(t)
  <2> DEFINE kept == {a \in Clone(resource.draft, NewDraft(t)) : a.slot # request[t].slot}
             added == [revision |-> NewDraft(t), slot |-> request[t].slot, key |-> NewDraft(t)]
             rows == kept \cup {added}
  <2>1. ReplaceDraft(t, rows)
    BY <1>6 DEF AttachUploadedArtifact
  <2>2. \A a \in kept : a \in ArtifactRow /\ a.revision = NewDraft(t) /\ Copied(a)
    BY <1>2, <1>3, CloneFacts
  <2>3. added \in ArtifactRow /\ added.revision = NewDraft(t) /\ Uploaded(t, added)
    BY <1>3, <1>6 DEF FlowOk, ArtifactRow, Uploaded, NewDraft
  <2> HIDE DEF kept, added
  <2> QED BY <1>1, <1>6, <2>1, <2>2, <2>3, ReplaceEffect
<1>7. CASE request[t].op = "publish" /\ PublishTyped
  <2> DEFINE shown == [resource EXCEPT !.state = "published", !.published = resource.draft]
             hidden == [shown EXCEPT !.draft = None]
  <2>1. /\ resource' = [hidden EXCEPT !.version = resource.version + 1]
        /\ cleanupPending' = cleanupPending \cup ({resource.published} \ {None})
        /\ UNCHANGED <<revisions, artifacts, issued>>
    BY <1>7 DEF PublishTyped
  <2>2. shown \in ResourceRow /\ shown.state = "published" /\ shown.published = resource.draft
    BY <1>1 DEF ResourceRow
  <2> HIDE DEF shown
  <2>3. /\ hidden \in ResourceRow /\ hidden.state = "published"
        /\ hidden.published = resource.draft /\ hidden.draft = None
    BY <2>2 DEF ResourceRow, None
  <2> HIDE DEF hidden
  <2>4. resource.version + 1 \in Nat /\ resource.version + 1 > 0
    BY <1>1 DEF ResourceRow
  <2>5. /\ resource' \in ResourceRow /\ resource'.version > 0 /\ resource'.state = "published"
        /\ resource'.published = resource.draft /\ resource'.draft = None
    BY <2>1, <2>3, <2>4 DEF ResourceRow
  <2>6. None \notin cleanupPending
    BY <1>2 DEF DownloadsInv, RevisionsInv, None
  <2>7. resource.draft # None
    BY <1>7 DEF Transaction, Allowed
  <2> QED BY <1>2, <1>7, <2>1, <2>5, <2>6, <2>7 DEF TransactionEffect
<1>8. CASE request[t].op = "downline" /\ DownlineTyped
  <2> DEFINE hidden == [resource EXCEPT !.state = "downline", !.published = None]
             drafted == [hidden EXCEPT !.draft = resource.published]
  <2>1. /\ resource' = [drafted EXCEPT !.version = resource.version + 1]
        /\ UNCHANGED <<revisions, cleanupPending, artifacts, issued>>
    BY <1>8 DEF DownlineTyped
  <2>2. hidden \in ResourceRow /\ hidden.state = "downline" /\ hidden.published = None
    BY <1>1 DEF ResourceRow, None
  <2> HIDE DEF hidden
  <2>3. /\ drafted \in ResourceRow /\ drafted.state = "downline"
        /\ drafted.published = None /\ drafted.draft = resource.published
    BY <1>1, <2>2 DEF ResourceRow
  <2> HIDE DEF drafted
  <2>4. resource.version + 1 \in Nat /\ resource.version + 1 > 0
    BY <1>1 DEF ResourceRow
  <2>5. /\ resource' \in ResourceRow /\ resource'.version > 0 /\ resource'.state = "downline"
        /\ resource'.published = None /\ resource'.draft = resource.published
    BY <2>1, <2>3, <2>4 DEF ResourceRow
  <2>6. None \notin cleanupPending
    BY <1>2 DEF DownloadsInv, RevisionsInv, None
  <2>7. resource.draft = None
    BY <1>8 DEF Transaction, Allowed
  <2> QED BY <1>2, <1>8, <2>1, <2>5, <2>6, <2>7 DEF TransactionEffect
<1>9. CASE request[t].op = "discard" /\ DiscardTyped
  <2> PICK s \in {"absent", "unpublished", "published", "downline"} :
        s = (IF resource.state = "downline" THEN "unpublished" ELSE resource.state) /\ s # "absent"
    BY <1>1, <1>2 DEF ResourceRow
  <2> DEFINE moved == [resource EXCEPT !.state = s]
             emptied == [moved EXCEPT !.draft = None]
  <2>1. /\ resource' = [emptied EXCEPT !.version = resource.version + 1]
        /\ cleanupPending' = cleanupPending \cup ({resource.draft} \ {None})
        /\ UNCHANGED <<revisions, artifacts, issued>>
    BY <1>9 DEF DiscardTyped
  <2>2. moved \in ResourceRow /\ moved.state = s /\ moved.published = resource.published
    BY <1>1 DEF ResourceRow
  <2> HIDE DEF moved
  <2>3. /\ emptied \in ResourceRow /\ emptied.state = s
        /\ emptied.published = resource.published /\ emptied.draft = None
    BY <2>2 DEF ResourceRow, None
  <2> HIDE DEF emptied
  <2>4. resource.version + 1 \in Nat /\ resource.version + 1 > 0
    BY <1>1 DEF ResourceRow
  <2>5. /\ resource' \in ResourceRow /\ resource'.version > 0 /\ resource'.state # "absent"
        /\ resource'.published = resource.published /\ resource'.draft = None
    BY <2>1, <2>3, <2>4 DEF ResourceRow
  <2>6. None \notin cleanupPending
    BY <1>2 DEF DownloadsInv, RevisionsInv, None
  <2> QED BY <1>2, <1>9, <2>1, <2>5, <2>6 DEF TransactionEffect
<1> QED BY <1>4, <1>5, <1>6, <1>7, <1>8, <1>9 DEF Transaction

\* The rows of a transaction are taken: what the other requests work on is not
\* touched, and the copies of a row name the files of the row.
LEMMA TransactionKeeps ==
  ASSUME DownloadsInv, NEW t \in Tabs, request[t].pc = "working", TransactionEffect(t),
         NEW q \in RequestType, request' = [request EXCEPT ![t] = q],
         UNCHANGED <<objects, stages, page, abandoned>>,
         unanswered \subseteq unanswered',
         unanswered' \subseteq unanswered \cup ({request[t].id} \ {None}),
         q.op = request[t].op, q.slot = request[t].slot, q.id = request[t].id,
         FlowOk(q), q.pc \in {"releasing", "cleaning", "compensating", "refused"},
         Own(q)' => FALSE,
         q.pc \in {"releasing", "cleaning"} => Done(q),
         q.pc = "refused" => q.id = None \/ Done(q),
         q.pending \subseteq revisions \cup request[t].pending,
         \A f \in q.files : f \in request[t].files \/ \E a \in artifacts' : f \in FilesOf(a),
         q.pc = "cleaning" => /\ q.pending = cleanupPending'
                              /\ \A a \in artifacts' : a.revision \in q.pending =>
                                   FilesOf(a) \subseteq q.files
  PROVE  DownloadsInv'
<1> USE RequestFacts
<1>1. request'[t] = q /\ \A u \in Tabs \ {t} : request'[u] = request[u]
  BY DEF DownloadsInv, DownloadsShape
<1>2. /\ issued \in Nat /\ issued' \in {issued, issued + 1} /\ issued' \in Nat
      /\ \A i \in 1..issued : i \in 1..issued'
      /\ \A i \in 0..issued : i \in 0..issued'
      /\ issued + 1 \notin 0..issued /\ issued + 1 \notin 1..issued
  BY DEF DownloadsInv, DownloadsShape, TransactionEffect
<1>3. request[t].op = "upload" =>
        /\ Sole(request[t]) /\ request[t].id # None /\ ~Done(request[t])
        /\ request[t].id \in 1..issued /\ request[t].slot \in Slots
  BY DEF FlowOk, DownloadsInv, OwnInv, FlowInv, DownloadsShape, None
<1>4. request[t].op # "upload" => request[t].id = None
  BY DEF FlowOk
<1>5. ASSUME NEW r, New(t, r)
      PROVE  /\ r \in 1..issued' /\ r \notin revisions
             /\ \A u \in Tabs : r \notin request[u].pending
             /\ \A u \in Tabs \ {t} : request[u].id # r
  <2>1. CASE request[t].op # "upload"
    <3>1. r = issued + 1 /\ issued' = issued + 1
      BY <1>5, <2>1 DEF New
    <3>2. r \in 1..issued'
      BY <1>2, <3>1
    <3>3. r \notin revisions /\ \A u \in Tabs : r \notin request[u].pending /\ request[u].id # r
      BY <1>2, <3>1 DEF DownloadsInv, RevisionsInv, FlowInv
    <3> QED BY <3>2, <3>3
  <2>2. CASE request[t].op = "upload"
    <3>1. r = request[t].id
      BY <1>5, <2>2 DEF New
    <3>2. \A u \in Tabs \ {t} : request[u].id # r
      BY <1>3, <2>2, <3>1 DEF DownloadsInv, OwnInv
    <3> QED BY <1>2, <1>3, <2>2, <3>1, <3>2 DEF Sole
  <2> QED BY <2>1, <2>2
\* Where the files of the rows come from.
<1>6. ASSUME NEW a \in artifacts', a \notin artifacts
      PROVE  /\ a \in ArtifactRow /\ New(t, a.revision)
             /\ \/ \E b \in artifacts : /\ b.revision \notin cleanupPending
                                        /\ a.key = b.key /\ FilesOf(a) = FilesOf(b)
                \/ /\ request[t].op = "upload" /\ a.key = request[t].id
                   /\ FilesOf(a) = {request[t].id} \X PartsOf(request[t].slot)
  BY <1>6 DEF TransactionEffect, Copied, Uploaded, FilesOf
<1>7. DownloadsShape'
  BY <1>1, <1>2, <1>6 DEF DownloadsInv, DownloadsShape, TransactionEffect
<1>8. \A a \in artifacts' : /\ a.key \in 1..issued
                            /\ \A f \in FilesOf(a) : f[1] = a.key
                            /\ \A u \in Tabs \ {t} : Own(request[u]) => a.key # request[u].id
  <2> SUFFICES ASSUME NEW a \in artifacts'
               PROVE  /\ a.key \in 1..issued
                      /\ \A u \in Tabs \ {t} : Own(request[u]) => a.key # request[u].id
    BY DEF FilesOf
  <2>1. CASE \E b \in artifacts : a.key = b.key
    BY <2>1 DEF DownloadsInv, RevisionsInv, OwnInv, Sole
  <2>2. CASE request[t].op = "upload" /\ a.key = request[t].id
    BY <1>3, <2>2 DEF DownloadsInv, OwnInv
  <2> QED BY <1>6, <2>1, <2>2
<1>9. RevisionsInv'
  <2>1. \A r \in revisions' : r \in 1..issued'
    BY <1>2, <1>5 DEF DownloadsInv, RevisionsInv, TransactionEffect
  <2>2. \A a \in artifacts' : a.revision \in revisions' /\ a.key \in 1..issued'
    BY <1>2, <1>8 DEF DownloadsInv, RevisionsInv, TransactionEffect
  <2>3. (\A f \in objects : f[1] \in 1..issued') /\ (\A r \in unanswered' : r \in 1..issued')
    BY <1>2, <1>3, <1>4 DEF DownloadsInv, RevisionsInv
  <2> QED BY <2>1, <2>2, <2>3 DEF RevisionsInv, TransactionEffect
<1>10. FlowInv'
  <2>1. /\ q.id \in 0..issued'
        /\ \A p \in q.pending : p \in 1..issued'
        /\ \A f \in q.files : f[1] \in 1..issued'
    <3>1. q.id \in 0..issued'
      BY <1>2 DEF DownloadsInv, FlowInv
    <3>2. \A p \in q.pending : p \in 1..issued'
      BY <1>2 DEF DownloadsInv, FlowInv, RevisionsInv
    <3>3. \A f \in q.files : f[1] \in 1..issued'
      BY <1>2, <1>8 DEF DownloadsInv, FlowInv
    <3> QED BY <3>1, <3>2, <3>3
  <2>2. ASSUME NEW u \in Tabs, u # t
        PROVE  /\ FlowOk(request[u]) /\ request[u].id \in 0..issued'
               /\ \A p \in request[u].pending : p \in 1..issued'
               /\ \A f \in request[u].files : f[1] \in 1..issued'
    BY <1>2 DEF DownloadsInv, FlowInv
  <2>3. ASSUME NEW u \in Tabs
        PROVE  /\ FlowOk(request'[u]) /\ request'[u].id \in 0..issued'
               /\ \A p \in request'[u].pending : p \in 1..issued'
               /\ \A f \in request'[u].files : f[1] \in 1..issued'
    BY <1>1, <2>1, <2>2
  <2> QED BY <2>3 DEF FlowInv, FlowOk, Done
<1>11. OwnInv'
  <2>1. \A u, v \in Tabs : u # v /\ request'[u].id = request'[v].id => request'[u].id = None
    BY <1>1 DEF DownloadsInv, OwnInv
  <2>2. ASSUME NEW u \in Tabs, Own(request[u])'
        PROVE  Sole(request[u])'
    <3>1. u # t
      BY <1>1, <2>2 DEF Own, Done
    <3>2. request'[u] = request[u] /\ Own(request[u]) /\ Sole(request[u])
      BY <1>1, <2>2, <3>1 DEF Own, Done, DownloadsInv, OwnInv
    <3>3. request[u].id \notin revisions'
      BY <1>5, <3>1, <3>2 DEF Sole, TransactionEffect
    <3>4. \A a \in artifacts' : a.key # request[u].id
      BY <1>8, <3>1, <3>2
    <3>5. request[u].id \notin q.pending /\ \A f \in q.files : f[1] # request[u].id
      BY <1>8, <3>2, <3>4 DEF Sole
    <3>6. \A v \in Tabs : /\ request[u].id \notin request'[v].pending
                          /\ \A f \in request'[v].files : f[1] # request[u].id
      BY <1>1, <3>2, <3>5 DEF Sole
    <3> QED BY <3>2, <3>3, <3>4, <3>6 DEF Sole
  <2>3. ASSUME NEW u \in Tabs, request'[u].id # None, ~Done(request[u])',
               request'[u].pc \in {"storing", "waiting", "working", "releasing"}
        PROVE  Own(request[u])'
    <3>1. u # t
      BY <1>1, <2>3 DEF Done
    <3>2. request'[u] = request[u] /\ Own(request[u])
      BY <1>1, <2>3, <3>1 DEF Own, Done, DownloadsInv, OwnInv
    <3>3. request[u].id # request[t].id
      BY <3>1, <3>2 DEF Own, DownloadsInv, OwnInv
    <3> QED BY <2>3, <3>2, <3>3 DEF Own
  <2> QED BY <2>1, <2>2, <2>3 DEF OwnInv
<1>12. StagesInv'
  <2>1. StagesOk(t, q)'
    <3>1. \A s \in stages : s[1] # t
      BY DEF StagesOk
    <3> QED BY <3>1 DEF StagesOk, Done
  <2>2. ASSUME NEW u \in Tabs, u # t PROVE StagesOk(u, request[u])'
    <3>1. StagesOk(u, request[u]) /\ request'[u] = request[u]
      BY <1>1, <2>2
    <3> QED BY <3>1 DEF StagesOk, Done
  <2>3. StagesOk(t, request[t])'
    BY <1>1, <2>1 DEF StagesOk, Done
  <2> QED BY <2>2, <2>3 DEF StagesInv
<1>13. CleanupInv'
  <2>1. ASSUME NEW u \in Tabs, u # t
        PROVE  request[u].pending \cap revisions' = request[u].pending \cap revisions
    BY <1>5 DEF TransactionEffect
  <2>2. ASSUME NEW u \in Tabs, u # t
        PROVE  CleanOk(request[u])'
    <3>1. CleanOk(request[u]) /\ request'[u] = request[u]
      BY <1>1, <2>2
    <3>2. Cleaning(request[u]) =>
            request[u].pending \cap revisions' \subseteq cleanupPending'
      BY <2>1, <2>2, <3>1 DEF CleanOk, TransactionEffect
    <3>3. \A a \in artifacts' : a.revision \in request[u].pending => a \in artifacts
      BY <1>5, <1>6
    <3>4. \A f : References(f, request[u].pending) \subseteq References(f, request[u].pending)'
      BY <3>1 DEF References, TransactionEffect, FilesOf
    <3>5. Cleaning(request[u]) => \A a \in artifacts' : a.revision \in request[u].pending =>
            \A f \in FilesOf(a) \cap objects :
              f \in request[u].files \/ References(f, request[u].pending)' # {}
      BY <3>1, <3>3, <3>4 DEF CleanOk
    <3>6. ASSUME request[u].pc = "removing", NEW a \in artifacts', a.revision \notin cleanupPending'
          PROVE  NextOf(request[u]) \notin FilesOf(a)
      <4>1. NextOf(request[u]) \in request[u].files
        BY <3>1, <3>6 DEF CleanOk, NextOf
      <4>2. \A b \in artifacts : b.revision \notin cleanupPending =>
              NextOf(request[u]) \notin FilesOf(b)
        BY <3>1, <3>6 DEF CleanOk
      <4>3. CASE a \in artifacts
        BY <3>6, <4>2, <4>3 DEF TransactionEffect
      <4>4. CASE \E b \in artifacts : b.revision \notin cleanupPending /\ FilesOf(a) = FilesOf(b)
        BY <4>2, <4>4
      <4>5. CASE request[t].op = "upload" /\ a.key = request[t].id
        <5>1. NextOf(request[u])[1] # request[t].id
          BY <1>3, <4>1, <4>5 DEF Sole
        <5> QED BY <1>8, <4>5, <5>1
      <4> QED BY <1>6, <4>3, <4>4, <4>5
    <3> QED BY <3>1, <3>2, <3>5, <3>6 DEF CleanOk, Cleaning, NextOf, FilesOf
  <2>3. CleanOk(request[t])'
    <3>1. Cleaning(q) => q.pc = "cleaning"
      BY DEF Cleaning
    <3> QED BY <1>1, <3>1 DEF CleanOk, Cleaning, FilesOf
  <2>4. ASSUME NEW u \in Tabs, u # t, Cleaning(request'[u]), Cleaning(q)
        PROVE  request'[u].pending \cap revisions' \subseteq q.pending
    <3>1. request'[u] = request[u] /\ CleanOk(request[u]) /\ Cleaning(request[u])
      BY <1>1, <2>4
    <3>2. q.pending = cleanupPending'
      BY <2>4 DEF Cleaning
    <3> QED BY <2>1, <2>4, <3>1, <3>2 DEF CleanOk, TransactionEffect
  <2>5. ASSUME NEW u \in Tabs, NEW v \in Tabs, Cleaning(request'[u]), Cleaning(request'[v])
        PROVE  \/ request'[u].pending \cap revisions' \subseteq request'[v].pending
               \/ request'[v].pending \cap revisions' \subseteq request'[u].pending
    <3>1. CASE u # t /\ v # t
      BY <1>1, <2>1, <2>5, <3>1 DEF DownloadsInv, CleanupInv
    <3>2. CASE u = t /\ v # t
      BY <1>1, <2>4, <2>5, <3>2
    <3>3. CASE u # t /\ v = t
      BY <1>1, <2>4, <2>5, <3>3
    <3> QED BY <3>1, <3>2, <3>3
  <2> QED BY <2>2, <2>3, <2>5 DEF CleanupInv, Cleaning
<1>14. ObjectsInv'
  <2> SUFFICES ASSUME NEW f \in objects, ~\E a \in artifacts' : f \in FilesOf(a),
                      f[1] \notin abandoned
               PROVE  \E u \in Tabs : request'[u].id = f[1] /\ ~Done(request'[u])
    BY DEF ObjectsInv, Done, FilesOf
  <2>1. PICK u \in Tabs : request[u].id = f[1] /\ ~Done(request[u])
    BY DEF DownloadsInv, ObjectsInv, TransactionEffect
  <2>2. CASE u # t
    BY <1>1, <2>1, <2>2
  <2>3. CASE u = t
    <3>1. f[1] # None
      BY DEF DownloadsInv, RevisionsInv, None
    <3>2. request[t].op = "upload"
      BY <1>4, <2>1, <2>3, <3>1
    <3>3. PICK a \in artifacts' : Uploaded(t, a)
      BY <3>2 DEF TransactionEffect
    <3>4. f[2] \in PartsOf(request[t].slot) /\ f = <<f[1], f[2]>>
      BY <1>3, <2>1, <2>3, <3>2 DEF Sole, DownloadsInv, DownloadsShape
    <3>5. f \in FilesOf(a)
      BY <2>1, <2>3, <3>3, <3>4 DEF Uploaded, FilesOf
    <3> QED BY <3>5
  <2> QED BY <2>2, <2>3
<1>15. LiveFilesExist'
  <2> SUFFICES ASSUME NEW a \in artifacts', a.revision \notin cleanupPending', a.key \notin unanswered'
               PROVE  FilesOf(a) \subseteq objects
    BY DEF LiveFilesExist, FilesOf
  <2>1. CASE a \in artifacts
    BY <2>1 DEF DownloadsInv, LiveFilesExist, TransactionEffect
  <2>2. CASE \E b \in artifacts : /\ b.revision \notin cleanupPending
                                  /\ a.key = b.key /\ FilesOf(a) = FilesOf(b)
    BY <2>2 DEF DownloadsInv, LiveFilesExist
  <2>3. CASE /\ request[t].op = "upload"
             /\ FilesOf(a) = {request[t].id} \X PartsOf(request[t].slot)
    BY <2>3 DEF StagesOk
  <2> QED BY <1>6, <2>1, <2>2, <2>3
<1> QED BY <1>7, <1>9, <1>10, <1>11, <1>12, <1>13, <1>14, <1>15 DEF DownloadsInv

\* The COMMIT is answered, or the server hears an error.
LEMMA CommitsKeep ==
  ASSUME DownloadsInv, NEW t \in Tabs, Commit(t) \/ CommitUnanswered(t)
  PROVE  DownloadsInv'
<1> USE RequestFacts
<1>1. /\ request[t].pc = "working" /\ Transaction(t)
      /\ UNCHANGED <<objects, stages, page, abandoned>>
  BY DEF Commit, CommitUnanswered
<1>2. TransactionEffect(t)
  BY <1>1, TransactionFacts
<1>3. CASE CommitUnanswered(t)
  <2>1. /\ AfterFailure(t) \in {"compensating", "refused"}
        /\ AfterFailure(t) = "compensating" <=> request[t].op = "upload"
        /\ unanswered' = unanswered \cup ({request[t].id} \ {None})
    BY <1>3 DEF CommitUnanswered, AfterFailure
  <2> PICK pc \in RequestPcs : pc = AfterFailure(t)
    BY <2>1 DEF RequestPcs
  <2>2. FailTo(t, pc)
    BY <1>3 DEF CommitUnanswered
  <2> PICK q \in RequestType : Moves(t, q) /\ q.pc = pc /\ q.failed = TRUE
    BY <2>2, FailsTo
  <2>3. FlowOk(q) /\ (q.pc = "refused" => q.id = None)
    BY <1>1, <2>1 DEF FlowOk, Moves, Same, Done
  <2>4. Own(q)' => FALSE
    BY <2>1 DEF Own, Moves, Same
  <2> QED BY <1>1, <1>2, <2>1, <2>3, <2>4, TransactionKeeps DEF Moves, Same
<1>4. CASE Commit(t)
  <2> PICK listed \in SUBSET Nat :
        listed = IF request[t].op = "downline" THEN {} ELSE cleanupPending'
    <3>1. cleanupPending' \subseteq Nat
      BY <1>2 DEF TransactionEffect, DownloadsInv, RevisionsInv, DownloadsShape
    <3> QED BY <3>1
  <2> PICK named \in SUBSET (Nat \X Parts) :
        named = UNION {FilesOf(a) : a \in {b \in artifacts' : b.revision \in listed}}
    <3>1. \A a \in artifacts' : a \in ArtifactRow
      BY <1>2 DEF TransactionEffect, DownloadsInv, DownloadsShape
    <3>2. \A a \in ArtifactRow : FilesOf(a) \subseteq Nat \X Parts
      BY DEF ArtifactRow, FilesOf, PartsOf, Parts, Slots
    <3> QED BY <3>1, <3>2
  <2> PICK answer \in [row : ResourceRow, slots : SUBSET Slots] :
        answer = AdminDto(resource, artifacts)' /\ answer.row = resource'
    <3>1. \A a \in artifacts' : a.slot \in Slots
      BY <1>2 DEF TransactionEffect, DownloadsInv, DownloadsShape, ArtifactRow
    <3>2. resource' \in ResourceRow
      BY <1>2 DEF TransactionEffect
    <3> DEFINE shown == {a.slot : a \in {b \in artifacts' : b.revision = resource'.draft}}
    <3>3. AdminDto(resource, artifacts)' = [row |-> resource', slots |-> shown]
      BY DEF AdminDto
    <3>4. shown \in SUBSET Slots
      BY <3>1
    <3> HIDE DEF shown
    <3> QED BY <3>2, <3>3, <3>4
  <2> PICK pc \in RequestPcs : pc = IF listed = {} THEN "releasing" ELSE "cleaning"
    BY DEF RequestPcs
  <2> PICK q \in RequestType :
        /\ request' = [request EXCEPT ![t] = q]
        /\ q.pc = pc /\ q.pending = listed /\ q.files = named /\ q.result = answer
        /\ q.op = request[t].op /\ q.slot = request[t].slot /\ q.id = request[t].id
    <3> DEFINE moved == [request[t] EXCEPT !.pc = pc, !.pending = listed]
               filed == [moved EXCEPT !.files = named]
               q == [filed EXCEPT !.result = answer]
    <3>1. request' = [request EXCEPT ![t] = q]
      <4>1. request' = [request EXCEPT ![t].pc = pc, ![t].pending = listed,
                                       ![t].files = named, ![t].result = answer]
        BY <1>4 DEF Commit, AdminDto
      <4> QED BY <4>1
    <3>2. /\ moved \in RequestType /\ moved.pc = pc /\ moved.pending = listed
          /\ moved.op = request[t].op /\ moved.slot = request[t].slot /\ moved.id = request[t].id
      BY DEF RequestType
    <3> HIDE DEF moved
    <3>3. /\ filed \in RequestType /\ filed.pc = pc /\ filed.pending = listed
          /\ filed.files = named
          /\ filed.op = request[t].op /\ filed.slot = request[t].slot /\ filed.id = request[t].id
      BY <3>2 DEF RequestType
    <3> HIDE DEF filed
    <3>4. /\ q \in RequestType /\ q.pc = pc /\ q.pending = listed /\ q.files = named
          /\ q.result = answer /\ q.op = request[t].op /\ q.slot = request[t].slot
          /\ q.id = request[t].id
      BY <3>3 DEF RequestType
    <3> HIDE DEF q
    <3> QED BY <3>1, <3>4
  <2>3. Done(q) /\ (Own(q)' => FALSE)
    <3>1. resource'.version > 0
      BY <1>2 DEF TransactionEffect
    <3>2. Done(q)
      BY <3>1 DEF Done
    <3> QED BY <3>2 DEF Own, Done
  <2>4. FlowOk(q)
    BY <1>1, <2>3 DEF FlowOk
  <2>5. UNCHANGED unanswered
    BY <1>4 DEF Commit
  <2>6. listed \subseteq revisions
    BY <1>2 DEF TransactionEffect
  <2>7. \A f \in named : \E a \in artifacts' : f \in FilesOf(a)
    OBVIOUS
  <2>8. pc = "cleaning" => listed = cleanupPending'
    OBVIOUS
  <2>9. \A a \in artifacts' : a.revision \in listed => FilesOf(a) \subseteq named
    OBVIOUS
  <2>10. q.pc \in {"releasing", "cleaning"}
    OBVIOUS
  <2>11. /\ q.pending \subseteq revisions \cup request[t].pending
         /\ \A f \in q.files : f \in request[t].files \/ \E a \in artifacts' : f \in FilesOf(a)
         /\ q.pc = "cleaning" => /\ q.pending = cleanupPending'
                                /\ \A a \in artifacts' : a.revision \in q.pending =>
                                     FilesOf(a) \subseteq q.files
    BY <2>6, <2>7, <2>8, <2>9
  <2>12. /\ q.pc \in {"releasing", "cleaning", "compensating", "refused"}
         /\ q.pc \in {"releasing", "cleaning"} => Done(q)
         /\ q.pc = "refused" => q.id = None \/ Done(q)
    BY <2>3, <2>10
  <2>13. unanswered' \subseteq unanswered \cup ({request[t].id} \ {None}) /\ unanswered \subseteq unanswered'
    BY <2>5
  <2>14. q.op = request[t].op /\ q.slot = request[t].slot /\ q.id = request[t].id
    OBVIOUS
  <2> QED BY <1>1, <1>2, <2>3, <2>4, <2>11, <2>12, <2>13, <2>14, TransactionKeeps
<1> QED BY <1>3, <1>4

-----------------------------------------------------------------------------
\* The rows of the revisions that were cleaned up go.  A file that one of them
\* names is named by a row that stays, because the files nobody else names are
\* gone.
LEMMA DeleteKeeps ==
  ASSUME DownloadsInv, NEW t \in Tabs, DeletePending(t)
  PROVE  DownloadsInv'
<1> USE RequestFacts
<1> PICK q \in RequestType : Moves(t, q) /\ q.pc = "releasing" /\ q.failed = request[t].failed
  BY GoesTo DEF DeletePending, RequestPcs
<1> PICK gone \in SUBSET Nat : gone = request[t].pending
  BY DEF RequestType
<1>1. /\ request[t].pc = "cleaning" /\ request[t].files = {}
      /\ artifacts' = {a \in artifacts : a.revision \notin gone}
      /\ revisions' = revisions \ gone
      /\ cleanupPending' = cleanupPending \ gone
      /\ UNCHANGED <<resource, objects, stages, page, issued, unanswered, abandoned>>
  BY DEF DeletePending
<1>2. Cleaning(request[t]) /\ Done(request[t]) /\ Done(q)
  BY <1>1 DEF FlowOk, Done, Cleaning, Moves, Same
<1>3. request'[t] = q /\ \A u \in Tabs \ {t} : request'[u] = request[u]
  BY DEF DownloadsInv, DownloadsShape, Moves
<1>4. gone \cap revisions \subseteq cleanupPending
  BY <1>2 DEF CleanOk
<1>5. \A a \in artifacts : a.revision \in gone =>
        \A f \in FilesOf(a) \cap objects : \E b \in artifacts' : f \in FilesOf(b)
  BY <1>1, <1>2 DEF CleanOk, References
<1>6. FlowOk(q) /\ ~Cleaning(q)
  BY <1>1, <1>2 DEF FlowOk, Moves, Same, Cleaning
<1>7. DownloadsShape'
  <2>1. artifacts' \in SUBSET ArtifactRow /\ request' \in [Tabs -> RequestType]
    BY <1>1 DEF DownloadsInv, DownloadsShape, Moves
  <2>2. \A u \in Tabs : request'[u].pc # "idle" => page[u].row.version > 0
    BY <1>1, <1>3 DEF DownloadsInv, DownloadsShape
  <2> QED BY <1>1, <2>1, <2>2 DEF DownloadsInv, DownloadsShape
<1>8. RevisionsInv'
  BY <1>1, <1>4 DEF DownloadsInv, RevisionsInv
<1>9. FlowInv'
  BY <1>1, <1>3, <1>6 DEF DownloadsInv, FlowInv, Moves, Same
<1>10. \A u \in Tabs : /\ request'[u].pending = request[u].pending
                       /\ request'[u].files = request[u].files
                       /\ request'[u].id = request[u].id
                       /\ request'[u].slot = request[u].slot
                       /\ Done(request'[u]) <=> Done(request[u])
  BY <1>3 DEF Moves, Same, Done
<1>11. OwnInv'
  <2>1. ASSUME NEW u \in Tabs, Own(request[u])'
        PROVE  Sole(request[u])'
    <3>1. Own(request[u]) /\ Sole(request[u])
      BY <1>1, <1>10, <2>1 DEF Own, Done, DownloadsInv, OwnInv
    <3> QED BY <1>1, <1>10, <3>1 DEF Sole
  <2>2. ASSUME NEW u \in Tabs, request'[u].id # None, ~Done(request[u])',
               request'[u].pc \in {"storing", "waiting", "working", "releasing"}
        PROVE  Own(request[u])'
    <3>1. u # t
      BY <1>2, <1>3, <2>2 DEF Done
    <3> QED BY <1>1, <1>3, <2>2, <3>1 DEF DownloadsInv, OwnInv, Own, Done
  <2> QED BY <1>10, <2>1, <2>2 DEF DownloadsInv, OwnInv
<1>12. StagesInv'
  <2>1. ASSUME NEW u \in Tabs, u # t PROVE StagesOk(u, request[u])'
    <3>1. StagesOk(u, request[u]) /\ request'[u] = request[u]
      BY <1>3, <2>1
    <3> QED BY <1>1, <3>1 DEF StagesOk, Done
  <2>2. StagesOk(t, request[t])'
    BY <1>1, <1>3 DEF StagesOk, Done
  <2> QED BY <2>1, <2>2 DEF StagesInv
<1>13. CleanupInv'
  <2>1. ASSUME NEW u \in Tabs, u # t PROVE CleanOk(request[u])'
    <3>1. CleanOk(request[u]) /\ request'[u] = request[u]
      BY <1>3, <2>1
    <3>2. Cleaning(request[u]) => request[u].pending \cap revisions' \subseteq cleanupPending'
      BY <1>1, <3>1 DEF CleanOk
    <3>3. ASSUME Cleaning(request[u]), NEW a \in artifacts', a.revision \in request[u].pending,
                 NEW f \in FilesOf(a) \cap objects, f \notin request[u].files
          PROVE  \E b \in artifacts' : b.revision \notin request[u].pending /\ f \in FilesOf(b)
      <4>1. a \in artifacts /\ a.revision \in revisions /\ a.revision \notin gone
        BY <1>1, <3>3 DEF DownloadsInv, RevisionsInv
      <4>2. gone \cap revisions \subseteq request[u].pending
        BY <1>2, <2>1, <3>3, <4>1 DEF DownloadsInv, CleanupInv
      <4>3. PICK b \in artifacts : b.revision \notin request[u].pending /\ f \in FilesOf(b)
        BY <3>1, <3>3, <4>1 DEF CleanOk, References
      <4>4. b \in artifacts'
        BY <1>1, <4>2, <4>3 DEF DownloadsInv, RevisionsInv
      <4> QED BY <4>3, <4>4
    <3>4. Cleaning(request[u]) => \A a \in artifacts' : a.revision \in request[u].pending =>
            \A f \in FilesOf(a) \cap objects :
              f \in request[u].files \/ References(f, request[u].pending)' # {}
      BY <3>1, <3>3 DEF References, FilesOf
    <3>5. request[u].pc = "removing" =>
            \A a \in artifacts' : a.revision \notin cleanupPending' =>
              NextOf(request[u]) \notin FilesOf(a)
      BY <1>1, <3>1 DEF CleanOk
    <3> QED BY <1>1, <3>1, <3>2, <3>4, <3>5 DEF CleanOk, Cleaning, NextOf, FilesOf
  <2>2. CleanOk(request[t])'
    BY <1>3, <1>6 DEF CleanOk, Cleaning
  <2>3. \A u \in Tabs : Cleaning(request'[u]) => Cleaning(request[u])
    BY <1>3, <1>6
  <2> QED BY <1>1, <1>10, <2>1, <2>2, <2>3 DEF DownloadsInv, CleanupInv, Cleaning
<1>14. ObjectsInv'
  <2> SUFFICES ASSUME NEW f \in objects PROVE
                 \/ \E a \in artifacts' : f \in FilesOf(a)
                 \/ f[1] \in abandoned
                 \/ \E u \in Tabs : request'[u].id = f[1] /\ ~Done(request'[u])
    BY <1>1 DEF ObjectsInv, Done, FilesOf
  <2>1. CASE \E a \in artifacts : f \in FilesOf(a)
    BY <1>1, <1>5, <2>1
  <2> QED BY <1>10, <2>1 DEF DownloadsInv, ObjectsInv
<1>15. LiveFilesExist'
  <2>1. \A a \in artifacts' : a \in artifacts /\ (a.revision \notin cleanupPending' =>
                                                    a.revision \notin cleanupPending)
    BY <1>1
  <2> QED BY <1>1, <2>1 DEF DownloadsInv, LiveFilesExist, FilesOf
<1> QED BY <1>7, <1>8, <1>9, <1>11, <1>12, <1>13, <1>14, <1>15 DEF DownloadsInv

-----------------------------------------------------------------------------
\* Pages, visitors and the lock are no part of what the requests rely on.
LEMMA PagesKeep ==
  ASSUME DownloadsInv,
         UNCHANGED <<resource, revisions, cleanupPending, artifacts, objects, stages, request,
                     issued, unanswered, abandoned>>,
         page' \in [Tabs -> [row : ResourceRow, slots : SUBSET Slots]],
         \A t \in Tabs : request[t].pc # "idle" => page'[t] = page[t]
  PROVE  DownloadsInv'
<1>1. DownloadsShape'
  BY DEF DownloadsInv, DownloadsShape
<1>2. RevisionsInv' /\ FlowInv' /\ ObjectsInv' /\ LiveFilesExist'
  BY DEF DownloadsInv, RevisionsInv, FlowInv, FlowOk, ObjectsInv, LiveFilesExist, Done, FilesOf
<1>3. OwnInv' /\ StagesInv'
  BY DEF DownloadsInv, OwnInv, Own, Sole, Done, StagesInv, StagesOk
<1>4. CleanupInv'
  BY DEF DownloadsInv, CleanupInv, CleanOk, Cleaning, NextOf, References, FilesOf
<1> QED BY <1>1, <1>2, <1>3, <1>4 DEF DownloadsInv

LEMMA ShownIsTyped ==
  ASSUME NEW row \in ResourceRow, NEW rows \in SUBSET ArtifactRow
  PROVE  AdminDto(row, rows) \in [row : ResourceRow, slots : SUBSET Slots]
<1> DEFINE shown == {a.slot : a \in {b \in rows : b.revision = row.draft}}
<1>1. shown \in SUBSET Slots
  BY DEF ArtifactRow
<1>2. AdminDto(row, rows) = [row |-> row, slots |-> shown]
  BY DEF AdminDto
<1> HIDE DEF shown
<1> QED BY <1>1, <1>2

LEMMA FrameKeeps ==
  ASSUME DownloadsInv,
         \/ \E t \in Tabs : SessionDies(t) \/ Reload(t)
         \/ \E r \in Readers : ReaderStep(r)
         \/ UNCHANGED downloadVars
  PROVE  DownloadsInv'
<1>1. /\ page \in [Tabs -> [row : ResourceRow, slots : SUBSET Slots]]
      /\ resource \in ResourceRow /\ artifacts \in SUBSET ArtifactRow
  BY DEF DownloadsInv, DownloadsShape
<1>2. CASE \E t \in Tabs : Reload(t)
  <2> PICK t \in Tabs : Reload(t)
    BY <1>2
  <2> PICK shown \in [row : ResourceRow, slots : SUBSET Slots] : shown = AdminDto(resource, artifacts)
    BY <1>1, ShownIsTyped
  <2>1. /\ request[t].pc = "idle" /\ page' = [page EXCEPT ![t] = shown]
        /\ UNCHANGED <<resource, revisions, cleanupPending, artifacts, objects, stages, request,
                       issued, unanswered, abandoned>>
    BY DEF Reload, database
  <2> QED BY <1>1, <2>1, PagesKeep
<1>3. CASE \E t \in Tabs : SessionDies(t)
  BY <1>1, <1>3, PagesKeep DEF SessionDies, database
<1>4. CASE \E r \in Readers : ReaderStep(r)
  <2>1. UNCHANGED <<resource, revisions, cleanupPending, artifacts, objects, stages, request, page,
                    issued, unanswered, abandoned>>
    BY <1>4 DEF ReaderStep, ReadRow, ReadArtifacts, InspectFiles, OpenFile, ParseForSize, Respond,
                RespondUnsatisfiable, ReaderDone, ReadOnly, database
  <2> QED BY <1>1, <2>1, PagesKeep
<1>5. CASE UNCHANGED downloadVars
  BY <1>1, <1>5, PagesKeep DEF downloadVars, database
<1> QED BY <1>2, <1>3, <1>4, <1>5

LEMMA CreateKeeps ==
  ASSUME DownloadsInv, NEW t \in Tabs, NEW kind \in Kinds, Create(t, kind)
  PROVE  DownloadsInv'
<1> PICK row \in ResourceRow :
      /\ resource' = row /\ row.draft = None /\ row.published = None
      /\ row.state = "unpublished" /\ row.version = 1
  <2> DEFINE new == [Absent EXCEPT !.kind = kind, !.state = "unpublished"]
             row == [new EXCEPT !.version = 1]
  <2>1. new \in ResourceRow /\ new.draft = None /\ new.published = None /\ new.state = "unpublished"
    BY DEF Absent, ResourceRow, None
  <2>2. resource' = row
    BY DEF Create
  <2> HIDE DEF new
  <2>3. /\ row \in ResourceRow /\ row.draft = None /\ row.published = None
        /\ row.state = "unpublished" /\ row.version = 1
    BY <2>1 DEF ResourceRow
  <2> QED BY <2>2, <2>3
<1>1. /\ resource.state = "absent" /\ request[t].pc = "idle"
      /\ page' = [page EXCEPT ![t] = AdminDto(row, {})]
      /\ UNCHANGED <<revisions, cleanupPending, artifacts, objects, stages, request, issued,
                     unanswered, abandoned>>
  BY DEF Create
<1> PICK shown \in [row : ResourceRow, slots : SUBSET Slots] :
      shown = AdminDto(row, {})
  <2>1. {} \in SUBSET ArtifactRow
    OBVIOUS
  <2> QED BY <2>1, ShownIsTyped
<1>2. DownloadsShape'
  <2>1. page' \in [Tabs -> [row : ResourceRow, slots : SUBSET Slots]]
    BY <1>1 DEF DownloadsInv, DownloadsShape
  <2>2. \A u \in Tabs : request[u].pc # "idle" => page'[u].row.version > 0
    BY <1>1 DEF DownloadsInv, DownloadsShape
  <2> QED BY <1>1, <2>1, <2>2 DEF DownloadsInv, DownloadsShape
<1>3. RevisionsInv'
  BY <1>1 DEF DownloadsInv, RevisionsInv
<1>4. FlowInv' /\ ObjectsInv' /\ LiveFilesExist'
  BY <1>1 DEF DownloadsInv, FlowInv, FlowOk, ObjectsInv, LiveFilesExist, Done, FilesOf
<1>5. OwnInv' /\ StagesInv'
  BY <1>1 DEF DownloadsInv, OwnInv, Own, Sole, Done, StagesInv, StagesOk
<1>6. CleanupInv'
  BY <1>1 DEF DownloadsInv, CleanupInv, CleanOk, Cleaning, NextOf, References, FilesOf
<1> QED BY <1>2, <1>3, <1>4, <1>5, <1>6 DEF DownloadsInv

-----------------------------------------------------------------------------
\* No request runs: at the beginning and after the process died.
LEMMA IdleFacts ==
  /\ NoRequest \in RequestType /\ NoRequest.id = None /\ NoRequest.pc = "idle"
  /\ NoRequest.op = "none" /\ NoRequest.pending = {} /\ NoRequest.files = {}
  /\ ~Done(NoRequest)
BY DEF NoRequest, RequestType, RequestPcs, ResourceRow, Absent, Kinds, Done, None

LEMMA IdleServer ==
  ASSUME request = [t \in Tabs |-> NoRequest], stages = {},
         resource \in ResourceRow, artifacts \in SUBSET ArtifactRow,
         objects \in SUBSET (Nat \X Parts),
         page \in [Tabs -> [row : ResourceRow, slots : SUBSET Slots]],
         issued \in Nat, RevisionsInv, LiveFilesExist,
         \A f \in objects : (\E a \in artifacts : f \in FilesOf(a)) \/ f[1] \in abandoned
  PROVE  DownloadsInv
<1> USE IdleFacts
<1> PICK q \in RequestType :
      /\ q.id = None /\ q.pc = "idle" /\ q.op = "none" /\ q.pending = {} /\ q.files = {}
      /\ ~Done(q) /\ q = NoRequest
  OBVIOUS
<1>1. \A t \in Tabs : request[t] = q
  OBVIOUS
<1>2. DownloadsShape
  BY <1>1 DEF DownloadsShape
<1>3. FlowInv
  BY <1>1 DEF FlowInv, FlowOk, None
<1>4. OwnInv
  BY <1>1 DEF OwnInv, Own
<1>5. StagesInv
  BY <1>1 DEF StagesInv, StagesOk
<1>6. CleanupInv
  BY <1>1 DEF CleanupInv, CleanOk, Cleaning
<1>7. ObjectsInv
  BY DEF ObjectsInv
<1> QED BY <1>2, <1>3, <1>4, <1>5, <1>6, <1>7 DEF DownloadsInv

LEMMA DeathKeeps ==
  ASSUME DownloadsInv, ServerDies
  PROVE  DownloadsInv'
<1>1. /\ request' = [t \in Tabs |-> NoRequest] /\ stages' = Stray(stages)
      /\ abandoned' = abandoned \cup ({request[t].id : t \in Tabs} \ {None})
      /\ UNCHANGED <<resource, revisions, cleanupPending, artifacts, objects, page, issued,
                     unanswered>>
  BY DEF ServerDies, database
<1>2. RevisionsInv' /\ LiveFilesExist'
  BY <1>1 DEF DownloadsInv, RevisionsInv, LiveFilesExist, FilesOf
<1>3. ASSUME NEW f \in objects, ~\E a \in artifacts : f \in FilesOf(a)
      PROVE  f[1] \in abandoned'
  <2>1. f[1] # None
    BY DEF DownloadsInv, RevisionsInv, None
  <2> QED BY <1>1, <1>3, <2>1 DEF DownloadsInv, ObjectsInv
<1>4. /\ resource' \in ResourceRow /\ artifacts' \in SUBSET ArtifactRow
      /\ objects' \in SUBSET (Nat \X Parts) /\ issued' \in Nat
      /\ page' \in [Tabs -> [row : ResourceRow, slots : SUBSET Slots]]
  BY <1>1 DEF DownloadsInv, DownloadsShape
<1>5. \A f \in objects' : (\E a \in artifacts' : f \in FilesOf(a)) \/ f[1] \in abandoned'
  BY <1>1, <1>3
<1> USE IdleFacts
<1> PICK q \in RequestType :
      /\ q.id = None /\ q.pc = "idle" /\ q.op = "none" /\ q.pending = {} /\ q.files = {}
      /\ ~Done(q) /\ q = NoRequest
  OBVIOUS
<1>6. \A t \in Tabs : request'[t] = q
  BY <1>1
<1>13. stages' \subseteq {Nobody} \X {"file", "cover"}
  BY <1>1 DEF Stray, DownloadsInv, DownloadsShape
<1>7. DownloadsShape'
  BY <1>1, <1>4, <1>6, <1>13 DEF DownloadsShape
<1>8. FlowInv'
  BY <1>4, <1>6 DEF FlowInv, FlowOk, Done, None
<1>9. OwnInv'
  BY <1>6 DEF OwnInv, Own
<1>10. StagesInv'
  BY <1>6, <1>13, DownloadsAssumption DEF StagesInv, StagesOk
<1>11. CleanupInv'
  BY <1>6 DEF CleanupInv, CleanOk, Cleaning
<1>12. ObjectsInv'
  BY <1>5 DEF ObjectsInv, FilesOf
<1> QED BY <1>2, <1>7, <1>8, <1>9, <1>10, <1>11, <1>12 DEF DownloadsInv

LEMMA DownloadsInitHolds ==
  ASSUME DownloadsAssumption, DownloadsInit
  PROVE  DownloadsInv
<1>1. /\ request = [t \in Tabs |-> NoRequest] /\ stages = {} /\ unanswered = {}
      /\ cleanupPending = {} /\ page = [t \in Tabs |-> [row |-> Absent, slots |-> {}]]
  BY DEF DownloadsInit
<1>2. Absent \in ResourceRow /\ Absent.draft = None /\ Absent.published = None
      /\ Absent.version = 0
  BY DEF Absent, ResourceRow, Kinds, None
<1>3. page \in [Tabs -> [row : ResourceRow, slots : SUBSET Slots]]
  BY <1>1, <1>2
<1>4. CASE resource = Absent /\ issued = 0 /\ revisions = {} /\ artifacts = {} /\ objects = {}
  <2>1. RevisionsInv
    BY <1>1, <1>2, <1>4 DEF RevisionsInv
  <2>2. LiveFilesExist
    BY <1>4 DEF LiveFilesExist
  <2> QED BY <1>1, <1>2, <1>3, <1>4, <2>1, <2>2, IdleServer
<1>5. CASE /\ resource = [kind |-> "document", state |-> "published", published |-> 1,
                          draft |-> 2, version |-> 2]
           /\ issued = 2 /\ revisions = {1, 2}
           /\ artifacts = [revision : {1, 2}, slot : {"document"}, key : {1}]
           /\ objects = {1} \X PartsOf("document")
  <2>1. resource \in ResourceRow
    BY <1>5 DEF ResourceRow, Kinds
  <2>2. /\ artifacts \in SUBSET ArtifactRow
        /\ \A a \in artifacts : a.revision \in {1, 2} /\ a.key = 1 /\ a.slot = "document"
    BY <1>5 DEF ArtifactRow, Slots
  <2>3. objects \in SUBSET (Nat \X Parts) /\ \A f \in objects : f[1] = 1
    BY <1>5 DEF PartsOf, Parts, Slots
  <2>4. \A a \in artifacts : FilesOf(a) = objects
    BY <1>5, <2>2 DEF FilesOf
  <2>5. \E a \in artifacts : TRUE
    <3>1. [revision |-> 1, slot |-> "document", key |-> 1] \in artifacts
      BY <1>5
    <3> QED BY <3>1
  <2>6. RevisionsInv
    BY <1>1, <1>5, <2>2, <2>3 DEF RevisionsInv, None
  <2>7. LiveFilesExist
    BY <2>4 DEF LiveFilesExist
  <2> QED BY <1>1, <1>3, <1>5, <2>1, <2>2, <2>3, <2>4, <2>5, <2>6, <2>7, IdleServer
<1> QED BY <1>4, <1>5 DEF DownloadsInit

LEMMA DownloadsStepKept ==
  ASSUME DownloadsInv, [DownloadsNext]_downloadVars
  PROVE  DownloadsInv'
<1>1. CASE \E t \in Tabs : TabStep(t)
  <2> PICK t \in Tabs : TabStep(t)
    BY <1>1
  <2> QED BY CreateKeeps, FrameKeeps, SubmitKeeps, CancelKeeps DEF TabStep
<1>2. CASE \E t \in Tabs : ServerStep(t)
  <2> PICK t \in Tabs : ServerStep(t)
    BY <1>2
  <2>1. CASE StoreFails(t)
    <3>1. CASE /\ objects' = objects \ {ObjectFor(t, NextPart(t))} /\ UNCHANGED abandoned
               /\ \E gone \in SUBSET {NextPart(t)} : stages' = stages \ gone
      BY <2>1, <3>1, RollbackKeeps
    <3>2. CASE abandoned' = abandoned \cup {request[t].id} /\ UNCHANGED <<objects, stages>>
      BY <2>1, <3>2, StoringEnds
    <3> QED BY <2>1, <3>1, <3>2 DEF StoreFails
  <2> QED BY <2>1, ReceivingKeeps, AttachKeeps, LinkKeeps, UnlinkKeeps, StoringEnds, LockingKeeps,
             CommitsKeep, CountingKeeps, RemoveKeeps, DeleteKeeps, ReleasingKeeps, FrameKeeps,
             CompensateKeeps, EndsKeep DEF ServerStep
<1> QED BY <1>1, <1>2, DeathKeeps, FrameKeeps DEF DownloadsNext

\* The parts of the invariant hold together, whatever the requests, the lost
\* sessions and the deaths of the process do to one another.
THEOREM DownloadsInvariant == DownloadsSpec => []DownloadsInv
<1>1. DownloadsInit => DownloadsInv
  BY DownloadsAssumption, DownloadsInitHolds
<1>2. DownloadsInv /\ [DownloadsNext]_downloadVars => DownloadsInv'
  BY DownloadsStepKept
<1> QED BY <1>1, <1>2, PTL DEF DownloadsSpec

\* The files of the draft and of the published revision are on the disk: stored
\* before the transaction, removed only when no row outside names them.
THEOREM FilesCorrect == DownloadsSpec => []LiveFilesExist
<1>1. DownloadsInv => LiveFilesExist
  BY DEF DownloadsInv
<1> QED BY <1>1, DownloadsInvariant, PTL

\* A stage of which no request knows the name was lost by a failure: when the
\* process died, or when an unlink failed and its error was swallowed.
StrayInv == /\ downloadFaults \in Nat
            /\ \A s \in stages : s[1] = Nobody => downloadFaults > 0

\* What a step does to the failures, and that only a failure loses a name.
Careful == NoFault /\ \A s \in stages' : s \in stages \/ s[1] \in Tabs

LEMMA StraysNeedFaults ==
  ASSUME DownloadsInv, StrayInv, [DownloadsNext]_downloadVars
  PROVE  StrayInv'
<1>1. ASSUME NEW t \in Tabs, TabStep(t)
      PROVE  Careful
  BY <1>1 DEF TabStep, Create, Reload, Submit, CancelUpload, Careful
<1>2. ASSUME NEW t \in Tabs, ServerStep(t)
      PROVE  Careful \/ Fault
  <2>1. CASE ReceiveFails(t) \/ Refuse(t)
    <3>1. PICK left \in SUBSET StagesOf(t) :
            /\ DiscardStages(t, left)
            /\ left # {} => Fault
            /\ Fault \/ NoFault
      BY <2>1 DEF ReceiveFails, Refuse
    <3>2. left = {} => \A s \in stages' : s \in stages
      BY <3>1 DEF DiscardStages, Stray
    <3> QED BY <3>1, <3>2 DEF Careful
  <2>2. CASE DeriveFails(t)
    <3>1. PICK left \in SUBSET {"cover"} :
            /\ stages' = stages \cup ({Nobody} \X left)
            /\ left # {} => Fault
            /\ Fault \/ NoFault
      BY <2>2 DEF DeriveFails
    <3>2. left = {} => stages' = stages
      BY <3>1
    <3> QED BY <3>1, <3>2 DEF Careful
  <2>3. CASE OpenStage(t) \/ BeginAttach(t) \/ UnlinkStage(t)
    BY <2>3 DEF OpenStage, BeginAttach, UnlinkStage, Careful
  <2>4. CASE ~(ReceiveFails(t) \/ Refuse(t) \/ DeriveFails(t) \/ OpenStage(t) \/ BeginAttach(t)
                 \/ UnlinkStage(t))
    BY <1>2, <2>4 DEF ServerStep, Received, LinkFile, AllStored, StoreAborts, StoreFails, AcquireLock,
         LockTimesOut, WorkFails, Commit, CommitUnanswered, KeepReferenced, CountedZero, RemoveFile,
         DeletePending, CleanupFails, SessionDies, Release, Compensate, CompensationFails, Answer, Careful
  <2> QED BY <2>1, <2>2, <2>3, <2>4
<1>3. ASSUME NEW r \in Readers, ReaderStep(r)
      PROVE  Careful
  BY <1>3 DEF ReaderStep, ReadRow, ReadArtifacts, InspectFiles, OpenFile, ParseForSize, Respond,
              RespondUnsatisfiable, ReaderDone, ReadOnly, Careful
<1>4. UNCHANGED downloadVars => Careful
  BY DEF downloadVars, NoFault, Careful
<1>5. Careful \/ Fault
  BY <1>1, <1>2, <1>3, <1>4 DEF DownloadsNext, ServerDies
<1>6. Nobody \notin Tabs
  BY DownloadsAssumption
<1>7. CASE Careful
  BY <1>6, <1>7 DEF Careful, NoFault, StrayInv
<1>8. CASE Fault
  BY <1>8 DEF Fault, StrayInv
<1> QED BY <1>5, <1>7, <1>8

\* Nothing stays behind without someone who removes it but for a failure: a
\* revision is in use or marked, a file is named by a row, is an upload's that
\* still runs or was given up, and a stage belongs to a request that has yet to
\* store it or to discard it, or a failure lost its name.
THEOREM DiskCorrect == DownloadsSpec => []NothingLeftBehind
<1>1. DownloadsInv /\ StrayInv => NothingLeftBehind
  <2> SUFFICES ASSUME DownloadsInv, StrayInv PROVE NothingLeftBehind
    OBVIOUS
  <2>1. revisions = cleanupPending \cup ({resource.draft, resource.published} \ {None})
    BY DEF DownloadsInv, RevisionsInv
  <2>2. ASSUME NEW f \in objects
        PROVE  \/ References(f, {}) # {}
               \/ f[1] \in abandoned
               \/ \E t \in Tabs : request[t].id = f[1] /\ ~Committed(t)
    BY DEF DownloadsInv, ObjectsInv, References, Done, Committed
  <2>3. ASSUME NEW s \in stages
        PROVE  IF s[1] = Nobody THEN downloadFaults > 0
               ELSE request[s[1]].pc \in {"receiving", "staged", "storing", "compensating", "refused"}
    <3>1. CASE s[1] = Nobody
      BY <3>1 DEF StrayInv
    <3>2. CASE s[1] # Nobody
      <4>1. s[1] \in Tabs
        BY <3>2 DEF DownloadsInv, DownloadsShape
      <4> QED BY <3>2, <4>1 DEF DownloadsInv, StagesInv, StagesOk
    <3> QED BY <3>1, <3>2
  <2> QED BY <2>1, <2>2, <2>3 DEF NothingLeftBehind
<1>2. DownloadsInit => StrayInv
  BY DEF DownloadsInit, StrayInv
<1>3. DownloadsInv /\ StrayInv /\ [DownloadsNext]_downloadVars => StrayInv'
  BY StraysNeedFaults
<1> QED BY <1>1, <1>2, <1>3, DownloadsInvariant, PTL DEF DownloadsSpec

-----------------------------------------------------------------------------
(* DownloadResources: what a visitor gets                                   *)

\* A visitor is served the bytes that the range asks of the file at hand.
ReaderType ==
  [pc : {"idle", "row", "artifacts", "intact", "opened", "again", "served"},
   slot : Slots \cup {"none"}, range : Ranges \cup {"none"}, revision : Nat,
   rows : SUBSET ArtifactRow, bytes : Int \X Int, file : Nat]
Fits(q) == /\ q.bytes[2] < SizeOf(q.file)
           /\ q.bytes = ParseRange(q.range, SizeOf(q.file))
ReadersInv == /\ reader \in [Readers -> ReaderType]
              /\ \A r \in Readers : reader[r].pc = "served" => Fits(reader[r])

LEMMA ReaderMoves ==
  ASSUME ReadersInv, NEW r \in Readers, NEW q \in ReaderType,
         reader' = [reader EXCEPT ![r] = q], q.pc = "served" => Fits(q)
  PROVE  ReadersInv'
BY DEF ReadersInv, Fits

\* A range that the file has ends within the file.
LEMMA RangesFit ==
  ASSUME NEW key \in Nat, NEW range \in Ranges
  PROVE  /\ SizeOf(key) \in {2, 3}
         /\ ParseRange(range, SizeOf(key)) \in Int \X Int
         /\ Satisfiable(range, SizeOf(key)) => ParseRange(range, SizeOf(key))[2] < SizeOf(key)
<1>1. SizeOf(key) \in {2, 3}
  BY DEF SizeOf
<1>2. ASSUME NEW size \in {2, 3}
      PROVE  /\ ParseRange(range, size) \in Int \X Int
             /\ Satisfiable(range, size) => ParseRange(range, size)[2] < size
  BY DEF ParseRange, Satisfiable, Ranges
<1> QED BY <1>1, <1>2

LEMMA ReaderStepKept ==
  ASSUME ReadersInv, DownloadsInv, NEW r \in Readers, ReaderStep(r)
  PROVE  ReadersInv'
<1>0. /\ reader[r] \in ReaderType /\ reader \in [Readers -> ReaderType]
      /\ artifacts \in SUBSET ArtifactRow /\ resource.published \in Nat
  BY DEF ReadersInv, DownloadsInv, DownloadsShape, ResourceRow
<1> PICK none \in ReaderType : none = NoReader /\ none.pc = "idle"
  <2>1. NoReader \in ReaderType
    BY DEF NoReader, ReaderType, None
  <2>2. NoReader.pc = "idle"
    BY DEF NoReader
  <2> QED BY <2>1, <2>2
<1>1. CASE ReaderFails(r)
  BY <1>1, ReaderMoves DEF ReaderFails
<1>2. CASE ReadRow(r) /\ resource.state = "published"
  <2> DEFINE q == [reader[r] EXCEPT !.pc = "row", !.revision = resource.published]
  <2>1. q \in ReaderType /\ q.pc = "row"
    BY <1>0 DEF ReaderType
  <2>2. reader' = [reader EXCEPT ![r] = q]
    BY <1>0, <1>2 DEF ReadRow
  <2> HIDE DEF q
  <2> QED BY <2>1, <2>2, ReaderMoves
<1>3. CASE ReadArtifacts(r)
  <2> PICK rows \in SUBSET ArtifactRow : rows = Rows(reader[r].revision)
    BY <1>0 DEF Rows
  <2> DEFINE p == [reader[r] EXCEPT !.pc = "artifacts", !.revision = None]
             q == [p EXCEPT !.rows = rows]
  <2>1. p \in ReaderType /\ p.pc = "artifacts"
    BY <1>0 DEF ReaderType, None
  <2>2. reader' = [reader EXCEPT ![r] = q]
    BY <1>0, <1>3 DEF ReadArtifacts
  <2> HIDE DEF p
  <2>3. q \in ReaderType /\ q.pc = "artifacts"
    BY <2>1 DEF ReaderType
  <2> HIDE DEF q
  <2> QED BY <2>2, <2>3, ReaderMoves
<1>4. CASE InspectFiles(r) /\ ReaderGoes(r, "intact")
  <2> DEFINE q == [reader[r] EXCEPT !.pc = "intact"]
  <2>1. q \in ReaderType /\ q.pc = "intact"
    BY <1>0 DEF ReaderType
  <2>2. reader' = [reader EXCEPT ![r] = q]
    BY <1>0, <1>4 DEF ReaderGoes
  <2> HIDE DEF q
  <2> QED BY <2>1, <2>2, ReaderMoves
<1>5. CASE OpenFile(r) /\ ~ReaderFails(r)
  <2> PICK a \in reader[r].rows :
        reader' = [reader EXCEPT
          ![r].pc = "opened", ![r].slot = a.slot, ![r].file = a.key, ![r].rows = {},
          ![r].bytes = IF Again(r) THEN reader[r].bytes ELSE <<0, SizeOf(a.key) - 1>>]
    BY <1>0, <1>5 DEF OpenFile
  <2>1. a.slot \in Slots /\ a.key \in Nat
    BY <1>0 DEF ReaderType, ArtifactRow
  <2> PICK b \in Int \X Int : b = IF Again(r) THEN reader[r].bytes ELSE <<0, SizeOf(a.key) - 1>>
    BY <1>0, <2>1 DEF ReaderType, SizeOf
  <2> DEFINE p == [reader[r] EXCEPT !.pc = "opened", !.slot = a.slot]
             n == [p EXCEPT !.file = a.key, !.rows = {}]
             q == [n EXCEPT !.bytes = b]
  <2>2. reader' = [reader EXCEPT ![r] = q]
    BY <1>0
  <2>3. p \in ReaderType /\ p.pc = "opened"
    BY <1>0, <2>1 DEF ReaderType
  <2> HIDE DEF p
  <2>4. n \in ReaderType /\ n.pc = "opened"
    BY <2>1, <2>3 DEF ReaderType
  <2> HIDE DEF n
  <2>5. q \in ReaderType /\ q.pc = "opened"
    BY <2>4 DEF ReaderType
  <2> HIDE DEF q
  <2> QED BY <2>2, <2>5, ReaderMoves
<1>6. CASE ParseForSize(r)
  <2> PICK range \in Ranges \ {"whole"} :
        reader' = [reader EXCEPT ![r].pc = "again", ![r].range = range, ![r].file = None,
                                 ![r].bytes = ParseRange(range, SizeOf(reader[r].file))]
    BY <1>6 DEF ParseForSize
  <2> PICK b \in Int \X Int : b = ParseRange(range, SizeOf(reader[r].file))
    BY <1>0, RangesFit DEF ReaderType
  <2> DEFINE p == [reader[r] EXCEPT !.pc = "again", !.range = range]
             q == [p EXCEPT !.file = None, !.bytes = b]
  <2>1. reader' = [reader EXCEPT ![r] = q]
    BY <1>0
  <2>2. p \in ReaderType /\ p.pc = "again"
    BY <1>0 DEF ReaderType
  <2> HIDE DEF p
  <2>3. q \in ReaderType /\ q.pc = "again"
    BY <2>2 DEF ReaderType, None
  <2> HIDE DEF q
  <2> QED BY <2>1, <2>3, ReaderMoves
<1>7. CASE Respond(r) /\ ~ReaderFails(r)
  <2> PICK range \in Ranges : range = IF Again(r) THEN reader[r].range ELSE "whole"
    BY <1>0 DEF Again, Ranges, ReaderType
  <2>1. /\ Satisfiable(range, SizeOf(reader[r].file))
        /\ reader[r].bytes = ParseRange(range, SizeOf(reader[r].file))
        /\ reader' = [reader EXCEPT ![r].pc = "served", ![r].range = range]
    BY <1>7 DEF Respond
  <2> DEFINE q == [reader[r] EXCEPT !.pc = "served", !.range = range]
  <2>2. q \in ReaderType /\ q.range = range /\ q.bytes = reader[r].bytes /\ q.file = reader[r].file
    BY <1>0 DEF ReaderType
  <2>3. reader' = [reader EXCEPT ![r] = q]
    BY <1>0, <2>1
  <2> HIDE DEF q
  <2>4. reader[r].file \in Nat
    BY <1>0 DEF ReaderType
  <2>5. Fits(q)
    BY <2>1, <2>2, <2>4, RangesFit DEF Fits
  <2> QED BY <2>2, <2>3, <2>5, ReaderMoves
<1> QED BY <1>1, <1>2, <1>3, <1>4, <1>5, <1>6, <1>7
        DEF ReaderStep, ReadRow, InspectFiles, RespondUnsatisfiable, ReaderDone

\* The bytes a visitor gets are those the range asks of the file that is
\* served, also when another revision was published between the two opens.
THEOREM RangesCorrect == DownloadsSpec => []RangeAnswersFit
<1>1. DownloadsInit => ReadersInv
  BY DEF DownloadsInit, ReadersInv, NoReader, ReaderType, None
<1>2. ASSUME DownloadsInv, ReadersInv, [DownloadsNext]_downloadVars
      PROVE  ReadersInv'
  <2>1. CASE \E r \in Readers : ReaderStep(r)
    BY <1>2, <2>1, ReaderStepKept
  <2>2. CASE UNCHANGED reader
    BY <1>2, <2>2 DEF ReadersInv
  <2>3. CASE ServerDies
    BY <2>3 DEF ServerDies, ReadersInv, NoReader, ReaderType, None
  <2>4. CASE \E t \in Tabs : TabStep(t)
    <3>1. UNCHANGED reader
      BY <2>4 DEF TabStep, Create, Reload, Submit, CancelUpload
    <3> QED BY <2>2, <3>1
  <2>5. CASE \E t \in Tabs : ServerStep(t)
    <3>1. UNCHANGED reader
      BY <2>5 DEF ServerStep, OpenStage, Received, ReceiveFails, BeginAttach, DeriveFails, LinkFile,
           UnlinkStage, StoreAborts,
           AllStored, StoreFails, AcquireLock, LockTimesOut, WorkFails, Commit, CommitUnanswered,
           KeepReferenced, CountedZero, RemoveFile, DeletePending, CleanupFails, SessionDies,
           Release, Compensate, CompensationFails, Refuse, Answer
    <3> QED BY <2>2, <3>1
  <2>6. CASE UNCHANGED downloadVars
    BY <2>2, <2>6 DEF downloadVars
  <2> QED BY <1>2, <2>1, <2>3, <2>4, <2>5, <2>6 DEF DownloadsNext
<1>3. ReadersInv => RangeAnswersFit
  BY DEF ReadersInv, Fits, RangeAnswersFit
<1> QED BY <1>1, <1>2, <1>3, DownloadsInvariant, PTL DEF DownloadsSpec
-----------------------------------------------------------------------------
(* DownloadResources: the bounds of the identifiers                         *)

\* A request that is going to create a revision.
Owes(q) == \/ q.op = "upload" /\ q.id = None
           \/ q.op \in {"save", "remove"} /\ q.pc \in {"waiting", "working"}
Owing == {t \in Tabs : Owes(request[t])}
Numbered == {"storing", "waiting", "working", "cleaning", "removing", "releasing", "compensating"}

\* The bound leaves room for every revision that a request is going to create,
\* and the rows that pages and requests hold name revisions that exist.
BoundsInv ==
  /\ resource.state = "published" <=> resource.published # None
  /\ resource.state = "downline" => resource.draft # None
  /\ issued + Cardinality(Owing) <= MaxRevisions
  /\ page \in [Tabs -> ShownType]
  /\ \A t \in Tabs :
       /\ request[t].result \in ShownType
       /\ request[t].op = "upload" /\ request[t].pc \in Numbered => request[t].id # None
  /\ lock \in Tabs \cup {Nobody}
  /\ abandoned \subseteq Ids
  /\ downloadFaults \in 0..MaxFaults

LEMMA OwingIsFinite == IsFiniteSet(Owing) /\ Cardinality(Owing) \in Nat
<1>1. Owing \subseteq Tabs
  BY DEF Owing
<1> QED BY <1>1, DownloadsAssumption, FS_Subset, FS_CardinalityType

\* With no revision created, no request more may owe one ...
LEMMA OwingFalls ==
  ASSUME NEW smaller, smaller \subseteq Owing, NEW n \in Nat, n + Cardinality(Owing) <= MaxRevisions
  PROVE  n + Cardinality(smaller) <= MaxRevisions
<1>1. Cardinality(smaller) <= Cardinality(Owing) /\ Cardinality(smaller) \in Nat
  BY OwingIsFinite, FS_Subset, FS_CardinalityType
<1> QED BY <1>1, OwingIsFinite, DownloadsAssumption

\* ... and the request that creates one owes none any more.
LEMMA OwingPays ==
  ASSUME NEW t \in Owing, NEW smaller, smaller \subseteq Owing \ {t}, NEW n \in Nat,
         n + Cardinality(Owing) <= MaxRevisions
  PROVE  n + 1 + Cardinality(smaller) <= MaxRevisions
<1>1. IsFiniteSet(Owing \ {t}) /\ Cardinality(Owing \ {t}) = Cardinality(Owing) - 1
  BY OwingIsFinite, FS_RemoveElement
<1>2. Cardinality(smaller) <= Cardinality(Owing) - 1 /\ Cardinality(smaller) \in Nat
  BY <1>1, FS_Subset, FS_CardinalityType
<1> QED BY <1>2, OwingIsFinite, DownloadsAssumption

\* A row whose pointers were given out has its type, and so has what is shown of it.
LEMMA RowsAreTyped ==
  ASSUME NEW row \in ResourceRow, NEW n \in Nat, n <= MaxRevisions,
         row.draft \in 0..n, row.published \in 0..n
  PROVE  row \in RowType
BY DownloadsAssumption DEF ResourceRow, RowType, Ids, None

LEMMA AnswersAreTyped ==
  ASSUME NEW row \in RowType, NEW rows \in SUBSET ArtifactRow
  PROVE  AdminDto(row, rows) \in ShownType
<1> DEFINE shown == {a.slot : a \in {b \in rows : b.revision = row.draft}}
<1>1. shown \in SUBSET Slots
  BY DEF ArtifactRow
<1>2. AdminDto(row, rows) = [row |-> row, slots |-> shown]
  BY DEF AdminDto
<1> HIDE DEF shown
<1> QED BY <1>1, <1>2 DEF ShownType

LEMMA IssuedBounded ==
  ASSUME DownloadsInv, BoundsInv
  PROVE  issued \in Nat /\ issued <= MaxRevisions
BY OwingIsFinite, DownloadsAssumption DEF DownloadsInv, DownloadsShape, BoundsInv

LEMMA ResourceIsTyped ==
  ASSUME DownloadsShape, RevisionsInv, issued <= MaxRevisions
  PROVE  resource \in RowType
<1>1. resource.draft \in 0..issued /\ resource.published \in 0..issued
  BY DEF DownloadsShape, RevisionsInv, ResourceRow, None
<1> QED BY <1>1, RowsAreTyped DEF DownloadsShape

\* A counted failure stays within the bound.
LEMMA FaultsCounted ==
  ASSUME BoundsInv, Fault \/ NoFault
  PROVE  downloadFaults' \in 0..MaxFaults
BY DownloadsAssumption DEF BoundsInv, Fault, NoFault

-----------------------------------------------------------------------------
\* A step of one request that creates no revision.
LEMMA RequestWithin ==
  ASSUME DownloadsInv, BoundsInv, NEW t \in Tabs,
         \A u \in Tabs \ {t} : request'[u] = request[u],
         request'[t].result \in ShownType,
         request'[t].op = "upload" /\ request'[t].pc \in Numbered => request'[t].id # None,
         Owes(request[t])' => Owes(request[t]),
         UNCHANGED <<resource, issued>>,
         page' \in [Tabs -> ShownType], lock' \in Tabs \cup {Nobody},
         abandoned' \subseteq Ids, downloadFaults' \in 0..MaxFaults
  PROVE  BoundsInv'
<1>1. Owing' \subseteq Owing
  BY DEF Owing, Owes
<1>2. issued' + Cardinality(Owing') <= MaxRevisions
  BY <1>1, OwingFalls DEF BoundsInv, DownloadsInv, DownloadsShape
<1> QED BY <1>2 DEF BoundsInv

\* A step that moves a request on, with the page as it is.
LEMMA MoveWithin ==
  ASSUME DownloadsInv, BoundsInv, NEW t \in Tabs, NEW q, Moves(t, q),
         q.op = "upload" /\ q.pc \in Numbered => request[t].id # None,
         request[t].op \in {"save", "remove"} /\ q.pc \in {"waiting", "working"}
           => request[t].pc \in {"waiting", "working"},
         UNCHANGED <<resource, issued, page>>,
         lock' \in Tabs \cup {Nobody}, abandoned' \subseteq Ids, Fault \/ NoFault
  PROVE  BoundsInv'
<1>1. request'[t] = q /\ \A u \in Tabs \ {t} : request'[u] = request[u]
  BY DEF Moves, DownloadsInv, DownloadsShape
<1>2. Owes(request[t])' => Owes(request[t])
  BY <1>1 DEF Owes, Moves, Same
<1>3. request'[t].result \in ShownType /\ page' \in [Tabs -> ShownType]
  BY <1>1 DEF Moves, Same, BoundsInv
<1>4. request'[t].op = "upload" /\ request'[t].pc \in Numbered => request'[t].id # None
  BY <1>1 DEF Moves, Same
<1>5. downloadFaults' \in 0..MaxFaults
  BY FaultsCounted
<1> QED BY <1>1, <1>2, <1>3, <1>4, <1>5, RequestWithin

LEMMA GivenUpWithin ==
  ASSUME DownloadsInv, BoundsInv, NEW t \in Tabs, request[t].pc \in {"storing", "compensating"},
         abandoned' \in {abandoned, abandoned \cup {request[t].id}}
  PROVE  abandoned' \subseteq Ids
<1>1. request[t].id # None /\ abandoned \subseteq Ids
  BY RequestFacts DEF FlowOk, BoundsInv, Numbered
<1>2. request[t].id \in Ids
  BY <1>1, IssuedBounded, DownloadsAssumption DEF DownloadsInv, FlowInv, None, Ids
<1> QED BY <1>1, <1>2

\* The steps that move a request and nothing else that is bounded.
LEMMA MovesWithin ==
  ASSUME DownloadsInv, BoundsInv, NEW t \in Tabs,
         \/ OpenStage(t) \/ Received(t) \/ ReceiveFails(t) \/ DeriveFails(t)
         \/ AllStored(t) \/ StoreAborts(t) \/ StoreFails(t)
         \/ AcquireLock(t) \/ LockTimesOut(t) \/ WorkFails(t)
         \/ CountedZero(t) \/ DeletePending(t) \/ Compensate(t) \/ CompensationFails(t)
  PROVE  BoundsInv'
<1> USE RequestFacts
<1>1. /\ lock \in Tabs \cup {Nobody} /\ abandoned \subseteq Ids
      /\ request[t].op = "upload" /\ request[t].pc \in Numbered => request[t].id # None
  BY DEF BoundsInv
<1>2. CASE \/ OpenStage(t) \/ Received(t) \/ AllStored(t) \/ AcquireLock(t) \/ CountedZero(t)
           \/ DeletePending(t) \/ Compensate(t) \/ CompensationFails(t)
  <2> PICK pc \in RequestPcs :
        /\ Goto(t, pc)
        /\ pc \in Numbered => request[t].pc \in Numbered
        /\ pc \in {"waiting", "working"} /\ request[t].op \in {"save", "remove"} =>
             request[t].pc \in {"waiting", "working"}
    BY <1>2 DEF OpenStage, Received, AllStored, AcquireLock, CountedZero, DeletePending, Compensate,
                CompensationFails, RequestPcs, Numbered, FlowOk
  <2> PICK q \in RequestType : Moves(t, q) /\ q.pc = pc
    BY GoesTo
  <2>1. UNCHANGED <<resource, issued, page>> /\ (Fault \/ NoFault) /\ lock' \in Tabs \cup {Nobody}
    BY <1>1, <1>2 DEF OpenStage, Received, AllStored, AcquireLock, CountedZero, DeletePending,
                      Compensate, CompensationFails, database
  <2>2. abandoned' \subseteq Ids
    <3>1. CASE CompensationFails(t)
      BY <3>1, GivenUpWithin DEF CompensationFails
    <3>2. CASE ~CompensationFails(t)
      BY <1>1, <1>2, <3>2 DEF OpenStage, Received, AllStored, AcquireLock, CountedZero, DeletePending,
                              Compensate
    <3> QED BY <3>1, <3>2
  <2>3. q.op = request[t].op /\ q.id = request[t].id
    BY DEF Moves, Same
  <2> QED BY <1>1, <2>1, <2>2, <2>3, MoveWithin
<1>3. CASE ReceiveFails(t) \/ DeriveFails(t) \/ StoreAborts(t) \/ StoreFails(t) \/ LockTimesOut(t)
             \/ WorkFails(t)
  <2> PICK pc \in RequestPcs :
        /\ FailTo(t, pc)
        /\ pc \in Numbered => request[t].pc \in Numbered
        /\ pc \notin {"waiting", "working"}
    BY <1>3 DEF ReceiveFails, DeriveFails, StoreAborts, StoreFails, LockTimesOut, WorkFails,
                AfterFailure, RequestPcs, Numbered, FlowOk
  <2> PICK q \in RequestType : Moves(t, q) /\ q.pc = pc
    BY FailsTo
  <2>1. UNCHANGED <<resource, issued, page, lock>> /\ (Fault \/ NoFault)
    BY <1>3 DEF ReceiveFails, DeriveFails, StoreAborts, StoreFails, LockTimesOut, WorkFails, database
  <2>2. q.op = request[t].op /\ q.id = request[t].id
    BY DEF Moves, Same
  <2>3. abandoned' \subseteq Ids
    <3>1. CASE StoreFails(t)
      BY <3>1, GivenUpWithin DEF StoreFails
    <3>2. CASE ~StoreFails(t)
      BY <1>1, <1>3, <3>2 DEF ReceiveFails, DeriveFails, StoreAborts, LockTimesOut, WorkFails
    <3> QED BY <3>1, <3>2
  <2> QED BY <1>1, <2>1, <2>2, <2>3, MoveWithin
<1> QED BY <1>2, <1>3

\* The steps that change a flag, the files of a request or its answer.
LEMMA FieldsWithin ==
  ASSUME DownloadsInv, BoundsInv, NEW t \in Tabs,
         \/ CancelUpload(t) \/ LinkFile(t) \/ UnlinkStage(t) \/ KeepReferenced(t) \/ RemoveFile(t)
         \/ CleanupFails(t) \/ SessionDies(t) \/ Release(t)
  PROVE  BoundsInv'
<1> USE RequestFacts
<1>1. /\ lock \in Tabs \cup {Nobody} /\ abandoned \subseteq Ids /\ page \in [Tabs -> ShownType]
      /\ request[t].op = "upload" /\ request[t].pc \in Numbered => request[t].id # None
      /\ request[t].result \in ShownType /\ request \in [Tabs -> RequestType]
      /\ request[t] \in RequestType
  BY DEF BoundsInv, DownloadsInv, DownloadsShape
<1>2. UNCHANGED <<resource, issued, page, abandoned>> /\ (Fault \/ NoFault)
  BY DEF CancelUpload, LinkFile, UnlinkStage, KeepReferenced, RemoveFile, CleanupFails, SessionDies, Release, database
<1>3. downloadFaults' \in 0..MaxFaults
  BY <1>2, FaultsCounted
<1>4. lock' \in Tabs \cup {Nobody}
  BY <1>1 DEF CancelUpload, LinkFile, UnlinkStage, KeepReferenced, RemoveFile, CleanupFails, SessionDies, Release
<1>5. /\ \A u \in Tabs \ {t} : request'[u] = request[u]
      /\ request'[t].op = request[t].op /\ request'[t].id = request[t].id
      /\ request'[t].result = request[t].result
  BY <1>1 DEF CancelUpload, LinkFile, UnlinkStage, KeepReferenced, RemoveFile, CleanupFails, SessionDies, Release,
              RequestType
<1>6. /\ request'[t].pc \in Numbered => request[t].pc \in Numbered
      /\ request'[t].pc \in {"waiting", "working"} => request[t].pc = request'[t].pc
  <2>1. CASE CancelUpload(t) \/ LinkFile(t) \/ UnlinkStage(t) \/ KeepReferenced(t) \/ SessionDies(t)
    <3>1. request'[t].pc = request[t].pc
      BY <1>1, <2>1 DEF CancelUpload, LinkFile, UnlinkStage, KeepReferenced, SessionDies, RequestType
    <3> QED BY <3>1
  <2>2. CASE RemoveFile(t) \/ CleanupFails(t)
    <3>1. request'[t].pc \in {"cleaning", "releasing"} /\ request[t].pc \in {"cleaning", "removing"}
      BY <1>1, <2>2 DEF RemoveFile, CleanupFails, RequestType
    <3> QED BY <3>1 DEF Numbered
  <2>3. CASE Release(t)
    <3>1. /\ request'[t].pc \in {"answering", "refused", "compensating"}
          /\ request[t].pc = "releasing"
      BY <1>1, <2>3 DEF Release, AfterFailure, RequestType
    <3> QED BY <3>1 DEF Numbered
  <2> QED BY <2>1, <2>2, <2>3
<1>7. Owes(request[t])' => Owes(request[t])
  BY <1>5, <1>6 DEF Owes
<1>8. request'[t].op = "upload" /\ request'[t].pc \in Numbered => request'[t].id # None
  BY <1>1, <1>5, <1>6
<1>9. request'[t].result \in ShownType
  BY <1>1, <1>5
<1> QED BY <1>1, <1>2, <1>3, <1>4, <1>5, <1>7, <1>8, <1>9, RequestWithin

\* The ends of a request, and the page that adopts its answer or is loaded.
LEMMA EndsWithin ==
  ASSUME DownloadsInv, BoundsInv, NEW t \in Tabs, Refuse(t) \/ Answer(t) \/ Reload(t)
  PROVE  BoundsInv'
<1> USE RequestFacts
<1>1. /\ lock \in Tabs \cup {Nobody} /\ abandoned \subseteq Ids /\ page \in [Tabs -> ShownType]
      /\ request[t].result \in ShownType /\ request \in [Tabs -> RequestType]
      /\ request[t].op = "upload" /\ request[t].pc \in Numbered => request[t].id # None
  BY DEF BoundsInv, DownloadsInv, DownloadsShape
<1>2. UNCHANGED <<resource, issued, lock, abandoned>> /\ downloadFaults' \in 0..MaxFaults
  <2>1. UNCHANGED <<resource, issued, lock, abandoned>> /\ (Fault \/ NoFault)
    BY DEF Refuse, Answer, Reload, database
  <2> QED BY <2>1, FaultsCounted
<1>3. Absent \in RowType /\ NoRequest.result \in ShownType
  BY DEF Absent, NoRequest, RowType, ShownType, Kinds, None
<1>4. AdminDto(resource, artifacts) \in ShownType
  <2>1. resource \in RowType /\ artifacts \in SUBSET ArtifactRow
    BY IssuedBounded, ResourceIsTyped DEF DownloadsInv, DownloadsShape
  <2> QED BY <2>1, AnswersAreTyped
<1>5. page' \in [Tabs -> ShownType]
  BY <1>1, <1>4 DEF Refuse, Answer, Reload
<1>6. \A u \in Tabs \ {t} : request'[u] = request[u]
  BY <1>1 DEF Refuse, Answer, Reload
<1>7. request'[t] = NoRequest \/ request'[t] = request[t]
  BY <1>1 DEF Refuse, Answer, Reload
<1>8. /\ Owes(request[t])' => Owes(request[t])
      /\ request'[t].op = "upload" /\ request'[t].pc \in Numbered => request'[t].id # None
      /\ request'[t].result \in ShownType
  <2>1. NoRequest.op = "none"
    BY DEF NoRequest
  <2> QED BY <1>1, <1>3, <1>7, <2>1 DEF Owes
<1> QED BY <1>1, <1>2, <1>5, <1>6, <1>8, RequestWithin

\* A request is sent only when the bound leaves room for its revision.
LEMMA SubmitWithin ==
  ASSUME DownloadsInv, BoundsInv, NEW t \in Tabs,
         NEW o \in {"save", "upload", "publish", "downline", "discard", "remove"},
         NEW slot \in Slots \cup {"none"}, Submit(t, o, slot)
  PROVE  BoundsInv'
<1> DEFINE q == [NoRequest EXCEPT !.pc = IF o = "upload" THEN "reading" ELSE "waiting",
                                  !.op = o, !.slot = slot]
<1>1. /\ request' = [request EXCEPT ![t] = q]
      /\ UNCHANGED <<resource, issued, page, lock, abandoned, downloadFaults>>
      /\ request \in [Tabs -> RequestType] /\ issued \in Nat
  BY DEF Submit, NoFault, database, DownloadsInv, DownloadsShape
<1>2. /\ q.op = o /\ q.result = NoRequest.result
      /\ o = "upload" => q.pc = "reading"
  BY DEF NoRequest
<1>3. NoRequest.result \in ShownType
  BY DEF Absent, NoRequest, RowType, ShownType, Kinds, None
<1> HIDE DEF q
<1>4. request'[t] = q /\ \A u \in Tabs \ {t} : request'[u] = request[u]
  BY <1>1
<1>5. \A u \in Tabs : /\ request'[u].result \in ShownType
                      /\ request'[u].op = "upload" /\ request'[u].pc \in Numbered =>
                           request'[u].id # None
  BY <1>2, <1>3, <1>4 DEF BoundsInv, Numbered
<1>6. issued' + Cardinality(Owing') <= MaxRevisions
  <2>1. CASE o \in NewRevisionOps
    <3>1. Creating \in SUBSET Tabs /\ IsFiniteSet(Creating) /\ Cardinality(Creating) \in Nat
      BY DownloadsAssumption, FS_Subset, FS_CardinalityType DEF Creating
    <3>2. issued + Cardinality(Creating) < MaxRevisions
      BY <2>1 DEF Submit
    <3>3. Owing' \subseteq Creating \cup {t}
      BY <1>4 DEF Owing, Owes, Creating, NewRevisionOps
    <3>4. /\ IsFiniteSet(Creating \cup {t})
          /\ Cardinality(Creating \cup {t}) <= Cardinality(Creating) + 1
          /\ Cardinality(Creating \cup {t}) \in Nat
      <4>1. /\ IsFiniteSet(Creating \cup {t})
            /\ Cardinality(Creating \cup {t}) =
                 IF t \in Creating THEN Cardinality(Creating) ELSE Cardinality(Creating) + 1
        BY <3>1, FS_AddElement
      <4>2. Cardinality(Creating \cup {t}) \in Nat
        BY <4>1, FS_CardinalityType
      <4> QED BY <3>1, <4>1, <4>2
    <3>5. Cardinality(Owing') <= Cardinality(Creating) + 1 /\ Cardinality(Owing') \in Nat
      <4>1. IsFiniteSet(Owing') /\ Cardinality(Owing') <= Cardinality(Creating \cup {t})
        BY <3>3, <3>4, FS_Subset
      <4> QED BY <3>1, <3>4, <4>1, FS_CardinalityType
    <3> QED BY <1>1, <3>1, <3>2, <3>5, DownloadsAssumption
  <2>2. CASE o \notin NewRevisionOps
    <3>1. Owing' \subseteq Owing
      BY <1>2, <1>4, <2>2 DEF Owing, Owes, NewRevisionOps
    <3> QED BY <1>1, <3>1, OwingFalls DEF BoundsInv
  <2> QED BY <2>1, <2>2
<1> QED BY <1>1, <1>5, <1>6 DEF BoundsInv

\* An upload gets its identifier.
LEMMA AttachWithin ==
  ASSUME DownloadsInv, BoundsInv, NEW t \in Tabs, BeginAttach(t)
  PROVE  BoundsInv'
<1> USE RequestFacts
<1>1. /\ request[t].pc = "staged" /\ issued' = issued + 1 /\ issued \in Nat
      /\ request' = [request EXCEPT ![t].pc = "storing", ![t].id = issued + 1]
      /\ UNCHANGED <<resource, page, lock, abandoned, downloadFaults>>
      /\ request \in [Tabs -> RequestType] /\ request[t] \in RequestType
  BY DEF BeginAttach, NoFault, database, DownloadsInv, DownloadsShape
<1>2. request[t].op = "upload" /\ request[t].id = None
  BY <1>1 DEF FlowOk
<1>3. /\ \A u \in Tabs \ {t} : request'[u] = request[u]
      /\ request'[t].op = "upload" /\ request'[t].id = issued + 1
      /\ request'[t].result = request[t].result
  BY <1>1, <1>2 DEF RequestType
<1>4. issued + 1 # None
  BY <1>1 DEF None
<1>5. t \in Owing /\ Owing' \subseteq Owing \ {t}
  BY <1>2, <1>3, <1>4 DEF Owing, Owes
<1>6. issued' + Cardinality(Owing') <= MaxRevisions
  BY <1>1, <1>5, OwingPays DEF BoundsInv
<1>7. \A u \in Tabs : /\ request'[u].result \in ShownType
                      /\ request'[u].op = "upload" /\ request'[u].pc \in Numbered =>
                           request'[u].id # None
  BY <1>3, <1>4 DEF BoundsInv
<1> QED BY <1>1, <1>6, <1>7 DEF BoundsInv

-----------------------------------------------------------------------------
\* The transaction keeps state and pointers together, and creates a revision
\* only for a request that owes one.
LEMMA PointersKept ==
  ASSUME DownloadsInv, BoundsInv, NEW t \in Tabs, request[t].pc = "working", Transaction(t)
  PROVE  /\ resource'.state = "published" <=> resource'.published # None
         /\ resource'.state = "downline" => resource'.draft # None
         /\ \/ issued' = issued
            \/ issued' = issued + 1 /\ request[t].op \in {"save", "remove"}
<1> USE RequestFacts
<1>1. /\ resource \in ResourceRow /\ issued \in Nat /\ request[t] \in RequestType
      /\ resource.state = "published" <=> resource.published # None
      /\ resource.state = "downline" => resource.draft # None
  BY DEF BoundsInv, DownloadsInv, DownloadsShape
<1>2. ASSUME NEW rows, ReplaceDraft(t, rows), request[t].op \in {"save", "upload", "remove"}
      PROVE  /\ resource'.state = "published" <=> resource'.published # None
             /\ resource'.state = "downline" => resource'.draft # None
             /\ \/ issued' = issued
                \/ issued' = issued + 1 /\ request[t].op \in {"save", "remove"}
  <2>1. NewDraft(t) # None
    BY <1>1 DEF NewDraft, None, FlowOk
  <2>2. /\ resource'.state = resource.state /\ resource'.published = resource.published
        /\ resource'.draft = NewDraft(t)
    BY <1>1, <1>2 DEF ReplaceDraft, ResourceRow
  <2>3. \/ issued' = issued
        \/ issued' = issued + 1 /\ request[t].op \in {"save", "remove"}
    BY <1>2 DEF ReplaceDraft
  <2> QED BY <1>1, <2>1, <2>2, <2>3
<1>3. CASE request[t].op \in {"save", "upload", "remove"}
  BY <1>2, <1>3 DEF Transaction, SaveTypedDraft, AttachUploadedArtifact, RemoveDraftArtifact
<1>4. CASE request[t].op = "publish" /\ PublishTyped
  <2>1. resource.draft # None
    BY <1>4 DEF Transaction, Allowed
  <2>2. /\ resource'.state = "published" /\ resource'.published = resource.draft /\ issued' = issued
    BY <1>1, <1>4 DEF PublishTyped, ResourceRow
  <2> QED BY <2>1, <2>2
<1>5. CASE request[t].op = "downline" /\ DownlineTyped
  <2>1. resource.published # None
    BY <1>5 DEF Transaction, Allowed
  <2>2. /\ resource'.state = "downline" /\ resource'.draft = resource.published
        /\ resource'.published = None /\ issued' = issued
    BY <1>1, <1>5 DEF DownlineTyped, ResourceRow
  <2> QED BY <2>1, <2>2
<1>6. CASE request[t].op = "discard" /\ DiscardTyped
  <2>1. /\ resource'.state = IF resource.state = "downline" THEN "unpublished" ELSE resource.state
        /\ resource'.published = resource.published /\ issued' = issued
    BY <1>1, <1>6 DEF DiscardTyped, ResourceRow
  <2> QED BY <1>1, <2>1
<1> QED BY <1>3, <1>4, <1>5, <1>6 DEF Transaction

LEMMA CommitWithin ==
  ASSUME DownloadsInv, BoundsInv, DownloadsInv', NEW t \in Tabs, Commit(t) \/ CommitUnanswered(t)
  PROVE  BoundsInv'
<1> USE RequestFacts
<1>1. /\ request[t].pc = "working" /\ Transaction(t)
      /\ UNCHANGED <<page, abandoned>> /\ lock' \in {lock, Nobody} /\ (Fault \/ NoFault)
      /\ request \in [Tabs -> RequestType] /\ request[t] \in RequestType /\ issued \in Nat
  BY DEF Commit, CommitUnanswered, DownloadsInv, DownloadsShape
<1>2. /\ resource'.state = "published" <=> resource'.published # None
      /\ resource'.state = "downline" => resource'.draft # None
      /\ \/ issued' = issued
         \/ issued' = issued + 1 /\ request[t].op \in {"save", "remove"}
  BY <1>1, PointersKept
<1>3. /\ \A u \in Tabs \ {t} : request'[u] = request[u]
      /\ request'[t].op = request[t].op /\ request'[t].id = request[t].id
      /\ request'[t].pc \in {"releasing", "cleaning", "compensating", "refused"}
      /\ \/ request'[t].result = request[t].result
         \/ request'[t].result = AdminDto(resource', artifacts')
  <2>1. CASE Commit(t)
    BY <1>1, <2>1 DEF Commit, RequestType
  <2>2. CASE CommitUnanswered(t)
    BY <1>1, <2>2 DEF CommitUnanswered, FailTo, AfterFailure, RequestType
  <2> QED BY <2>1, <2>2
<1>4. Owing' \subseteq Owing
  BY <1>3 DEF Owing, Owes
<1>5. issued' + Cardinality(Owing') <= MaxRevisions
  <2>1. CASE issued' = issued
    BY <1>1, <1>4, <2>1, OwingFalls DEF BoundsInv
  <2>2. CASE issued' = issued + 1 /\ request[t].op \in {"save", "remove"}
    <3>1. t \in Owing /\ Owing' \subseteq Owing \ {t}
      BY <1>1, <1>3, <1>4, <2>2 DEF Owing, Owes
    <3> QED BY <1>1, <2>2, <3>1, OwingPays DEF BoundsInv
  <2> QED BY <1>2, <2>1, <2>2
<1>6. AdminDto(resource', artifacts') \in ShownType
  <2>1. /\ resource' \in ResourceRow /\ artifacts' \in SUBSET ArtifactRow /\ issued' \in Nat
        /\ resource'.draft \in 0..issued' /\ resource'.published \in 0..issued'
    BY DEF DownloadsInv, DownloadsShape, RevisionsInv, ResourceRow, None
  <2>2. Cardinality(Owing') \in Nat
    BY <1>4, OwingIsFinite, FS_Subset, FS_CardinalityType
  <2>3. issued' <= MaxRevisions
    BY <1>5, <2>1, <2>2, DownloadsAssumption
  <2>4. resource' \in RowType
    BY <2>1, <2>3, RowsAreTyped
  <2> QED BY <2>1, <2>4, AnswersAreTyped
<1>7. \A u \in Tabs : /\ request'[u].result \in ShownType
                      /\ request'[u].op = "upload" /\ request'[u].pc \in Numbered =>
                           request'[u].id # None
  <2>1. request[t].op = "upload" => request[t].id # None
    BY <1>1 DEF FlowOk
  <2> QED BY <1>3, <1>6, <2>1 DEF BoundsInv
<1>8. downloadFaults' \in 0..MaxFaults /\ lock' \in Tabs \cup {Nobody}
  BY <1>1, FaultsCounted DEF BoundsInv
<1> QED BY <1>1, <1>2, <1>5, <1>7, <1>8 DEF BoundsInv

-----------------------------------------------------------------------------
LEMMA CreateWithin ==
  ASSUME DownloadsInv, BoundsInv, NEW t \in Tabs, NEW kind \in Kinds, Create(t, kind)
  PROVE  BoundsInv'
<1> DEFINE row == [Absent EXCEPT !.kind = kind, !.state = "unpublished", !.version = 1]
<1>1. /\ resource' = row /\ page' = [page EXCEPT ![t] = AdminDto(row, {})]
      /\ UNCHANGED <<request, lock, issued, abandoned, downloadFaults>>
  BY DEF Create, NoFault
<1>2. row \in RowType /\ row.state = "unpublished" /\ row.published = None
  BY DEF Absent, RowType, None
<1> HIDE DEF row
<1>3. {} \in SUBSET ArtifactRow
  OBVIOUS
<1>4. AdminDto(row, {}) \in ShownType
  BY <1>2, <1>3, AnswersAreTyped
<1>5. page' \in [Tabs -> ShownType]
  BY <1>1, <1>4 DEF BoundsInv
<1>6. Owing' = Owing
  BY <1>1 DEF Owing, Owes
<1> QED BY <1>1, <1>2, <1>5, <1>6 DEF BoundsInv

LEMMA DeathWithin ==
  ASSUME DownloadsInv, BoundsInv, ServerDies
  PROVE  BoundsInv'
<1>1. /\ request' = [t \in Tabs |-> NoRequest] /\ lock' = Nobody
      /\ abandoned' = abandoned \cup ({request[t].id : t \in Tabs} \ {None})
      /\ UNCHANGED <<resource, issued, page>> /\ issued \in Nat
  BY DEF ServerDies, database, DownloadsInv, DownloadsShape
<1>2. NoRequest.op = "none" /\ NoRequest.result \in ShownType
  BY DEF Absent, NoRequest, RowType, ShownType, Kinds, None
<1>3. \A t \in Tabs : request'[t] = NoRequest
  BY <1>1
<1>4. Owing' \subseteq Owing
  BY <1>2, <1>3 DEF Owing, Owes
<1>5. issued' + Cardinality(Owing') <= MaxRevisions
  BY <1>1, <1>4, OwingFalls DEF BoundsInv
<1>6. abandoned' \subseteq Ids
  <2>1. \A t \in Tabs : request[t].id # None => request[t].id \in Ids
    BY IssuedBounded, DownloadsAssumption DEF DownloadsInv, FlowInv, None, Ids
  <2> QED BY <1>1, <2>1 DEF BoundsInv
<1>7. downloadFaults' \in 0..MaxFaults
  BY FaultsCounted DEF ServerDies
<1> QED BY <1>1, <1>2, <1>3, <1>5, <1>6, <1>7 DEF BoundsInv

LEMMA BoundsKept ==
  ASSUME DownloadsInv, BoundsInv, DownloadsInv', [DownloadsNext]_downloadVars
  PROVE  BoundsInv'
<1>1. CASE \E t \in Tabs : TabStep(t)
  <2> PICK t \in Tabs : TabStep(t)
    BY <1>1
  <2> QED BY CreateWithin, EndsWithin, SubmitWithin, FieldsWithin DEF TabStep
<1>2. CASE \E t \in Tabs : ServerStep(t)
  <2> PICK t \in Tabs : ServerStep(t)
    BY <1>2
  <2> QED BY MovesWithin, AttachWithin, CommitWithin, FieldsWithin, EndsWithin DEF ServerStep
<1>3. CASE (\E r \in Readers : ReaderStep(r)) \/ UNCHANGED downloadVars
  <2>1. UNCHANGED <<resource, issued, request, page, lock, abandoned, downloadFaults>>
    BY <1>3 DEF ReaderStep, ReadRow, ReadArtifacts, InspectFiles, OpenFile, ParseForSize, Respond,
                RespondUnsatisfiable, ReaderDone, ReadOnly, NoFault, downloadVars, database
  <2>2. Owing' = Owing
    BY <2>1 DEF Owing, Owes
  <2> QED BY <2>1, <2>2 DEF BoundsInv
<1> QED BY <1>1, <1>2, <1>3, DeathWithin DEF DownloadsNext

LEMMA BoundsStart ==
  ASSUME DownloadsInit
  PROVE  BoundsInv
<1>1. /\ request = [t \in Tabs |-> NoRequest] /\ lock = Nobody /\ abandoned = {}
      /\ downloadFaults = 0 /\ page = [t \in Tabs |-> NoRequest.result]
  BY DEF DownloadsInit, NoRequest
<1>2. NoRequest.op = "none" /\ NoRequest.result \in ShownType
  BY DEF Absent, NoRequest, RowType, ShownType, Kinds, None
<1>3. Owing = {} /\ Cardinality(Owing) = 0
  <2>1. Owing = {}
    BY <1>1, <1>2 DEF Owing, Owes
  <2> QED BY <2>1, FS_EmptySet
<1>4. /\ resource.state = "published" <=> resource.published # None
      /\ resource.state = "downline" => resource.draft # None
      /\ issued \in {0, 2}
  BY DEF DownloadsInit, Absent, None
<1> QED BY <1>1, <1>2, <1>3, <1>4, DownloadsAssumption DEF BoundsInv

\* The state of the resource has its shape: the pointers fit its state, and no
\* identifier is given out or named beyond the revisions that were created.
THEOREM DownloadsTypesCorrect == DownloadsSpec => []DownloadsTypeOK
<1>1. DownloadsInit => BoundsInv
  BY BoundsStart
<1>2. DownloadsInv /\ BoundsInv /\ DownloadsInv' /\ [DownloadsNext]_downloadVars => BoundsInv'
  BY BoundsKept
<1>3. DownloadsInv /\ BoundsInv => DownloadsTypeOK
  <2> HAVE DownloadsInv /\ BoundsInv
  <2>1. issued \in 0..MaxRevisions /\ \A n \in 1..issued : n \in Ids
    BY IssuedBounded, DownloadsAssumption DEF Ids
  <2>2. resource \in RowType
    BY IssuedBounded, ResourceIsTyped DEF DownloadsInv
  <2>3. revisions \subseteq Ids /\ cleanupPending \subseteq revisions /\ unanswered \subseteq Ids
    BY <2>1 DEF DownloadsInv, RevisionsInv
  <2>4. artifacts \subseteq ArtifactType
    BY <2>1, <2>3 DEF DownloadsInv, DownloadsShape, RevisionsInv, ArtifactRow, ArtifactType
  <2>5. objects \subseteq Files
    BY <2>1 DEF DownloadsInv, DownloadsShape, RevisionsInv, Files, Parts
  <2>6. \A t \in Tabs : /\ request[t].pending \subseteq Ids
                        /\ request[t].files \subseteq Files
                        /\ request[t].id \in 0..issued
    <3> TAKE t \in Tabs
    <3>1. /\ request[t].files \in SUBSET (Nat \X Parts)
          /\ \A f \in request[t].files : f[1] \in Ids
          /\ \A p \in request[t].pending : p \in Ids
          /\ request[t].id \in 0..issued
      BY <2>1 DEF DownloadsInv, DownloadsShape, FlowInv, RequestType
    <3> QED BY <3>1 DEF Files, Parts
  <2>7. stages \subseteq (Tabs \cup {Nobody}) \X {"file", "cover"}
    BY DEF DownloadsInv, DownloadsShape
  <2> QED BY <2>1, <2>2, <2>3, <2>4, <2>5, <2>6, <2>7 DEF BoundsInv, DownloadsTypeOK
<1> QED BY <1>1, <1>2, <1>3, DownloadsInvariant, PTL DEF DownloadsSpec
-----------------------------------------------------------------------------
(* The content of the portal together                                       *)

\* In the run each of the two moves as it does alone.
THEOREM ContentUsesParts == ContentSpec => DownloadsSpec /\ DocumentsSpec
<1>1. ContentInit => DownloadsInit /\ DocumentsInit
  BY DEF ContentInit
<1>2. [ContentNext]_<<downloadVars, docVars>> => [DownloadsNext]_downloadVars /\ [DocumentsNext]_docVars
  BY DEF ContentNext
<1> QED BY <1>1, <1>2, PTL DEF ContentSpec, DownloadsSpec, DocumentsSpec

\* The state of the resource and of the documents keeps its shape.
THEOREM ContentTypesCorrect == ContentSpec => []ContentTypeOK
<1>1. DownloadsTypeOK /\ DocumentsTypeOK => ContentTypeOK
  BY DEF ContentTypeOK
<1> QED BY <1>1, ContentUsesParts, DownloadsTypesCorrect, DocumentsTypesCorrect, PTL
=============================================================================
