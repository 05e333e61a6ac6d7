----------------------------- MODULE InputPolicy -----------------------------
(***************************************************************************)
(* The rules for the input of visitors: one row of terms with a revision,  *)
(* which administrators replace as a whole.                                *)
(*                                                                         *)
(* A page sends the terms with the revision that it shows.  When the       *)
(* answer is lost, it reads the row and tells from it whether the terms    *)
(* were saved, while its own request may still be on its way and other     *)
(* administrators save.                                                    *)
(***************************************************************************)
EXTENDS Naturals, Sequences, FiniteSets

CONSTANTS
  Editors,      \* pages of administrators
  TermLists,    \* lists of terms; the first one is empty
  NoTerms,      \* the empty list
  MaxPuts       \* BOUND: requests to save

ASSUME PolicyAssumption == NoTerms \in TermLists /\ MaxPuts \in Nat

VARIABLES
  policy,    \* the row: its revisions' terms, the latest one at the end
  edited,    \* audit entries assistant.input_policy_updated
  puts,      \* the requests to save
  editor     \* the pages

policyVars == <<policy, edited, puts, editor>>

Revision == Len(policy)
Terms(revision) == IF revision = 0 THEN NoTerms ELSE policy[revision]

NewEditor ==
  [revision |-> Revision, terms |-> Terms(Revision), saving |-> 0,
   asking |-> FALSE, refreshRequired |-> FALSE]

PolicyTypeOK ==
  /\ policy \in Seq(TermLists)
  /\ edited \in Nat
  /\ puts \in Seq([expected: 0..MaxPuts, base: TermLists, terms: TermLists,
                   outcome: {"undecided", "saved", "conflict", "failed"},
                   told: {"nothing", "saved", "not saved", "newer", "unknown",
                          "failed"}])
  /\ editor \in [Editors -> [revision: 0..MaxPuts, terms: TermLists,
                             saving: 0..MaxPuts, asking: BOOLEAN,
                             refreshRequired: BOOLEAN]]
  /\ Len(puts) <= MaxPuts

PolicyInit ==
  /\ policy = <<>>
  /\ edited = 0
  /\ puts = <<>>
  /\ editor = [e \in Editors |-> NewEditor]

-----------------------------------------------------------------------------
(* The handler and the repository.                                         *)

\* Variant: the row is replaced whatever its revision.
AnyRevision(i) == TRUE

\* The insert finds no row, the update the row of the expected revision.
ExpectedRevision(i) == Revision = puts[i].expected

\* Terms, revision and audit entry, in one transaction.
PutCommits(i) ==
  /\ puts[i].outcome = "undecided"
  /\ ExpectedRevision(i)
  /\ policy' = Append(policy, puts[i].terms)
  /\ edited' = edited + 1
  /\ puts' = [puts EXCEPT ![i].outcome = "saved"]
  /\ UNCHANGED editor

PutConflicts(i) ==
  /\ puts[i].outcome = "undecided"
  /\ ~ExpectedRevision(i)
  /\ puts' = [puts EXCEPT ![i].outcome = "conflict"]
  /\ UNCHANGED <<policy, edited, editor>>

\* Rights, form or storage: nothing is written.
PutFails(i) ==
  /\ puts[i].outcome = "undecided"
  /\ puts' = [puts EXCEPT ![i].outcome = "failed"]
  /\ UNCHANGED <<policy, edited, editor>>

-----------------------------------------------------------------------------
(* The page.                                                               *)

Load(e) ==
  /\ editor' = [editor EXCEPT ![e] = NewEditor]
  /\ UNCHANGED <<policy, edited, puts>>

Save(e, terms) ==
  /\ editor[e].saving = 0
  /\ ~editor[e].refreshRequired
  /\ Len(puts) < MaxPuts
  /\ puts' = Append(puts, [expected |-> editor[e].revision,
       base |-> editor[e].terms, terms |-> terms, outcome |-> "undecided",
       told |-> "nothing"])
  /\ editor' = [editor EXCEPT ![e].saving = Len(puts) + 1]
  /\ UNCHANGED <<policy, edited>>

\* The announcement, the snapshot that is shown, and the lock.
Announce(e, told, shown, required) ==
  /\ puts' = [puts EXCEPT ![editor[e].saving].told = told]
  /\ editor' = [editor EXCEPT ![e] =
       [revision |-> IF shown THEN Revision ELSE @.revision,
        terms |-> IF shown THEN Terms(Revision) ELSE @.terms,
        saving |-> 0, asking |-> FALSE, refreshRequired |-> required]]
  /\ UNCHANGED <<policy, edited>>

\* The answer of a save is its own revision and terms, whoever has saved since.
HearsSaved(e) ==
  /\ editor[e].saving # 0 /\ ~editor[e].asking
  /\ LET put == puts[editor[e].saving] IN
     /\ put.outcome = "saved"
     /\ puts' = [puts EXCEPT ![editor[e].saving].told = "saved"]
     /\ editor' = [editor EXCEPT ![e] =
          [revision |-> put.expected + 1, terms |-> put.terms, saving |-> 0,
           asking |-> FALSE, refreshRequired |-> FALSE]]
  /\ UNCHANGED <<policy, edited>>

\* 409: the page keeps its terms and its revision.
HearsConflict(e) ==
  /\ editor[e].saving # 0 /\ ~editor[e].asking
  /\ puts[editor[e].saving].outcome = "conflict"
  /\ Announce(e, "newer", FALSE, editor[e].refreshRequired)

\* Any other error, among them storage_unavailable after a COMMIT whose
\* answer was lost.
HearsFailure(e) ==
  /\ editor[e].saving # 0 /\ ~editor[e].asking
  /\ puts[editor[e].saving].outcome \in {"failed", "saved"}
  /\ Announce(e, "failed", FALSE, editor[e].refreshRequired)

\* No answer, or one that cannot be read: the row is asked for.
HearsNothing(e) ==
  /\ editor[e].saving # 0 /\ ~editor[e].asking
  /\ editor' = [editor EXCEPT ![e].asking = TRUE]
  /\ UNCHANGED <<policy, edited, puts>>

\* reconcileUnknownOutcome: the same terms count as saved; the revision that
\* the page shows counts as "not saved"; anything else locks the page.
ReadBack(e) ==
  /\ editor[e].asking
  /\ LET put == puts[editor[e].saving] IN
     IF Terms(Revision) = put.terms THEN Announce(e, "saved", TRUE, FALSE)
     ELSE IF Revision = put.expected THEN Announce(e, "not saved", FALSE, FALSE)
     ELSE Announce(e, "unknown", FALSE, TRUE)

ReadBackFails(e) ==
  /\ editor[e].asking
  /\ Announce(e, "unknown", FALSE, TRUE)

PolicyNext ==
  \/ \E i \in DOMAIN puts : PutCommits(i) \/ PutConflicts(i) \/ PutFails(i)
  \/ \E e \in Editors :
       \/ Load(e)
       \/ \E terms \in TermLists : Save(e, terms)
       \/ HearsSaved(e) \/ HearsConflict(e) \/ HearsFailure(e)
       \/ HearsNothing(e) \/ ReadBack(e) \/ ReadBackFails(e)

PolicySpec == PolicyInit /\ [][PolicyNext]_policyVars

-----------------------------------------------------------------------------
(* Properties                                                              *)

\* Nothing is overwritten unseen: each revision of the row was made by one
\* request, from the revision before it as the page of that request showed
\* it, although pages retry what they were told was not saved.
MadeFromWhatWasShown(r) ==
  Cardinality({i \in DOMAIN puts :
    /\ puts[i].outcome = "saved"
    /\ puts[i].expected = r - 1
    /\ puts[i].base = Terms(r - 1)
    /\ puts[i].terms = policy[r]}) = 1

\* What a page announces of a save holds: terms announced as saved were the
\* rules, at the revision the page showed or at a later one; a save that was
\* told of a newer revision never takes effect; and a page shows the terms of
\* its revision.  ("Not saved" and "failed" are no such promises: the request
\* may still be on its way, or its COMMIT was not confirmed.)
PolicyAnswersHold ==
  /\ \A r \in DOMAIN policy : MadeFromWhatWasShown(r)
  /\ \A i \in DOMAIN puts :
       /\ puts[i].told = "saved" =>
            \E r \in puts[i].expected..Revision : Terms(r) = puts[i].terms
       /\ puts[i].told = "newer" => puts[i].outcome = "conflict"
  /\ \A e \in Editors : editor[e].terms = Terms(editor[e].revision)
=============================================================================
