------------------------- MODULE CustomerRegistration -------------------------
(***************************************************************************)
(* The registration of customers and its review: server/registration of    *)
(* src/apps/web, with the forms of components/registration and the list of *)
(* app/admin/registrations.                                                *)
(*                                                                         *)
(* A submission makes an account and a request in one transaction.  A      *)
(* reviewer approves a request into an organization, an existing one or    *)
(* one made on the spot, or rejects it.  The transactions of reviewers run *)
(* at READ COMMITTED and meet in the locks of the request and of the       *)
(* organization; the permission of the reviewer is locked FOR SHARE.       *)
(***************************************************************************)
EXTENDS Naturals, FiniteSets

CONSTANTS Applicants,      \* submissions of the form, each with the account it makes
          Emails, NoEmail,
          Organizations,   \* the normalised legal names
          NoOrganization,
          Reviewers,
          NoApplicant,
          MaximumAttempts  \* of the rate limiter, in one window

ASSUME RegistrationAssumption == /\ NoEmail \notin Emails
                                 /\ NoOrganization \notin Organizations
                                 /\ NoApplicant \notin Applicants
                                 /\ MaximumAttempts \in Nat \ {0}

VARIABLES attempts,    \* rate_limits: submissions of each address in the window
          submission,  \* each submission: its address and how far it is
          customer,    \* users: the status of the account
          request,     \* customer_registrations: the status
          existing,    \* organizations
          membership,  \* organization_memberships: the role
          entitled,    \* reviewers with the permission admin:registrations
          review,      \* the review of each reviewer
          promoted     \* applicants made administrators because they were the first

registrationVars == <<attempts, submission, customer, request, existing, membership,
                      entitled, review, promoted>>

CustomerRoles == {"customer_admin", "customer_member"}
NoReview == [pc |-> "idle", op |-> "none", applicant |-> NoApplicant,
             organization |-> NoOrganization, role |-> "customer_member", first |-> FALSE]

RegistrationInit ==
  /\ attempts = [e \in Emails |-> 0]
  /\ submission = [a \in Applicants |-> [pc |-> "none", email |-> NoEmail]]
  /\ customer = [a \in Applicants |-> "absent"]
  /\ request = [a \in Applicants |-> "absent"]
  /\ existing = {}
  /\ membership = [o \in Organizations |-> [a \in Applicants |-> "none"]]
  /\ entitled = Reviewers
  /\ review = [r \in Reviewers |-> NoReview]
  /\ promoted = {}

-----------------------------------------------------------------------------
reviewState == <<existing, membership, entitled, review, promoted>>
Reach(a, pc) == submission' = [submission EXCEPT ![a].pc = pc]

\* The limiter counts an accepted submission; what it refuses is not counted.
Consume(a, e) ==
  /\ submission[a].pc = "none"
  /\ LET accepted == attempts[e] < MaximumAttempts IN
       /\ attempts' = IF accepted THEN [attempts EXCEPT ![e] = @ + 1] ELSE attempts
       /\ submission' = [submission EXCEPT ![a] =
                           [pc |-> IF accepted THEN "accepted" ELSE "refused", email |-> e]]
  /\ UNCHANGED <<customer, request, reviewState>>

WindowPasses(e) == /\ attempts[e] > 0 /\ attempts' = [attempts EXCEPT ![e] = 0]
                   /\ UNCHANGED <<submission, customer, request, reviewState>>

\* The index on the address waits for an account of it that is not committed.
Taken(e) == \E b \in Applicants : customer[b] # "absent" /\ submission[b].email = e
AwaitsAddress(a) == \E b \in Applicants \ {a} : submission[b].pc = "inserted"
                                                  /\ submission[b].email = submission[a].email
InsertAccount(a) ==
  /\ submission[a].pc = "accepted" /\ ~AwaitsAddress(a)
  /\ Reach(a, IF Taken(submission[a].email) THEN "refused" ELSE "inserted")
  /\ UNCHANGED <<attempts, customer, request, reviewState>>

SubmitRequest(a) ==
  /\ submission[a].pc = "inserted"
  /\ \/ /\ Reach(a, "submitted")
        /\ customer' = [customer EXCEPT ![a] = "pending_review"]
        /\ request' = [request EXCEPT ![a] = "pending_review"]
     \/ Reach(a, "refused") /\ UNCHANGED <<customer, request>>
  /\ UNCHANGED <<attempts, reviewState>>

\* The applicant is signed in on the spot, or sent to the sign-in; the request stands.
SignInApplicant(a) == /\ submission[a].pc = "submitted" /\ Reach(a, "answered")
                      /\ UNCHANGED <<attempts, customer, request, reviewState>>

-----------------------------------------------------------------------------
submissionState == <<attempts, submission>>
Proceed(r, pc) == review' = [review EXCEPT ![r].pc = pc]
GiveUp(r) == review' = [review EXCEPT ![r] = NoReview]
ReviewReads == UNCHANGED <<submissionState, customer, request, existing, membership, entitled,
                           promoted>>

\* The page lists the pending requests with a form for each; a page that is
\* out of date still has the forms of requests that are decided by now.
Shown(a) == request[a] # "absent"

\* A form is sent: the permission of the session is looked at before the transaction.
StartReview(r, a, op, o, role) ==
  /\ review[r] = NoReview /\ Shown(a) /\ r \in entitled
  /\ review' = [review EXCEPT ![r] = [pc |-> "guarded", op |-> op, applicant |-> a,
                                      organization |-> o, role |-> role, first |-> FALSE]]
  /\ ReviewReads

\* Inside the transaction, on rows locked FOR SHARE until it ends.
AssertPermission(r) ==
  /\ review[r].pc = "guarded"
  /\ IF r \in entitled THEN Proceed(r, "permitted") ELSE GiveUp(r)
  /\ ReviewReads

\* The permission is taken away; that waits for a review that relies on it.
RevokePermission(r) ==
  /\ review[r].pc \in {"idle", "guarded"} /\ r \in entitled
  /\ entitled' = entitled \ {r}
  /\ UNCHANGED <<submissionState, customer, request, existing, membership, review,
                 promoted>>

RequestLocked(a) == \E r \in Reviewers : review[r].pc \in {"request", "organization"}
                                           /\ review[r].applicant = a
LockRequest(r) ==
  LET a == review[r].applicant IN
  /\ review[r].pc = "permitted" /\ ~RequestLocked(a)
  /\ IF request[a] = "pending_review" THEN Proceed(r, "request") ELSE GiveUp(r)
  /\ ReviewReads

\* createOrFindOrganization waits for an organization of this name that is being
\* made; findActiveOrganization does not see it.
OrganizationLocked(o) == \E r \in Reviewers : review[r].pc = "organization"
                                                /\ review[r].organization = o
Members(o) == {a \in Applicants : membership[o][a] # "none"}

\* A defect the checks must find: the members are counted without the lock.
CountMembers(r) ==
  LET o == review[r].organization IN
  /\ review[r].pc = "request" /\ review[r].op # "reject"
  /\ review' = [review EXCEPT ![r].pc = "organization", ![r].first = Members(o) = {}]
  /\ ReviewReads

LockOrganization(r) ==
  LET o == review[r].organization
      found == review[r].op = "create" \/ o \in existing
  IN /\ review[r].pc = "request" /\ review[r].op # "reject"
     /\ IF ~found THEN GiveUp(r)
        ELSE /\ ~OrganizationLocked(o)
             /\ review' = [review EXCEPT ![r].pc = "organization",
                                         ![r].first = Members(o) = {}]
     /\ ReviewReads

\* The role asked for, but for the first member; the updates find the request
\* and the account still pending.
Approve(r) ==
  LET a == review[r].applicant
      o == review[r].organization
      asked == review[r].role
      role == IF review[r].first THEN "customer_admin" ELSE asked
  IN /\ review[r].pc = "organization"
     /\ request[a] = "pending_review" /\ customer[a] = "pending_review"
     /\ existing' = existing \cup {o}
     /\ membership' = [membership EXCEPT ![o][a] = role]
     /\ request' = [request EXCEPT ![a] = "approved"]
     /\ customer' = [customer EXCEPT ![a] = "active"]
     /\ promoted' = IF role # asked THEN promoted \cup {a} ELSE promoted
     /\ GiveUp(r)
     /\ UNCHANGED <<submissionState, entitled>>

Reject(r) ==
  /\ review[r].pc = "request" /\ review[r].op = "reject"
  /\ request[review[r].applicant] = "pending_review"
  /\ request' = [request EXCEPT ![review[r].applicant] = "rejected"]
  /\ customer' = [customer EXCEPT ![review[r].applicant] = "rejected"]
  /\ GiveUp(r)
  /\ UNCHANGED <<submissionState, existing, membership, entitled, promoted>>

\* Any error of the database: the organization made on the spot goes with it.
AbandonReview(r) == review[r].pc \notin {"idle", "guarded"} /\ GiveUp(r) /\ ReviewReads

-----------------------------------------------------------------------------
Submitting(a) == \/ \E e \in Emails : Consume(a, e)
                 \/ InsertAccount(a) \/ SubmitRequest(a) \/ SignInApplicant(a)
Reviewing(r) ==
  \/ \E a \in Applicants :
       \/ \E op \in {"create", "link"}, o \in Organizations, role \in CustomerRoles :
            StartReview(r, a, op, o, role)
       \/ StartReview(r, a, "reject", NoOrganization, "customer_member")
  \/ AssertPermission(r) \/ RevokePermission(r) \/ LockRequest(r)
  \/ LockOrganization(r) \/ Approve(r) \/ Reject(r) \/ AbandonReview(r)

RegistrationNext == \/ \E a \in Applicants : Submitting(a)
                    \/ \E e \in Emails : WindowPasses(e)
                    \/ \E r \in Reviewers : Reviewing(r)
RegistrationSpec == RegistrationInit /\ [][RegistrationNext]_registrationVars

-----------------------------------------------------------------------------
\* The shape of the state.
RegistrationTypeOK ==
  /\ attempts \in [Emails -> 0..MaximumAttempts]
  /\ submission \in [Applicants -> [pc : {"none", "refused", "accepted", "inserted", "submitted",
                                          "answered"},
                                    email : Emails \cup {NoEmail}]]
  /\ customer \in [Applicants -> {"absent", "pending_review", "active", "rejected"}]
  /\ request \in [Applicants -> {"absent", "pending_review", "approved", "rejected"}]
  /\ existing \subseteq Organizations
  /\ membership \in [Organizations -> [Applicants -> CustomerRoles \cup {"none"}]]
  /\ entitled \subseteq Reviewers
  /\ review \in [Reviewers -> [pc : {"idle", "guarded", "permitted", "request", "organization"},
                               op : {"none", "create", "link", "reject"},
                               applicant : Applicants \cup {NoApplicant},
                               organization : Organizations \cup {NoOrganization},
                               role : CustomerRoles, first : BOOLEAN]]
  /\ promoted \subseteq Applicants

OrganizationOf(a) == {o \in Organizations : a \in Members(o)}

\* However many reviewers decide at once, on one request or for one
\* organization, each request is decided once: an approved applicant is active
\* and in one organization, a rejected one in none; every organization with
\* members is led by an administrator, and no one but its first member is made
\* administrator unasked.  No address has two accounts.
OrganizationsAreLed ==
  /\ \A o \in Organizations : Members(o) # {} =>
       /\ o \in existing
       /\ \E a \in Members(o) : membership[o][a] = "customer_admin"
       /\ Cardinality(Members(o) \cap promoted) <= 1
  /\ \A a \in Applicants :
       /\ Cardinality(OrganizationOf(a)) = IF request[a] = "approved" THEN 1 ELSE 0
       /\ request[a] = "approved" <=> customer[a] = "active"
       /\ request[a] = "rejected" <=> customer[a] = "rejected"
  /\ \A a, b \in Applicants :
       "absent" \notin {customer[a], customer[b]} /\ submission[a].email = submission[b].email
         => a = b
=============================================================================
