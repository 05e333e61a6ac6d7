---------------------------- MODULE WebAdmin_proofs ----------------------------
(***************************************************************************)
(* Proofs about the components behind the administration pages.            *)
(***************************************************************************)
EXTENDS MCWebAdmin, SkillLifecycle_proofs, FiniteSetTheorems, TLAPS

HasAccount == {"inserted", "submitted", "answered"}
Deciding == {"request", "organization"}
ReviewRecords == [pc : {"idle", "guarded", "permitted", "request", "organization"},
                  op : {"none", "create", "link", "reject"},
                  applicant : Applicants \cup {NoApplicant},
                  organization : Organizations \cup {NoOrganization},
                  role : CustomerRoles, first : BOOLEAN]

\* The account and the request are made together, and the address is its account's alone.
SubmissionInv ==
  /\ \A a \in Applicants :
       /\ customer[a] # "absent" <=> submission[a].pc \in {"submitted", "answered"}
       /\ request[a] = "absent" <=> customer[a] = "absent"
       /\ request[a] = "approved" <=> customer[a] = "active"
       /\ request[a] = "rejected" <=> customer[a] = "rejected"
  /\ \A a, b \in Applicants :
       /\ submission[a].pc \in HasAccount /\ submission[b].pc \in HasAccount
       /\ submission[a].email = submission[b].email
       => a = b

\* What a review holds: its request is pending and its alone, and so is its
\* organization, whose members it has counted.
ReviewInv ==
  /\ \A r \in Reviewers :
       /\ review[r].pc # "idle" =>
            /\ review[r].applicant \in Applicants
            /\ review[r].op # "reject" => review[r].organization \in Organizations
       /\ review[r].pc \in Deciding => request[review[r].applicant] = "pending_review"
       /\ review[r].pc = "organization" =>
            /\ review[r].op # "reject"
            /\ review[r].first <=> \A a \in Applicants :
                                     membership[review[r].organization][a] = "none"
  /\ \A q, r \in Reviewers :
       /\ review[q].pc \in Deciding /\ review[r].pc \in Deciding
          /\ review[q].applicant = review[r].applicant => q = r
       /\ review[q].pc = "organization" /\ review[r].pc = "organization"
          /\ review[q].organization = review[r].organization => q = r

\* An approved applicant is in one organization, and leads it when it was the first.
MemberInv ==
  /\ \A o \in Organizations, a \in Applicants :
       membership[o][a] # "none" => request[a] = "approved" /\ o \in existing
  /\ \A a \in Applicants : request[a] = "approved" =>
       \E o \in Organizations : membership[o][a] # "none"
  /\ \A a \in Applicants, o, p \in Organizations :
       membership[o][a] # "none" /\ membership[p][a] # "none" => o = p
  /\ \A o \in Organizations : \A a \in Applicants : membership[o][a] # "none" =>
       \E b \in Applicants : membership[o][b] = "customer_admin"
  /\ \A o \in Organizations, a, b \in promoted :
       membership[o][a] # "none" /\ membership[o][b] # "none" => a = b
  /\ \A a \in promoted : request[a] = "approved"

RegistrationInv == RegistrationTypeOK /\ SubmissionInv /\ ReviewInv /\ MemberInv

-----------------------------------------------------------------------------
\* The platform starts without requests.
LEMMA RegistrationStarts == RegistrationInit => RegistrationInv
<1> SUFFICES ASSUME RegistrationInit PROVE RegistrationInv
  OBVIOUS
<1>1. RegistrationTypeOK
  BY RegistrationAssumption DEF RegistrationInit, RegistrationTypeOK, NoReview, CustomerRoles
<1>2. SubmissionInv
  BY DEF RegistrationInit, SubmissionInv, HasAccount
<1>3. ReviewInv
  BY DEF RegistrationInit, ReviewInv, NoReview, Deciding
<1>4. MemberInv
  BY DEF RegistrationInit, MemberInv
<1> QED BY <1>1, <1>2, <1>3, <1>4 DEF RegistrationInv

\* The steps of a submission touch no review and no organization: they keep the
\* address of an account its own, and make no request but a pending one.
LEMMA SubmittingKeeps ==
  ASSUME RegistrationInv, NEW a \in Applicants, Submitting(a)
  PROVE  RegistrationInv'
<1> USE DEF RegistrationInv
<1>1. ASSUME NEW e \in Emails, Consume(a, e) PROVE RegistrationInv'
  <2>1. PICK pc \in {"accepted", "refused"} :
          submission' = [submission EXCEPT ![a] = [pc |-> pc, email |-> e]]
    BY <1>1 DEF Consume
  <2>2. attempts' \in [Emails -> 0..MaximumAttempts]
    <3>1. CASE attempts[e] < MaximumAttempts
      <4>1. attempts[e] + 1 \in 0..MaximumAttempts
        BY <3>1, RegistrationAssumption DEF RegistrationTypeOK
      <4> QED BY <1>1, <3>1, <4>1 DEF Consume, RegistrationTypeOK
    <3>2. CASE ~(attempts[e] < MaximumAttempts)
      BY <1>1, <3>2 DEF Consume, RegistrationTypeOK
    <3> QED BY <3>1, <3>2
  <2>3. RegistrationTypeOK'
    BY <1>1, <2>1, <2>2 DEF RegistrationTypeOK, Consume, reviewState
  <2>4. \A b \in Applicants : submission'[b] # submission[b] =>
          b = a /\ submission'[b].pc \notin HasAccount
    BY <2>1 DEF RegistrationTypeOK, HasAccount
  <2>5. submission[a].pc = "none"
    BY <1>1 DEF Consume
  <2>6. SubmissionInv'
    BY <1>1, <2>4, <2>5 DEF SubmissionInv, Consume, HasAccount
  <2>7. ReviewInv' /\ MemberInv'
    BY <1>1 DEF ReviewInv, MemberInv, Consume, reviewState
  <2> QED BY <2>3, <2>6, <2>7
<1>2. CASE InsertAccount(a)
  <2>1. RegistrationTypeOK'
    BY <1>2 DEF RegistrationTypeOK, InsertAccount, Reach, reviewState
  <2>2. SubmissionInv'
    BY <1>2 DEF SubmissionInv, RegistrationTypeOK, InsertAccount, Reach, HasAccount, Taken,
                AwaitsAddress
  <2>3. ReviewInv' /\ MemberInv'
    BY <1>2 DEF ReviewInv, MemberInv, InsertAccount, reviewState
  <2> QED BY <2>1, <2>2, <2>3
<1>3. CASE SubmitRequest(a)
  <2>0. \/ /\ submission' = [submission EXCEPT ![a].pc = "submitted"]
           /\ customer' = [customer EXCEPT ![a] = "pending_review"]
           /\ request' = [request EXCEPT ![a] = "pending_review"]
        \/ submission' = [submission EXCEPT ![a].pc = "refused"] /\ UNCHANGED <<customer, request>>
    BY <1>3 DEF SubmitRequest, Reach
  <2>1. RegistrationTypeOK'
    <3>1. submission' \in [Applicants -> [pc : {"none", "refused", "accepted", "inserted",
                                                "submitted", "answered"},
                                          email : Emails \cup {NoEmail}]]
      BY <2>0 DEF RegistrationTypeOK
    <3>2. /\ customer' \in [Applicants -> {"absent", "pending_review", "active", "rejected"}]
          /\ request' \in [Applicants -> {"absent", "pending_review", "approved", "rejected"}]
      BY <2>0 DEF RegistrationTypeOK
    <3> QED BY <1>3, <3>1, <3>2 DEF RegistrationTypeOK, SubmitRequest, reviewState
  <2>2. SubmissionInv'
    <3>1. submission[a].pc = "inserted"
      BY <1>3 DEF SubmitRequest
    <3>2. \A b \in Applicants :
            /\ submission'[b].email = submission[b].email
            /\ submission'[b].pc \in HasAccount => submission[b].pc \in HasAccount
      BY <2>0, <3>1 DEF HasAccount, RegistrationTypeOK
    <3>3. \A b \in Applicants \ {a} : /\ submission'[b] = submission[b]
                                      /\ customer'[b] = customer[b] /\ request'[b] = request[b]
      BY <2>0 DEF RegistrationTypeOK
    <3>4. customer[a] = "absent" /\ request[a] = "absent"
      BY <3>1 DEF SubmissionInv
    <3>5. \/ submission'[a].pc = "submitted" /\ customer'[a] = "pending_review"
             /\ request'[a] = "pending_review"
          \/ submission'[a].pc = "refused" /\ customer'[a] = "absent" /\ request'[a] = "absent"
      BY <2>0, <3>1, <3>4 DEF RegistrationTypeOK
    <3>6. /\ customer'[a] # "absent" <=> submission'[a].pc \in {"submitted", "answered"}
          /\ request'[a] = "absent" <=> customer'[a] = "absent"
          /\ request'[a] = "approved" <=> customer'[a] = "active"
          /\ request'[a] = "rejected" <=> customer'[a] = "rejected"
      BY <3>5
    <3> QED BY <3>2, <3>3, <3>6 DEF SubmissionInv
  <2>3. request[a] = "absent"
    BY <1>3 DEF SubmissionInv, SubmitRequest
  <2>4. \A b \in Applicants : request[b] # "absent" => request'[b] = request[b]
    BY <1>3, <2>3 DEF SubmitRequest, RegistrationTypeOK
  <2>5. \A b \in Applicants : request'[b] = "approved" => request[b] = "approved"
    BY <1>3 DEF SubmitRequest, RegistrationTypeOK
  <2>6. ReviewInv'
    BY <1>3, <2>4 DEF ReviewInv, RegistrationTypeOK, SubmitRequest, reviewState, Deciding
  <2>7. MemberInv'
    BY <1>3, <2>4, <2>5 DEF MemberInv, RegistrationTypeOK, SubmitRequest, reviewState
  <2> QED BY <2>1, <2>2, <2>6, <2>7
<1>4. CASE SignInApplicant(a)
  <2>1. RegistrationTypeOK'
    BY <1>4 DEF RegistrationTypeOK, SignInApplicant, Reach, reviewState
  <2>2. SubmissionInv'
    BY <1>4 DEF SubmissionInv, RegistrationTypeOK, SignInApplicant, Reach, HasAccount
  <2>3. ReviewInv' /\ MemberInv'
    BY <1>4 DEF ReviewInv, MemberInv, SignInApplicant, reviewState
  <2> QED BY <2>1, <2>2, <2>3
<1> QED BY <1>1, <1>2, <1>3, <1>4 DEF Submitting

\* The window of the rate limiter is nobody else's concern.
LEMMA WindowKeeps ==
  ASSUME RegistrationInv, NEW e \in Emails, WindowPasses(e)
  PROVE  RegistrationInv'
<1>1. RegistrationTypeOK'
  BY RegistrationAssumption DEF RegistrationInv, RegistrationTypeOK, WindowPasses, reviewState
<1>2. SubmissionInv' /\ ReviewInv' /\ MemberInv'
  BY DEF RegistrationInv, SubmissionInv, ReviewInv, MemberInv, WindowPasses, reviewState
<1> QED BY <1>1, <1>2 DEF RegistrationInv

\* A step that reads leaves the accounts and the organizations as they are.
LEMMA ReadingKeeps ==
  ASSUME RegistrationInv, ReviewReads
  PROVE  SubmissionInv' /\ MemberInv'
BY DEF RegistrationInv, SubmissionInv, MemberInv, ReviewReads, submissionState

\* A review that proceeds keeps what it was sent with.
LEMMA ProceedingTypes ==
  ASSUME RegistrationTypeOK, ReviewReads, NEW r \in Reviewers,
         NEW pc \in {"permitted", "request"}, Proceed(r, pc)
  PROVE  RegistrationTypeOK'
<1>1. review \in [Reviewers -> ReviewRecords]
  BY DEF RegistrationTypeOK, ReviewRecords
<1>2. [review[r] EXCEPT !.pc = pc] \in ReviewRecords
  BY <1>1 DEF ReviewRecords
<1>3. review' = [review EXCEPT ![r] = [review[r] EXCEPT !.pc = pc]]
  BY <1>1 DEF Proceed
<1>4. review' \in [Reviewers -> ReviewRecords]
  BY <1>1, <1>2, <1>3
<1> QED BY <1>4 DEF RegistrationTypeOK, ReviewRecords, ReviewReads, submissionState

\* A review that is given up holds nothing.
LEMMA GivingUpKeeps ==
  ASSUME RegistrationInv, NEW r \in Reviewers, GiveUp(r), ReviewReads
  PROVE  RegistrationInv'
<1> USE DEF RegistrationInv
<1>1. RegistrationTypeOK'
  BY RegistrationAssumption
  DEF RegistrationTypeOK, GiveUp, ReviewReads, submissionState, NoReview, CustomerRoles
<1>2. ReviewInv'
  BY DEF RegistrationTypeOK, ReviewInv, GiveUp, ReviewReads, submissionState, NoReview, Deciding
<1> QED BY <1>1, <1>2, ReadingKeeps

\* The form arrives, and its permission is looked at twice.
LEMMA OpeningKeeps ==
  ASSUME RegistrationInv, NEW r \in Reviewers,
         \/ \E a \in Applicants :
              \/ \E op \in {"create", "link"}, o \in Organizations, role \in CustomerRoles :
                   StartReview(r, a, op, o, role)
              \/ StartReview(r, a, "reject", NoOrganization, "customer_member")
         \/ AssertPermission(r)
         \/ RevokePermission(r)
  PROVE  RegistrationInv'
<1> USE DEF RegistrationInv
<1>1. ASSUME NEW a \in Applicants, NEW op \in {"create", "link", "reject"},
             NEW o \in Organizations \cup {NoOrganization}, NEW role \in CustomerRoles,
             op # "reject" => o \in Organizations,
             StartReview(r, a, op, o, role)
      PROVE  RegistrationInv'
  <2>1. RegistrationTypeOK'
    <3>1. [pc |-> "guarded", op |-> op, applicant |-> a, organization |-> o, role |-> role,
           first |-> FALSE] \in ReviewRecords
      BY <1>1 DEF ReviewRecords
    <3> QED BY <1>1, <3>1
            DEF RegistrationTypeOK, ReviewRecords, StartReview, ReviewReads, submissionState
  <2>2. ReviewInv'
    BY <1>1 DEF RegistrationTypeOK, ReviewInv, StartReview, ReviewReads, submissionState, Deciding
  <2>3. ReviewReads
    BY <1>1 DEF StartReview
  <2> QED BY <2>1, <2>2, <2>3, ReadingKeeps
<1>2. CASE AssertPermission(r)
  <2>1. ReviewReads
    BY <1>2 DEF AssertPermission
  <2>2. CASE GiveUp(r)
    BY <2>1, <2>2, GivingUpKeeps
  <2>3. CASE Proceed(r, "permitted")
    <3>1. RegistrationTypeOK'
      BY <2>1, <2>3, ProceedingTypes
    <3>2. ReviewInv'
      BY <1>2, <2>1, <2>3
      DEF RegistrationTypeOK, ReviewInv, AssertPermission, Proceed, ReviewReads, submissionState,
          Deciding
    <3> QED BY <2>1, <3>1, <3>2, ReadingKeeps
  <2> QED BY <1>2, <2>2, <2>3 DEF AssertPermission
<1>3. CASE RevokePermission(r)
  <2>1. RegistrationTypeOK'
    BY <1>3 DEF RegistrationTypeOK, RevokePermission, submissionState
  <2>2. SubmissionInv' /\ ReviewInv' /\ MemberInv'
    BY <1>3 DEF SubmissionInv, ReviewInv, MemberInv, RevokePermission, submissionState
  <2> QED BY <2>1, <2>2
<1>4. "customer_member" \in CustomerRoles
  BY DEF CustomerRoles
<1> QED BY <1>1, <1>2, <1>3, <1>4

\* The locks: a review takes a request or an organization only from nobody.
LEMMA LockingKeeps ==
  ASSUME RegistrationInv, NEW r \in Reviewers,
         LockRequest(r) \/ LockOrganization(r) \/ AbandonReview(r)
  PROVE  RegistrationInv'
<1> USE DEF RegistrationInv
<1>1. ReviewReads
  BY DEF LockRequest, LockOrganization, AbandonReview
<1>2. CASE GiveUp(r)
  BY <1>1, <1>2, GivingUpKeeps
<1>3. CASE LockRequest(r) /\ ~GiveUp(r)
  <2>1. /\ Proceed(r, "request") /\ request[review[r].applicant] = "pending_review"
        /\ review[r].pc = "permitted" /\ ~RequestLocked(review[r].applicant)
    BY <1>3 DEF LockRequest
  <2>2. RegistrationTypeOK'
    BY <1>1, <2>1, ProceedingTypes
  <2>3. ReviewInv'
    BY <1>1, <2>1
    DEF RegistrationTypeOK, ReviewInv, Proceed, RequestLocked, ReviewReads, submissionState, Deciding
  <2> QED BY <1>1, <2>2, <2>3, ReadingKeeps
<1>4. CASE LockOrganization(r) /\ ~GiveUp(r)
  <2> DEFINE o == review[r].organization
  <2>1. /\ review[r].pc = "request" /\ review[r].op # "reject" /\ ~OrganizationLocked(o)
        /\ review' = [review EXCEPT ![r].pc = "organization", ![r].first = Members(o) = {}]
    BY <1>4 DEF LockOrganization
  <2>2. RegistrationTypeOK'
    <3>1. review \in [Reviewers -> ReviewRecords] /\ (Members(o) = {}) \in BOOLEAN
      BY DEF RegistrationTypeOK, ReviewRecords
    <3>2. [review[r] EXCEPT !.pc = "organization", !.first = Members(o) = {}] \in ReviewRecords
      BY <3>1 DEF ReviewRecords
    <3>3. review' = [review EXCEPT ![r] = [review[r] EXCEPT !.pc = "organization",
                                                           !.first = Members(o) = {}]]
      BY <2>1, <3>1
    <3>4. review' \in [Reviewers -> ReviewRecords]
      BY <3>1, <3>2, <3>3
    <3> QED BY <1>1, <3>4 DEF RegistrationTypeOK, ReviewRecords, ReviewReads, submissionState
  <2>3. Members(o) = {} <=> \A a \in Applicants : membership[o][a] = "none"
    BY DEF Members
  <2>4. \A q \in Reviewers \ {r} : review'[q] = review[q]
    BY <2>1 DEF RegistrationTypeOK
  <2>5. PICK first : first = (Members(o) = {})
    OBVIOUS
  <2>6. /\ review'[r].pc = "organization" /\ review'[r].op = review[r].op
        /\ review'[r].applicant = review[r].applicant /\ review'[r].organization = o
        /\ review'[r].first = first
    BY <2>1, <2>5 DEF RegistrationTypeOK
  <2>7. \A q \in Reviewers \ {r} : review[q].pc = "organization" => review[q].organization # o
    BY <2>1 DEF OrganizationLocked
  <2>8. UNCHANGED <<request, membership>>
    BY <1>1 DEF ReviewReads
  <2>9. ReviewInv'
    <3>1. \A q \in Reviewers \ {r} :
            review[q].pc \in Deciding => review[q].applicant # review[r].applicant
      BY <2>1 DEF ReviewInv, Deciding
    <3>2. \A q, s \in Reviewers :
            /\ review'[q].pc \in Deciding /\ review'[s].pc \in Deciding
               /\ review'[q].applicant = review'[s].applicant => q = s
            /\ review'[q].pc = "organization" /\ review'[s].pc = "organization"
               /\ review'[q].organization = review'[s].organization => q = s
      BY <2>4, <2>6, <2>7, <3>1 DEF ReviewInv
    <3>3. review[r].pc # "idle" /\ review[r].pc \in Deciding
      BY <2>1 DEF Deciding
    <3>4. /\ review'[r].applicant \in Applicants
          /\ review'[r].op # "reject" /\ review'[r].organization \in Organizations
          /\ request[review'[r].applicant] = "pending_review"
      BY <2>1, <2>6, <3>3 DEF ReviewInv
    <3>5. \A q \in Reviewers :
            /\ review'[q].pc # "idle" =>
                 /\ review'[q].applicant \in Applicants
                 /\ review'[q].op # "reject" => review'[q].organization \in Organizations
            /\ review'[q].pc \in Deciding => request[review'[q].applicant] = "pending_review"
      BY <2>4, <3>4 DEF ReviewInv
    <3>6. \A q \in Reviewers : review'[q].pc = "organization" =>
            /\ review'[q].op # "reject"
            /\ review'[q].first <=> \A a \in Applicants :
                                      membership[review'[q].organization][a] = "none"
      <4>1. review'[r].first <=> \A a \in Applicants : membership[o][a] = "none"
        BY <2>3, <2>5, <2>6
      <4>2. review'[r].op # "reject" /\ review'[r].organization = o
        BY <2>1, <2>6
      <4> HIDE DEF o
      <4> QED BY <2>4, <4>1, <4>2 DEF ReviewInv
    <3> QED BY <2>8, <3>2, <3>5, <3>6 DEF ReviewInv
  <2> QED BY <1>1, <2>2, <2>9, ReadingKeeps
<1> QED BY <1>2, <1>3, <1>4 DEF AbandonReview

\* An approval: nobody else decides on its request or counts in its organization.
LEMMA ApproveKeeps ==
  ASSUME RegistrationInv, NEW r \in Reviewers, Approve(r)
  PROVE  RegistrationInv'
<1> USE DEF RegistrationInv
<1>1. PICK a \in Applicants : a = review[r].applicant
  BY DEF Approve, ReviewInv
<1>2. PICK o \in Organizations : o = review[r].organization
  BY DEF Approve, ReviewInv
<1>3. PICK role \in CustomerRoles :
        /\ role = IF review[r].first THEN "customer_admin" ELSE review[r].role
        /\ membership' = [membership EXCEPT ![o][a] = role]
        /\ promoted' = IF role # review[r].role THEN promoted \cup {a} ELSE promoted
  BY <1>1, <1>2 DEF Approve, RegistrationTypeOK, CustomerRoles
<1>4. /\ review[r].pc = "organization"
      /\ request[a] = "pending_review" /\ customer[a] = "pending_review"
      /\ existing' = existing \cup {o}
      /\ request' = [request EXCEPT ![a] = "approved"]
      /\ customer' = [customer EXCEPT ![a] = "active"]
      /\ review' = [review EXCEPT ![r] = NoReview]
      /\ UNCHANGED <<attempts, submission, entitled>>
  BY <1>1, <1>2 DEF Approve, GiveUp, submissionState
<1>5. role # "none"
  BY DEF CustomerRoles
<1>6. \A p \in Organizations, b \in Applicants :
        membership'[p][b] = IF p = o /\ b = a THEN role ELSE membership[p][b]
  BY <1>3 DEF RegistrationTypeOK
<1>7. \A b \in Applicants : request'[b] = IF b = a THEN "approved" ELSE request[b]
  BY <1>4 DEF RegistrationTypeOK
<1>8. \A p \in Organizations : membership[p][a] = "none"
  BY <1>4 DEF MemberInv
<1>9. RegistrationTypeOK'
  <2>1. membership' \in [Organizations -> [Applicants -> CustomerRoles \cup {"none"}]]
    BY <1>3 DEF RegistrationTypeOK
  <2>2. review' \in [Reviewers -> [pc : {"idle", "guarded", "permitted", "request", "organization"},
                               op : {"none", "create", "link", "reject"},
                               applicant : Applicants \cup {NoApplicant},
                               organization : Organizations \cup {NoOrganization},
                               role : CustomerRoles, first : BOOLEAN]]
    BY <1>4, RegistrationAssumption DEF RegistrationTypeOK, NoReview, CustomerRoles
  <2>3. promoted' \subseteq Applicants /\ existing' \subseteq Organizations
    BY <1>3, <1>4 DEF RegistrationTypeOK
  <2> QED BY <1>4, <2>1, <2>2, <2>3 DEF RegistrationTypeOK
<1>10. SubmissionInv'
  BY <1>4 DEF SubmissionInv, RegistrationTypeOK
<1>11. ReviewInv'
  <2>1. \A q \in Reviewers \ {r} : review'[q] = review[q]
    BY <1>4 DEF RegistrationTypeOK
  <2>2. review'[r].pc = "idle"
    BY <1>4 DEF RegistrationTypeOK, NoReview
  <2>3. \A q \in Reviewers \ {r} : review[q].pc \in Deciding => review[q].applicant # a
    BY <1>1, <1>4 DEF ReviewInv, Deciding
  <2>4. \A q \in Reviewers \ {r} : review[q].pc = "organization" => review[q].organization # o
    BY <1>2, <1>4 DEF ReviewInv
  <2>5. \A q \in Reviewers \ {r} : review[q].pc = "organization" =>
          /\ review[q].organization \in Organizations
          /\ \A b \in Applicants : membership'[review[q].organization][b]
                                     = membership[review[q].organization][b]
    BY <1>6, <2>4 DEF ReviewInv
  <2>6. \A q \in Reviewers \ {r} : review[q].pc \in Deciding =>
          request'[review[q].applicant] = "pending_review"
    BY <1>7, <2>3 DEF ReviewInv, Deciding
  <2>7. \A q \in Reviewers :
          /\ review'[q].pc # "idle" => q # r
          /\ review'[q].pc \in Deciding => q # r
          /\ review'[q].pc = "organization" => q # r
    BY <2>2 DEF Deciding
  <2> QED BY <2>1, <2>5, <2>6, <2>7 DEF ReviewInv
<1>12. MemberInv'
  <2>1. \A p \in Organizations, b \in Applicants :
          membership'[p][b] # "none" => request'[b] = "approved" /\ p \in existing'
    BY <1>4, <1>6, <1>7 DEF MemberInv
  <2>2. \A b \in Applicants : request'[b] = "approved" =>
          \E p \in Organizations : membership'[p][b] # "none"
    BY <1>5, <1>6, <1>7 DEF MemberInv
  <2>3. \A b \in Applicants, p, q \in Organizations :
          membership'[p][b] # "none" /\ membership'[q][b] # "none" => p = q
    BY <1>6, <1>8 DEF MemberInv
  <2>4. ASSUME NEW p \in Organizations, NEW b \in Applicants, membership'[p][b] # "none"
        PROVE  \E c \in Applicants : membership'[p][c] = "customer_admin"
    <3>1. CASE \E c \in Applicants : membership[p][c] # "none"
      <4>1. PICK c \in Applicants : membership[p][c] = "customer_admin"
        BY <3>1 DEF MemberInv
      <4>2. c # a
        BY <1>8, <4>1
      <4> QED BY <1>6, <4>1, <4>2
    <3>2. CASE \A c \in Applicants : membership[p][c] = "none"
      <4>1. p = o
        BY <1>6, <2>4, <3>2
      <4>2. review[r].first
        BY <1>2, <1>4, <3>2, <4>1 DEF ReviewInv
      <4> QED BY <1>3, <1>6, <4>1, <4>2
    <3> QED BY <3>1, <3>2
  <2>5. \A p \in Organizations, b, c \in promoted' :
          membership'[p][b] # "none" /\ membership'[p][c] # "none" => b = c
    <3>1. CASE role = review[r].role
      <4>1. promoted' = promoted /\ a \notin promoted
        BY <1>3, <1>4, <3>1 DEF MemberInv
      <4>2. \A p \in Organizations, b \in promoted :
              b \in Applicants /\ membership'[p][b] = membership[p][b]
        BY <1>6, <4>1 DEF RegistrationTypeOK
      <4>3. \A p \in Organizations, b, c \in promoted :
              membership[p][b] # "none" /\ membership[p][c] # "none" => b = c
        BY DEF MemberInv
      <4> QED BY <4>1, <4>2, <4>3
    <3>2. CASE role # review[r].role
      <4>1. review[r].first /\ promoted' = promoted \cup {a}
        BY <1>3, <3>2
      <4>2. \A c \in Applicants : membership[o][c] = "none"
        BY <1>2, <1>4, <4>1 DEF ReviewInv
      <4>3. \A b \in promoted' : membership'[o][b] # "none" => b = a
        BY <1>6, <4>1, <4>2 DEF RegistrationTypeOK
      <4>4. \A p \in Organizations \ {o}, b \in promoted' : membership'[p][b] # "none" =>
              b \in promoted /\ membership[p][b] # "none"
        BY <1>6, <1>8, <4>1 DEF RegistrationTypeOK
      <4>5. \A p \in Organizations \ {o}, b, c \in promoted' :
              membership'[p][b] # "none" /\ membership'[p][c] # "none" => b = c
        BY <4>4 DEF MemberInv
      <4> QED BY <4>3, <4>5
    <3> QED BY <3>1, <3>2
  <2>6. \A b \in promoted' : request'[b] = "approved"
    BY <1>3, <1>7 DEF MemberInv, RegistrationTypeOK
  <2> QED BY <2>1, <2>2, <2>3, <2>4, <2>5, <2>6 DEF MemberInv
<1> QED BY <1>9, <1>10, <1>11, <1>12

\* A rejection: nobody else decides on its request.
LEMMA RejectKeeps ==
  ASSUME RegistrationInv, NEW r \in Reviewers, Reject(r)
  PROVE  RegistrationInv'
<1> USE DEF RegistrationInv
<1>1. PICK a \in Applicants : a = review[r].applicant
  BY DEF Reject, ReviewInv
<1>2. /\ review[r].pc = "request" /\ request[a] = "pending_review"
      /\ request' = [request EXCEPT ![a] = "rejected"]
      /\ customer' = [customer EXCEPT ![a] = "rejected"]
      /\ review' = [review EXCEPT ![r] = NoReview]
      /\ UNCHANGED <<attempts, submission, existing, membership, entitled, promoted>>
  BY <1>1 DEF Reject, GiveUp, submissionState
<1>3. RegistrationTypeOK'
  BY <1>2, RegistrationAssumption DEF RegistrationTypeOK, NoReview, CustomerRoles
<1>4. customer[a] # "absent"
  BY <1>2 DEF SubmissionInv
<1>5. SubmissionInv'
  BY <1>2, <1>4 DEF SubmissionInv, RegistrationTypeOK
<1>6. ReviewInv'
  <2>1. \A q \in Reviewers \ {r} : review'[q] = review[q]
    BY <1>2 DEF RegistrationTypeOK
  <2>2. review'[r].pc = "idle"
    BY <1>2 DEF RegistrationTypeOK, NoReview
  <2>3. \A q \in Reviewers \ {r} : review[q].pc \in Deciding =>
          request'[review[q].applicant] = "pending_review"
    BY <1>1, <1>2 DEF ReviewInv, Deciding, RegistrationTypeOK
  <2>4. \A q \in Reviewers :
          /\ review'[q].pc # "idle" => q # r
          /\ review'[q].pc \in Deciding => q # r
          /\ review'[q].pc = "organization" => q # r
    BY <2>2 DEF Deciding
  <2> QED BY <1>2, <2>1, <2>3, <2>4 DEF ReviewInv
<1>7. \A b \in Applicants : request'[b] = "approved" <=> request[b] = "approved"
  BY <1>2 DEF RegistrationTypeOK
<1>8. MemberInv'
  BY <1>2, <1>7 DEF MemberInv, RegistrationTypeOK
<1> QED BY <1>3, <1>5, <1>6, <1>8

\* Every step of the registrations keeps the invariant.
LEMMA RegistrationKept ==
  RegistrationInv /\ [RegistrationNext]_registrationVars => RegistrationInv'
<1> SUFFICES ASSUME RegistrationInv, [RegistrationNext]_registrationVars
             PROVE  RegistrationInv'
  OBVIOUS
<1>1. CASE \E a \in Applicants : Submitting(a)
  BY <1>1, SubmittingKeeps
<1>2. CASE \E e \in Emails : WindowPasses(e)
  BY <1>2, WindowKeeps
<1>3. ASSUME NEW r \in Reviewers, Reviewing(r) PROVE RegistrationInv'
  BY <1>3, OpeningKeeps, LockingKeeps, ApproveKeeps, RejectKeeps DEF Reviewing
<1>4. CASE UNCHANGED registrationVars
  <2>1. RegistrationTypeOK'
    BY <1>4 DEF registrationVars, RegistrationInv, RegistrationTypeOK
  <2>2. SubmissionInv' /\ ReviewInv' /\ MemberInv'
    BY <1>4 DEF registrationVars, RegistrationInv, SubmissionInv, ReviewInv, MemberInv
  <2> QED BY <2>1, <2>2 DEF RegistrationInv
<1> QED BY <1>1, <1>2, <1>3, <1>4 DEF RegistrationNext

\* A set without two different members has at most one.
LEMMA AtMostOne ==
  ASSUME NEW S, \A x, y \in S : x = y
  PROVE  Cardinality(S) <= 1
<1>1. CASE S = {}
  BY <1>1, FS_EmptySet
<1>2. CASE S # {}
  <2>1. PICK x \in S : S = {x}
    BY <1>2
  <2> QED BY <2>1, FS_Singleton
<1> QED BY <1>1, <1>2

\* What the reviewers rely on follows from the invariant.
LEMMA OrganizationsFollow == RegistrationInv => OrganizationsAreLed
<1> SUFFICES ASSUME RegistrationInv PROVE OrganizationsAreLed
  OBVIOUS
<1> USE DEF RegistrationInv
<1>1. ASSUME NEW o \in Organizations, Members(o) # {}
      PROVE  /\ o \in existing
             /\ \E a \in Members(o) : membership[o][a] = "customer_admin"
             /\ Cardinality(Members(o) \cap promoted) <= 1
  <2>1. PICK b \in Applicants : membership[o][b] # "none"
    BY <1>1 DEF Members
  <2>2. o \in existing
    BY <2>1 DEF MemberInv
  <2>3. PICK c \in Applicants : membership[o][c] = "customer_admin"
    BY <2>1 DEF MemberInv
  <2>4. c \in Members(o)
    BY <2>3 DEF Members
  <2>5. \A x, y \in Members(o) \cap promoted : x = y
    BY DEF MemberInv, Members
  <2>6. Cardinality(Members(o) \cap promoted) <= 1
    BY <2>5, AtMostOne
  <2> QED BY <2>2, <2>3, <2>4, <2>6
<1>2. ASSUME NEW a \in Applicants
      PROVE  Cardinality(OrganizationOf(a)) = IF request[a] = "approved" THEN 1 ELSE 0
  <2>1. CASE request[a] = "approved"
    <3>1. PICK o \in Organizations : membership[o][a] # "none"
      BY <2>1 DEF MemberInv
    <3>2. OrganizationOf(a) = {o}
      BY <3>1 DEF OrganizationOf, Members, MemberInv
    <3> QED BY <2>1, <3>2, FS_Singleton
  <2>2. CASE request[a] # "approved"
    <3>1. OrganizationOf(a) = {}
      BY <2>2 DEF OrganizationOf, Members, MemberInv
    <3> QED BY <2>2, <3>1, FS_EmptySet
  <2> QED BY <2>1, <2>2
<1>3. \A a \in Applicants : /\ request[a] = "approved" <=> customer[a] = "active"
                            /\ request[a] = "rejected" <=> customer[a] = "rejected"
  BY DEF SubmissionInv
<1>4. \A a, b \in Applicants :
        "absent" \notin {customer[a], customer[b]} /\ submission[a].email = submission[b].email
          => a = b
  BY DEF SubmissionInv, HasAccount
<1> QED BY <1>1, <1>2, <1>3, <1>4 DEF OrganizationsAreLed

\* The state of the registrations has its shape.
THEOREM RegistrationTypesCorrect == RegistrationSpec => []RegistrationTypeOK
<1>1. RegistrationInv => RegistrationTypeOK
  BY DEF RegistrationInv
<1> QED BY <1>1, RegistrationStarts, RegistrationKept, PTL DEF RegistrationSpec

\* However many reviewers decide at once, each request is decided once, every
\* organization with members is led, and no address has two accounts.
THEOREM ReviewCorrect == RegistrationSpec => []OrganizationsAreLed
<1> QED BY RegistrationStarts, RegistrationKept, OrganizationsFollow, PTL DEF RegistrationSpec

-----------------------------------------------------------------------------
(***************************************************************************)
(* The accounts of the staff.                                              *)
(***************************************************************************)
MutationRecords ==
  [pc : {"none", "guarded", "locked", "checked", "written"},
   op : UserOps \cup RoleOps \cup {"grant", "none"}, target : Staff \cup {NoStaff}, role : Roles,
   keys : SUBSET Keys, doomed : SUBSET Sessions]
AccountRecords == [status : {"absent", "active", "disabled"}, roles : SUBSET Roles,
                   mustChange : BOOLEAN]
UnderLock == {"locked", "checked", "written"}
Decided == {"checked", "written"}

\* A session belongs to somebody who is active.
SessionInv ==
  /\ \A s \in Sessions : /\ signIn[s].pc # "none" => signIn[s].user \in Staff
                         /\ mutation[s].pc # "none" => signIn[s].pc # "none"
  /\ \A s \in rows : signIn[s].pc # "none" /\ Active(Actor(s))

\* A transaction beyond its first statement holds its advisory lock.
MutationInv ==
  /\ mutation \in [Sessions -> MutationRecords]
  /\ \A s \in Sessions :
       /\ mutation[s].pc # "none" => mutation[s].op # "none" /\ mutation[s].target \in Staff
       /\ mutation[s].pc \in UnderLock =>
            IF mutation[s].op = "grant" THEN permissionLock = s ELSE privilegeLock = s

\* What a request leaves of the super administrator v when it is committed.
Spares(q, v) ==
  v = q.target => /\ q.op \notin {"create", "disable"}
                  /\ q.op = "set" => q.role = "super_admin"
                  /\ q.op = "remove" => q.role # "super_admin"

\* What was decided is still right when it is committed: an active super
\* administrator is spared, and a disabled user leaves no session.
DecidedInv ==
  \A s \in Sessions :
    LET q == mutation[s] IN
    /\ q.pc \in Decided /\ q.op # "grant" => \E v \in ActiveSupers : Spares(q, v)
    /\ q.pc \in Decided /\ q.op = "grant" /\ q.role = "super_admin" => "admin:roles" \in q.keys
    /\ q.pc = "written" /\ q.op = "disable" =>
         \A t \in rows : Actor(t) = q.target => t \in q.doomed

LeadInv == /\ (\E u \in Staff : account[u] # NoAccount) => ActiveSupers # {}
           /\ "admin:roles" \in grants["super_admin"]

AccountsInv == AccountsTypeOK /\ SessionInv /\ MutationInv /\ DecidedInv /\ LeadInv

\* A new platform, and one where everybody is a super administrator.
LEMMA AccountsStart == AccountsInit => AccountsInv
<1> SUFFICES ASSUME AccountsInit PROVE AccountsInv
  OBVIOUS
<1>0. /\ \A u \in Staff : account[u] \in {NoAccount, [status |-> "active",
                                          roles |-> {"super_admin"}, mustChange |-> FALSE]}
      /\ (\E u \in Staff : account[u] # NoAccount) =>
           \A u \in Staff : account[u].status = "active" /\ "super_admin" \in account[u].roles
  BY DEF AccountsInit
<1>1. AccountsTypeOK
  <2>1. account \in [Staff -> [status : {"absent", "active", "disabled"}, roles : SUBSET Roles,
                               mustChange : BOOLEAN]]
    <3>1. /\ NoAccount \in AccountRecords
          /\ [status |-> "active", roles |-> {"super_admin"}, mustChange |-> FALSE]
               \in AccountRecords
      BY DEF AccountRecords, NoAccount, Roles
    <3> QED BY <3>1 DEF AccountsInit, AccountRecords
  <2>2. grants \in [Roles -> SUBSET Keys]
    BY DEF AccountsInit, SeededGrants
  <2>3. 0 \in 0..MaxMutations
    BY AccountsAssumption
  <2> QED BY <2>1, <2>2, <2>3 DEF AccountsInit, AccountsTypeOK, NoMutation, Roles
<1>2. SessionInv
  BY DEF AccountsInit, SessionInv, NoMutation
<1>3. MutationInv
  BY DEF AccountsInit, MutationInv, MutationRecords, NoMutation, UnderLock, Roles
<1>4. DecidedInv
  BY DEF AccountsInit, DecidedInv, NoMutation, Decided
<1>5. LeadInv
  BY <1>0 DEF AccountsInit, LeadInv, ActiveSupers, Supers, Active, SeededGrants, Ranked, Roles, Keys
<1> QED BY <1>1, <1>2, <1>3, <1>4, <1>5 DEF AccountsInv

\* What a step may do beside the requests: it moves its own sign-in, and a
\* session it adds is that of an active user whose row nobody is writing.
SessionStep(s) ==
  /\ signIn[s].pc # "none"
  /\ \E pc \in {"verified", "opened", "in", "changing", "rotated", "ended"} : Place(s, pc)
  /\ \/ account' = account
     \/ account' = [account EXCEPT ![Actor(s)].mustChange = FALSE]
  /\ rows' \subseteq rows \cup {s}
  /\ s \in rows' /\ s \notin rows => Active(Actor(s)) /\ ~RowLocked(Actor(s))
  /\ UNCHANGED <<grants, mutation, privilegeLock, permissionLock, mutations>>

LEMMA SessionStepKeeps ==
  ASSUME AccountsInv, NEW s \in Sessions, SessionStep(s)
  PROVE  AccountsInv'
<1> USE DEF AccountsInv
<1>1. \A u \in Staff : /\ account'[u].status = account[u].status
                       /\ account'[u].roles = account[u].roles
                       /\ account[u] = NoAccount => account'[u] = NoAccount
  <2> SUFFICES ASSUME NEW u \in Staff
               PROVE  /\ account'[u].status = account[u].status
                      /\ account'[u].roles = account[u].roles
                      /\ account[u] = NoAccount => account'[u] = NoAccount
    OBVIOUS
  <2>1. account[u] \in AccountRecords /\ account \in [Staff -> AccountRecords]
    BY DEF AccountsTypeOK, AccountRecords
  <2>2. \/ account'[u] = account[u]
        \/ account'[u] = [account[u] EXCEPT !.mustChange = FALSE]
    BY <2>1 DEF SessionStep
  <2>3. account[u] = NoAccount => [account[u] EXCEPT !.mustChange = FALSE] = NoAccount
    <3> DEFINE kept == [account[u] EXCEPT !.mustChange = FALSE]
    <3>1. /\ kept \in AccountRecords /\ kept.status = account[u].status
          /\ kept.roles = account[u].roles /\ kept.mustChange = FALSE
      BY <2>1 DEF AccountRecords
    <3>2. /\ NoAccount \in AccountRecords /\ NoAccount.status = "absent"
          /\ NoAccount.roles = {} /\ NoAccount.mustChange = FALSE
      BY DEF NoAccount, AccountRecords, Roles
    <3> HIDE DEF kept
    <3>3. \A r, q \in AccountRecords :
            r.status = q.status /\ r.roles = q.roles /\ r.mustChange = q.mustChange => r = q
      BY DEF AccountRecords
    <3>4. account[u] = NoAccount => kept = NoAccount
      BY <3>1, <3>2, <3>3
    <3> QED BY <3>4 DEF kept
  <2> QED BY <2>1, <2>2, <2>3 DEF AccountRecords
<1>2. PICK pc \in {"verified", "opened", "in", "changing", "rotated", "ended"} :
        signIn' = [signIn EXCEPT ![s].pc = pc]
  BY DEF SessionStep, Place
<1>3. \A t \in Sessions : /\ signIn'[t].user = signIn[t].user
                          /\ signIn[t].pc # "none" <=> signIn'[t].pc # "none"
  BY <1>2 DEF SessionStep, AccountsTypeOK
<1>4. ActiveSupers' = ActiveSupers
  BY <1>1 DEF ActiveSupers, Supers, Active
<1>5. AccountsTypeOK'
  <2>1. account' \in [Staff -> [status : {"absent", "active", "disabled"}, roles : SUBSET Roles,
                                mustChange : BOOLEAN]]
    <3>1. account \in [Staff -> [status : {"absent", "active", "disabled"}, roles : SUBSET Roles,
                                 mustChange : BOOLEAN]]
      BY DEF AccountsTypeOK
    <3>2. \/ account' = account
          \/ account' = [account EXCEPT ![Actor(s)].mustChange = FALSE]
      BY DEF SessionStep
    <3>3. CASE account' = account
      BY <3>1, <3>3
    <3>4. CASE account' = [account EXCEPT ![Actor(s)].mustChange = FALSE]
      BY <3>1, <3>4
    <3> QED BY <3>2, <3>3, <3>4
  <2>2. signIn' \in [Sessions -> [pc : {"none", "verified", "opened", "in", "changing", "rotated",
                                        "ended"}, user : Staff \cup {NoStaff}]]
    BY <1>2 DEF AccountsTypeOK
  <2> QED BY <2>1, <2>2 DEF SessionStep, AccountsTypeOK
<1>6. SessionInv'
  <2>1. \A t \in rows' : t \in Sessions /\ signIn[t].pc # "none" /\ Active(Actor(t))
    BY DEF SessionStep, SessionInv, AccountsTypeOK
  <2>2. \A t \in rows' : Active(Actor(t))'
    BY <1>1, <1>3, <2>1 DEF Active, Actor, SessionInv
  <2> QED BY <1>3, <2>1, <2>2 DEF SessionStep, SessionInv
<1>7. MutationInv'
  BY DEF SessionStep, MutationInv
<1>8. DecidedInv'
  <2>1. ASSUME NEW r \in Sessions, mutation[r].pc = "written", mutation[r].op = "disable",
               NEW t \in rows', signIn'[t].user = mutation[r].target
        PROVE  t \in mutation[r].doomed
    <3>1. t \in Sessions /\ Actor(t) = mutation[r].target
      BY <1>3, <2>1 DEF SessionStep, AccountsTypeOK, Actor
    <3>2. t \in rows
      BY <2>1, <3>1 DEF SessionStep, RowLocked
    <3> QED BY <2>1, <3>1, <3>2 DEF DecidedInv
  <2>2. UNCHANGED mutation
    BY DEF SessionStep
  <2> QED BY <1>4, <2>1, <2>2 DEF DecidedInv, Spares, Actor
<1>9. LeadInv'
  BY <1>1, <1>4 DEF SessionStep, LeadInv
<1> QED BY <1>5, <1>6, <1>7, <1>8, <1>9

\* The sign-ins, the password changes and the sign-outs are such steps; the
\* trigger looks at the account and waits for its row.
LEMMA SignInKeeps ==
  ASSUME AccountsInv, NEW s \in Sessions, SignInSteps(s)
  PROVE  AccountsInv'
<1> USE DEF AccountsInv
<1>1. ASSUME NEW u \in Staff, Verify(s, u) PROVE AccountsInv'
  <2>1. /\ signIn[s].pc = "none" /\ signIn' = [signIn EXCEPT ![s] = [pc |-> "verified", user |-> u]]
        /\ UNCHANGED <<account, grants, rows, mutation, privilegeLock, permissionLock, mutations>>
    BY <1>1 DEF Verify
  <2>2. /\ s \notin rows
        /\ \A t \in Sessions \ {s} : signIn'[t] = signIn[t]
        /\ signIn'[s].user = u /\ signIn'[s].pc = "verified"
    BY <2>1 DEF SessionInv, AccountsTypeOK
  <2>3. AccountsTypeOK'
    BY <2>1 DEF AccountsTypeOK
  <2>4. SessionInv'
    BY <2>1, <2>2 DEF SessionInv, AccountsTypeOK, Active, Actor
  <2>5. MutationInv' /\ LeadInv'
    BY <2>1 DEF MutationInv, LeadInv, ActiveSupers, Supers, Active
  <2>6. ActiveSupers' = ActiveSupers
    BY <2>1 DEF ActiveSupers, Supers, Active
  <2>7. \A t \in rows : signIn'[t] = signIn[t]
    BY <2>2 DEF AccountsTypeOK
  <2>8. DecidedInv'
    BY <2>1, <2>6, <2>7 DEF DecidedInv, Spares, Actor
  <2> QED BY <2>3, <2>4, <2>5, <2>8
<1>2. CASE OpenSession(s)
  BY <1>2, SessionStepKeeps DEF OpenSession, SessionStep
<1>3. CASE Complete(s)
  BY <1>3, SessionStepKeeps DEF Complete, SessionStep
<1>4. CASE Logout(s)
  BY <1>4, SessionStepKeeps DEF Logout, InBrowser, SessionStep
<1>5. CASE ChangePassword(s)
  BY <1>5, SessionStepKeeps DEF ChangePassword, InBrowser, SessionStep
<1>6. CASE RotateSession(s)
  BY <1>6, SessionStepKeeps DEF RotateSession, OthersOf, SessionStep
<1>7. CASE FinishPasswordChange(s)
  BY <1>7, SessionStepKeeps DEF FinishPasswordChange, OthersOf, SessionStep
<1> QED BY <1>1, <1>2, <1>3, <1>4, <1>5, <1>6, <1>7 DEF SignInSteps

\* A request that only moves leaves the accounts and the sessions alone.
Standing == UNCHANGED <<account, grants, rows, signIn>>

LEMMA StandingKeeps ==
  ASSUME AccountsInv, Standing
  PROVE  LeadInv' /\ ActiveSupers' = ActiveSupers
BY DEF AccountsInv, Standing, LeadInv, ActiveSupers, Supers, Active

\* A request in the browser of s goes on as q, or is over.
LEMMA MovingKeeps ==
  ASSUME AccountsInv, NEW s \in Sessions, Standing,
         NEW q \in MutationRecords, mutation' = [mutation EXCEPT ![s] = q],
         mutations' \in 0..MaxMutations,
         {privilegeLock', permissionLock'} \subseteq Sessions \cup {NoSession},
         q.pc # "none" => q.op # "none" /\ q.target \in Staff /\ signIn[s].pc # "none",
         q.pc \in UnderLock => IF q.op = "grant" THEN permissionLock' = s ELSE privilegeLock' = s,
         \A r \in Sessions \ {s} :
           mutation[r].pc \in UnderLock =>
             IF mutation[r].op = "grant" THEN permissionLock' = r ELSE privilegeLock' = r,
         q.pc \in Decided /\ q.op # "grant" => \E v \in ActiveSupers : Spares(q, v),
         q.pc \in Decided /\ q.op = "grant" /\ q.role = "super_admin" => "admin:roles" \in q.keys,
         q.pc = "written" /\ q.op = "disable" =>
           \A t \in rows : Actor(t) = q.target => t \in q.doomed
  PROVE  AccountsInv'
<1> USE DEF AccountsInv
<1>1. \A r \in Sessions : mutation'[r] = IF r = s THEN q ELSE mutation[r]
  BY DEF MutationInv
<1>2. MutationInv'
  BY <1>1 DEF MutationInv
<1>3. \A r \in Sessions : /\ mutation'[r].target \in Staff \cup {NoStaff}
                          /\ mutation'[r].role \in Roles /\ mutation'[r].doomed \subseteq Sessions
  BY <1>1 DEF MutationInv, MutationRecords
<1>4. AccountsTypeOK'
  BY <1>3 DEF AccountsTypeOK, Standing
<1>5. SessionInv'
  BY <1>1 DEF SessionInv, Standing, Active, Actor
<1>6. ActiveSupers' = ActiveSupers /\ LeadInv'
  BY StandingKeeps
<1>7. rows' = rows /\ \A t : Actor(t)' = Actor(t)
  BY DEF Standing, Actor
<1>8. DecidedInv'
  <2>1. ASSUME NEW r \in Sessions
        PROVE  LET p == mutation'[r] IN
               /\ p.pc \in Decided /\ p.op # "grant" => \E v \in ActiveSupers : Spares(p, v)
               /\ p.pc \in Decided /\ p.op = "grant" /\ p.role = "super_admin" =>
                    "admin:roles" \in p.keys
               /\ p.pc = "written" /\ p.op = "disable" =>
                    \A t \in rows : Actor(t) = p.target => t \in p.doomed
    <3>1. CASE r = s
      BY <1>1, <3>1
    <3>2. CASE r # s
      BY <1>1, <3>2 DEF DecidedInv
    <3> QED BY <3>1, <3>2
  <2> QED BY <1>6, <1>7, <2>1 DEF DecidedInv, Spares
<1> QED BY <1>2, <1>4, <1>5, <1>6, <1>8

\* A request that ends keeps the locks of the others.
LEMMA EndingKeeps ==
  ASSUME AccountsInv, NEW s \in Sessions, Standing, UNCHANGED mutations,
         mutation' = [mutation EXCEPT ![s] = NoMutation], Unlock(s)
  PROVE  AccountsInv'
<1>1. NoMutation \in MutationRecords /\ NoMutation.pc = "none"
  BY DEF MutationRecords, NoMutation, Roles
<1>2. NoMutation.pc \notin UnderLock /\ NoMutation.pc \notin Decided
  BY DEF NoMutation, UnderLock, Decided
<1>3. {privilegeLock', permissionLock'} \subseteq Sessions \cup {NoSession}
  BY DEF Unlock, AccountsInv, AccountsTypeOK
<1>4. \A r \in Sessions \ {s} :
        mutation[r].pc \in UnderLock =>
          IF mutation[r].op = "grant" THEN permissionLock' = r ELSE privilegeLock' = r
  BY DEF Unlock, AccountsInv, MutationInv
<1>5. mutations' \in 0..MaxMutations
  BY DEF AccountsInv, AccountsTypeOK
<1>6. NoMutation.pc # "written"
  BY DEF NoMutation
<1> QED BY <1>1, <1>2, <1>3, <1>4, <1>5, <1>6, MovingKeeps

\* A set with more than one member has another one than any of them.
LEMMA AnotherOne ==
  ASSUME NEW S, NEW x \in S, ~(Cardinality(S) <= 1)
  PROVE  \E y \in S : y # x
<1> SUFFICES ASSUME \A y \in S : y = x PROVE FALSE
  OBVIOUS
<1>1. S = {x}
  OBVIOUS
<1> QED BY <1>1, FS_Singleton

\* The reads of the transaction find a super administrator that it spares.
LEMMA CheckSpares ==
  ASSUME AccountsInv, NEW q \in MutationRecords, NEW u \in Staff, q.op \notin {"grant", "none"},
         q.target \in Staff, MayMutate(q, u)
  PROVE  \E v \in ActiveSupers : Spares(q, v)
<1>1. PICK v \in ActiveSupers : TRUE
  <2>1. account[u].status = "active"
    BY DEF MayMutate, Administers, Active
  <2>2. account[u] # NoAccount
    BY <2>1 DEF NoAccount
  <2> QED BY <2>2 DEF AccountsInv, LeadInv
<1>2. v \in Supers /\ account[v].status = "active" /\ "super_admin" \in account[v].roles
  BY DEF ActiveSupers, Supers, Active
<1>3. ASSUME ~LastSuperAdmin PROVE \E w \in ActiveSupers : Spares(q, w)
  <2>1. PICK w \in ActiveSupers : w # v
    BY <1>3, AnotherOne DEF LastSuperAdmin
  <2> QED BY <2>1 DEF Spares
<1>4. ASSUME v = q.target, LastSuperAdmin PROVE Spares(q, v)
  <2>1. LosesSuper(q)
    BY <1>2, <1>4 DEF LosesSuper
  <2>2. CASE q.op = "create"
    BY <1>2, <1>4, <2>2 DEF MayMutate, Applies, CreateUser, NoAccount
  <2>3. CASE q.op = "set"
    BY <2>1, <2>3 DEF MayMutate, Applies, SetRole, Spares
  <2>4. CASE q.op = "remove"
    BY <1>2, <1>4, <2>1, <2>4 DEF MayMutate, Applies, RemoveRole, Spares, Active
  <2>5. CASE q.op = "disable"
    BY <2>1, <2>5 DEF MayMutate, Applies, DisableUser
  <2>6. CASE q.op \in {"add", "reactivate", "password"}
    BY <2>6 DEF Spares
  <2> QED BY <2>2, <2>3, <2>4, <2>5, <2>6 DEF MutationRecords, UserOps, RoleOps
<1> QED BY <1>3, <1>4 DEF Spares

\* The steps of a request up to its commit.
LEMMA RequestKeeps ==
  ASSUME AccountsInv, NEW s \in Sessions,
         \/ \E target \in Staff, role \in Roles, keys \in SUBSET Keys,
               op \in UserOps \cup RoleOps \cup {"grant"} : Guard(s, op, target, role, keys)
         \/ Lock(s) \/ Check(s) \/ Write(s) \/ RollBack(s)
  PROVE  AccountsInv'
<1> USE DEF AccountsInv
<1>0. /\ mutation[s] \in MutationRecords
      /\ {privilegeLock, permissionLock} \subseteq Sessions \cup {NoSession}
      /\ mutations \in 0..MaxMutations
      /\ \A r \in Sessions : mutation[r].pc \in UnderLock =>
           IF mutation[r].op = "grant" THEN permissionLock = r ELSE privilegeLock = r
  BY DEF MutationInv, AccountsTypeOK
<1>1. ASSUME NEW target \in Staff, NEW role \in Roles, NEW keys \in SUBSET Keys,
             NEW op \in UserOps \cup RoleOps \cup {"grant"}, Guard(s, op, target, role, keys)
      PROVE  AccountsInv'
  <2> DEFINE q == [pc |-> "guarded", op |-> op, target |-> target, role |-> role, keys |-> keys,
                   doomed |-> {}]
  <2>1. q \in MutationRecords /\ q.pc = "guarded" /\ q.op # "none" /\ q.target \in Staff
    BY DEF MutationRecords, UserOps, RoleOps
  <2>2. /\ mutation' = [mutation EXCEPT ![s] = q] /\ Standing /\ signIn[s].pc # "none"
        /\ UNCHANGED <<privilegeLock, permissionLock>>
    BY <1>1 DEF Guard, Standing, PassesGuard, InBrowser
  <2>3. mutations' \in 0..MaxMutations
    BY <1>0, <1>1, AccountsAssumption DEF Guard
  <2> HIDE DEF q
  <2>4. q.pc \notin UnderLock /\ q.pc \notin Decided /\ q.pc # "written"
    BY <2>1 DEF UnderLock, Decided
  <2> QED BY <1>0, <2>1, <2>2, <2>3, <2>4, MovingKeeps
<1>2. CASE Lock(s)
  <2> DEFINE q == [mutation[s] EXCEPT !.pc = "locked"]
  <2>1. /\ q \in MutationRecords /\ q.pc = "locked" /\ q.op = mutation[s].op
        /\ q.target = mutation[s].target
    BY <1>0 DEF MutationRecords
  <2>2. mutation' = [mutation EXCEPT ![s] = q]
    BY <1>0, <1>2 DEF Lock, MutationInv
  <2>3. /\ Standing /\ mutation[s].pc = "guarded" /\ UNCHANGED mutations
        /\ IF q.op = "grant"
           THEN permissionLock = NoSession /\ permissionLock' = s /\ UNCHANGED privilegeLock
           ELSE privilegeLock = NoSession /\ privilegeLock' = s /\ UNCHANGED permissionLock
    BY <1>2, <2>1 DEF Lock, Standing
  <2> HIDE DEF q
  <2>4. q.op # "none" /\ q.target \in Staff /\ signIn[s].pc # "none"
    BY <2>1, <2>3 DEF MutationInv, SessionInv
  <2>5. \A r \in Sessions \ {s} :
          mutation[r].pc \in UnderLock =>
            IF mutation[r].op = "grant" THEN permissionLock' = r ELSE privilegeLock' = r
    BY <1>0, <2>3, AccountsAssumption
  <2>6. {privilegeLock', permissionLock'} \subseteq Sessions \cup {NoSession}
    BY <1>0, <2>3
  <2>7. IF q.op = "grant" THEN permissionLock' = s ELSE privilegeLock' = s
    BY <2>3
  <2>8. q.pc \notin Decided /\ q.pc # "written"
    BY <2>1 DEF Decided
  <2> QED BY <1>0, <2>1, <2>2, <2>3, <2>4, <2>5, <2>6, <2>7, <2>8, MovingKeeps
<1>3. CASE Check(s)
  <2>1. mutation[s].pc = "locked" /\ Standing /\ UNCHANGED mutations
    BY <1>3 DEF Check, Standing
  <2>2. /\ mutation[s].op # "none" /\ mutation[s].target \in Staff /\ signIn[s].pc # "none"
        /\ signIn[s].user \in Staff
    BY <2>1 DEF MutationInv, SessionInv
  <2>3. CASE mutation' = [mutation EXCEPT ![s] = NoMutation] /\ Unlock(s)
    BY <2>1, <2>3, EndingKeeps
  <2>4. CASE /\ mutation' = [mutation EXCEPT ![s].pc = "checked"]
             /\ UNCHANGED <<privilegeLock, permissionLock>>
             /\ IF mutation[s].op = "grant" THEN MayGrant(mutation[s], Actor(s))
                                            ELSE MayMutate(mutation[s], Actor(s))
    <3> DEFINE q == [mutation[s] EXCEPT !.pc = "checked"]
    <3>1. /\ q \in MutationRecords /\ q.pc = "checked" /\ q.op = mutation[s].op
          /\ q.target = mutation[s].target /\ q.role = mutation[s].role
          /\ q.keys = mutation[s].keys
      BY <1>0 DEF MutationRecords
    <3>2. mutation' = [mutation EXCEPT ![s] = q]
      BY <1>0, <2>4 DEF MutationInv
    <3> HIDE DEF q
    <3>3. q.op # "grant" => \E v \in ActiveSupers : Spares(mutation[s], v)
      BY <1>0, <2>2, <2>4, <3>1, CheckSpares DEF Actor
    <3>4. q.op # "grant" => \E v \in ActiveSupers : Spares(q, v)
      BY <3>1, <3>3 DEF Spares
    <3>5. q.op = "grant" /\ q.role = "super_admin" => "admin:roles" \in q.keys
      BY <2>4, <3>1 DEF MayGrant
    <3>6. IF q.op = "grant" THEN permissionLock' = s ELSE privilegeLock' = s
      BY <1>0, <2>1, <2>4, <3>1 DEF UnderLock
    <3>7. \A r \in Sessions : mutation[r].pc \in UnderLock =>
            IF mutation[r].op = "grant" THEN permissionLock' = r ELSE privilegeLock' = r
      BY <1>0, <2>4
    <3>8. q.pc # "written" /\ {privilegeLock', permissionLock'} \subseteq Sessions \cup {NoSession}
          /\ mutations' \in 0..MaxMutations
      BY <1>0, <2>1, <2>4, <3>1
    <3> QED BY <2>1, <2>2, <3>1, <3>2, <3>4, <3>5, <3>6, <3>7, <3>8, MovingKeeps
  <2> QED BY <1>3, <2>3, <2>4 DEF Check
<1>4. CASE Write(s)
  <2> DEFINE doomed == IF mutation[s].op \in RoleOps \cup {"disable", "password"}
                       THEN {t \in rows : Actor(t) = mutation[s].target} ELSE {}
             q == [mutation[s] EXCEPT !.pc = "written", !.doomed = doomed]
  <2>1. doomed \in SUBSET Sessions
    BY DEF AccountsTypeOK
  <2>2. mutation[s].op = "disable" => \A t \in rows : Actor(t) = mutation[s].target => t \in doomed
    OBVIOUS
  <2>3. mutation' = [mutation EXCEPT ![s] = q]
    BY <1>0, <1>4 DEF Write, MutationInv
  <2> HIDE DEF doomed
  <2>4. /\ q \in MutationRecords /\ q.pc = "written" /\ q.op = mutation[s].op
        /\ q.target = mutation[s].target /\ q.role = mutation[s].role
        /\ q.keys = mutation[s].keys /\ q.doomed = doomed
    BY <1>0, <2>1 DEF MutationRecords
  <2> HIDE DEF q
  <2>5. /\ mutation[s].pc = "checked" /\ Standing
        /\ UNCHANGED <<privilegeLock, permissionLock, mutations>>
    BY <1>4 DEF Write, Standing
  <2>6. /\ q.op # "none" /\ q.target \in Staff /\ signIn[s].pc # "none"
        /\ q.op # "grant" => \E v \in ActiveSupers : Spares(mutation[s], v)
        /\ q.op = "grant" /\ q.role = "super_admin" => "admin:roles" \in q.keys
    BY <2>4, <2>5 DEF MutationInv, SessionInv, DecidedInv, Decided
  <2>7. q.op # "grant" => \E v \in ActiveSupers : Spares(q, v)
    BY <2>4, <2>6 DEF Spares
  <2>8. IF q.op = "grant" THEN permissionLock' = s ELSE privilegeLock' = s
    BY <1>0, <2>4, <2>5 DEF UnderLock
  <2>9. \A r \in Sessions : mutation[r].pc \in UnderLock =>
          IF mutation[r].op = "grant" THEN permissionLock' = r ELSE privilegeLock' = r
    BY <1>0, <2>5
  <2>10. /\ q.op = "disable" => \A t \in rows : Actor(t) = q.target => t \in q.doomed
         /\ {privilegeLock', permissionLock'} \subseteq Sessions \cup {NoSession}
         /\ mutations' \in 0..MaxMutations
    BY <1>0, <2>2, <2>4, <2>5
  <2> QED BY <2>3, <2>4, <2>5, <2>6, <2>7, <2>8, <2>9, <2>10, MovingKeeps
<1>5. CASE RollBack(s)
  BY <1>5, EndingKeeps DEF RollBack, Standing
<1> QED BY <1>1, <1>2, <1>3, <1>4, <1>5

\* What a committed request makes of its target.
LEMMA WrittenEffect ==
  ASSUME AccountsInv, NEW q \in MutationRecords, q.target \in Staff
  PROVE  /\ Written(q) \in AccountRecords
         /\ q.op # "disable" /\ Active(q.target) => Written(q).status = "active"
         /\ \A v \in ActiveSupers : v = q.target /\ Spares(q, v) =>
              Written(q).status = "active" /\ "super_admin" \in Written(q).roles
<1> DEFINE old == account[q.target]
<1>1. old \in AccountRecords /\ q.role \in Roles
  BY DEF AccountsInv, AccountsTypeOK, AccountRecords, MutationRecords
<1>2. \A v \in ActiveSupers : v = q.target =>
        old.status = "active" /\ "super_admin" \in old.roles
  BY DEF ActiveSupers, Supers, Active
<1>3. CASE q.op = "create"
  <2>1. Written(q) = [status |-> "active", roles |-> {q.role}, mustChange |-> TRUE]
    BY <1>3 DEF Written
  <2> QED BY <1>1, <1>3, <2>1 DEF AccountRecords, Spares
<1>4. CASE q.op = "set"
  <2>1. Written(q) = [old EXCEPT !.roles = {q.role}]
    BY <1>4 DEF Written
  <2> QED BY <1>1, <1>2, <1>4, <2>1 DEF AccountRecords, Spares, Active
<1>5. CASE q.op = "add"
  <2>1. Written(q) = [old EXCEPT !.roles = old.roles \cup {q.role}]
    BY <1>5 DEF Written
  <2> QED BY <1>1, <1>2, <1>5, <2>1 DEF AccountRecords, Spares, Active
<1>6. CASE q.op = "remove"
  <2>1. Written(q) = [old EXCEPT !.roles = old.roles \ {q.role}]
    BY <1>6 DEF Written
  <2> QED BY <1>1, <1>2, <1>6, <2>1 DEF AccountRecords, Spares, Active
<1>7. CASE q.op = "disable"
  <2>1. Written(q) = [old EXCEPT !.status = "disabled"]
    BY <1>7 DEF Written
  <2> QED BY <1>1, <1>7, <2>1 DEF AccountRecords, Spares
<1>8. CASE q.op = "reactivate"
  <2>1. Written(q) = [old EXCEPT !.status = "active"]
    BY <1>8 DEF Written
  <2> QED BY <1>1, <1>2, <1>8, <2>1 DEF AccountRecords
<1>9. CASE q.op \notin {"create", "set", "add", "remove", "disable", "reactivate"}
  <2>1. Written(q) = [old EXCEPT !.mustChange = TRUE]
    BY <1>9 DEF Written
  <2> QED BY <1>1, <1>2, <2>1 DEF AccountRecords, Active
<1> QED BY <1>3, <1>4, <1>5, <1>6, <1>7, <1>8, <1>9

\* The commit of a grant: the role of the super administrator keeps its baseline.
LEMMA GrantKeeps ==
  ASSUME AccountsInv, NEW s \in Sessions, Commit(s), mutation[s].op = "grant"
  PROVE  AccountsInv'
<1> USE DEF AccountsInv
<1>1. PICK q \in MutationRecords : q = mutation[s]
  BY DEF MutationInv
<1>2. /\ q.pc = "written" /\ q.op = "grant" /\ grants' = [grants EXCEPT ![q.role] = q.keys]
      /\ UNCHANGED <<account, rows, signIn, mutations>>
      /\ mutation' = [mutation EXCEPT ![s] = NoMutation] /\ Unlock(s)
  BY <1>1 DEF Commit
<1>3. q.role \in Roles /\ q.keys \in SUBSET Keys
  BY DEF MutationRecords
<1>4. grants' \in [Roles -> SUBSET Keys]
  BY <1>2, <1>3 DEF AccountsTypeOK
<1>5. "admin:roles" \in grants'["super_admin"]
  <2>1. q.role = "super_admin" => "admin:roles" \in q.keys
    BY <1>1, <1>2 DEF DecidedInv, Decided
  <2>2. "super_admin" \in Roles
    BY DEF Roles
  <2> QED BY <1>2, <1>3, <2>1, <2>2 DEF LeadInv, AccountsTypeOK
<1>6. ActiveSupers' = ActiveSupers
  BY <1>2 DEF ActiveSupers, Supers, Active
<1>7. \A r \in Sessions : mutation'[r] = IF r = s THEN NoMutation ELSE mutation[r]
  BY <1>2 DEF MutationInv
<1>8. /\ NoMutation \in MutationRecords /\ NoMutation.pc = "none"
      /\ NoMutation.pc \notin UnderLock /\ NoMutation.pc \notin Decided
  BY DEF NoMutation, MutationRecords, UnderLock, Decided, Roles
<1>9. AccountsTypeOK'
  <2>1. {privilegeLock', permissionLock'} \subseteq Sessions \cup {NoSession}
    BY <1>2 DEF Unlock, AccountsTypeOK
  <2>2. \A r \in Sessions : /\ mutation'[r].target \in Staff \cup {NoStaff}
                            /\ mutation'[r].role \in Roles /\ mutation'[r].doomed \subseteq Sessions
    BY <1>7, <1>8 DEF MutationInv, MutationRecords
  <2> QED BY <1>2, <1>4, <2>1, <2>2 DEF AccountsTypeOK
<1>10. SessionInv'
  BY <1>2, <1>7, <1>8 DEF SessionInv, Active, Actor
<1>11. MutationInv'
  BY <1>2, <1>7, <1>8 DEF MutationInv, Unlock
<1>12. DecidedInv'
  <2>1. rows' = rows /\ \A t : Actor(t)' = Actor(t)
    BY <1>2 DEF Actor
  <2> QED BY <1>6, <1>7, <1>8, <2>1 DEF DecidedInv, Spares, Decided
<1>13. LeadInv'
  BY <1>2, <1>5, <1>6 DEF LeadInv
<1> QED BY <1>9, <1>10, <1>11, <1>12, <1>13

\* The commit of any other request: nobody else has the lock, so that the
\* accounts are those it was decided on.
LEMMA CommitKeeps ==
  ASSUME AccountsInv, NEW s \in Sessions, Commit(s), mutation[s].op # "grant"
  PROVE  AccountsInv'
<1> USE DEF AccountsInv
<1>1. PICK q \in MutationRecords : q = mutation[s]
  BY DEF MutationInv
<1>2. /\ q.pc = "written" /\ q.op # "grant"
      /\ account' = [account EXCEPT ![q.target] = Written(q)]
      /\ rows' = rows \ q.doomed /\ UNCHANGED <<grants, signIn, mutations>>
      /\ mutation' = [mutation EXCEPT ![s] = NoMutation] /\ Unlock(s)
  BY <1>1 DEF Commit
<1>3. q.target \in Staff /\ privilegeLock = s
  BY <1>1, <1>2 DEF MutationInv, UnderLock
<1>4. PICK new \in AccountRecords :
        /\ new = Written(q)
        /\ q.op # "disable" /\ Active(q.target) => new.status = "active"
        /\ \A v \in ActiveSupers : v = q.target /\ Spares(q, v) =>
             new.status = "active" /\ "super_admin" \in new.roles
  BY <1>3, WrittenEffect
<1>5. \A u \in Staff : account'[u] = IF u = q.target THEN new ELSE account[u]
  BY <1>2, <1>4 DEF AccountsTypeOK
<1>6. \A r \in Sessions : mutation'[r] = IF r = s THEN NoMutation ELSE mutation[r]
  BY <1>2 DEF MutationInv
<1>7. /\ NoMutation \in MutationRecords /\ NoMutation.pc = "none"
      /\ NoMutation.pc \notin UnderLock /\ NoMutation.pc \notin Decided
      /\ NoMutation.pc # "written"
  BY DEF NoMutation, MutationRecords, UnderLock, Decided, Roles
<1>8. AccountsTypeOK'
  <2>1. account' \in [Staff -> AccountRecords]
    BY <1>2, <1>4 DEF AccountsTypeOK, AccountRecords
  <2>2. {privilegeLock', permissionLock'} \subseteq Sessions \cup {NoSession}
    BY <1>2 DEF Unlock, AccountsTypeOK
  <2>3. \A r \in Sessions : /\ mutation'[r].target \in Staff \cup {NoStaff}
                            /\ mutation'[r].role \in Roles /\ mutation'[r].doomed \subseteq Sessions
    BY <1>6, <1>7 DEF MutationInv, MutationRecords
  <2> QED BY <1>2, <2>1, <2>2, <2>3 DEF AccountsTypeOK, AccountRecords
<1>9. SessionInv'
  <2>1. ASSUME NEW t \in rows' PROVE signIn[t].pc # "none" /\ Active(Actor(t))'
    <3>1. t \in rows /\ t \in Sessions /\ t \notin q.doomed
      BY <1>2 DEF AccountsTypeOK
    <3>2. signIn[t].pc # "none" /\ account[Actor(t)].status = "active" /\ Actor(t) \in Staff
      BY <3>1 DEF SessionInv, Active, Actor
    <3>3. Actor(t) = q.target => q.op # "disable"
      BY <1>1, <1>2, <3>1 DEF DecidedInv
    <3>4. account'[Actor(t)].status = "active"
      BY <1>4, <1>5, <3>2, <3>3 DEF Active
    <3> QED BY <1>2, <3>2, <3>4 DEF Active, Actor
  <2> QED BY <1>2, <1>6, <1>7, <2>1 DEF SessionInv
<1>10. MutationInv'
  BY <1>2, <1>6, <1>7 DEF MutationInv, Unlock
<1>11. \A r \in Sessions \ {s} : mutation[r].pc \in UnderLock => mutation[r].op = "grant"
  BY <1>3 DEF MutationInv
<1>12. DecidedInv'
  <2>1. \A r \in Sessions : mutation'[r].pc \in Decided =>
          r # s /\ mutation'[r] = mutation[r] /\ mutation[r].op = "grant"
    BY <1>6, <1>7, <1>11 DEF Decided, UnderLock
  <2>2. \A r \in Sessions : mutation'[r].pc = "written" => mutation'[r].pc \in Decided
    BY DEF Decided
  <2>3. \A r \in Sessions : mutation'[r].pc \in Decided /\ mutation'[r].role = "super_admin" =>
          "admin:roles" \in mutation'[r].keys
    BY <2>1 DEF DecidedInv
  <2> QED BY <2>1, <2>2, <2>3 DEF DecidedInv
<1>13. LeadInv'
  <2>1. PICK v \in ActiveSupers : Spares(q, v)
    BY <1>1, <1>2 DEF DecidedInv, Decided
  <2>2. v \in Staff /\ account[v].status = "active" /\ "super_admin" \in account[v].roles
    BY DEF ActiveSupers, Supers, Active
  <2>3. account'[v].status = "active" /\ "super_admin" \in account'[v].roles
    BY <1>4, <1>5, <2>1, <2>2
  <2>4. v \in ActiveSupers'
    BY <2>2, <2>3 DEF ActiveSupers, Supers, Active
  <2> QED BY <1>2, <2>4 DEF LeadInv
<1> QED BY <1>8, <1>9, <1>10, <1>12, <1>13

\* The revocation of sessions only deletes; the two programs run at a terminal
\* only add a super administrator and the seeded grants.
LEMMA OthersKeep ==
  ASSUME AccountsInv,
         \/ \E s \in Sessions, target \in Staff : RevokeSessions(s, target)
         \/ \E u \in Staff : Bootstrap(u)
         \/ Seed
         \/ UNCHANGED accountVars
  PROVE  AccountsInv'
<1> USE DEF AccountsInv
<1>1. CASE \E s \in Sessions, target \in Staff : RevokeSessions(s, target)
  <2>1. /\ rows' \subseteq rows
        /\ UNCHANGED <<account, grants, signIn, mutation, privilegeLock, permissionLock, mutations>>
    BY <1>1 DEF RevokeSessions
  <2>2. ActiveSupers' = ActiveSupers
    BY <2>1 DEF ActiveSupers, Supers, Active
  <2>3. AccountsTypeOK' /\ MutationInv' /\ LeadInv'
    BY <2>1, <2>2 DEF AccountsTypeOK, MutationInv, LeadInv
  <2>4. SessionInv' /\ DecidedInv'
    BY <2>1, <2>2 DEF SessionInv, DecidedInv, Spares, Active, Actor
  <2> QED BY <2>3, <2>4
<1>2. ASSUME NEW u \in Staff, Bootstrap(u) PROVE AccountsInv'
  <2>1. /\ privilegeLock = NoSession /\ account[u] = NoAccount
        /\ account' = [account EXCEPT ![u] = [status |-> "active", roles |-> {"super_admin"},
                                              mustChange |-> TRUE]]
        /\ UNCHANGED <<grants, rows, signIn, mutation, privilegeLock, permissionLock, mutations>>
    BY <1>2 DEF Bootstrap
  <2>2. u \in ActiveSupers'
    BY <2>1 DEF ActiveSupers, Supers, Active, AccountsTypeOK
  <2>3. AccountsTypeOK'
    <3>1. account \in [Staff -> AccountRecords]
      BY DEF AccountsTypeOK, AccountRecords
    <3>2. [status |-> "active", roles |-> {"super_admin"}, mustChange |-> TRUE] \in AccountRecords
      BY DEF AccountRecords, Roles
    <3>3. account' \in [Staff -> AccountRecords]
      BY <2>1, <3>1, <3>2
    <3> QED BY <2>1, <3>3 DEF AccountsTypeOK, AccountRecords
  <2>4. SessionInv'
    <3>1. \A v \in Staff : account[v].status = "active" => account'[v].status = "active"
      BY <2>1 DEF AccountsTypeOK
    <3>2. \A t \in rows : t \in Sessions /\ signIn[t].user \in Staff
      BY DEF SessionInv, AccountsTypeOK
    <3> QED BY <2>1, <3>1, <3>2 DEF SessionInv, Active, Actor
  <2>5. MutationInv' /\ LeadInv'
    BY <2>1, <2>2 DEF MutationInv, LeadInv
  <2>6. \A r \in Sessions : mutation[r].pc \in Decided => mutation[r].op = "grant"
    BY <2>1, AccountsAssumption DEF MutationInv, Decided, UnderLock
  <2>7. DecidedInv'
    <3>1. \A r \in Sessions : mutation[r].pc = "written" => mutation[r].pc \in Decided
      BY DEF Decided
    <3>2. mutation' = mutation
      BY <2>1
    <3>3. \A r \in Sessions : mutation[r].pc \in Decided /\ mutation[r].role = "super_admin" =>
            "admin:roles" \in mutation[r].keys
      BY <2>6 DEF DecidedInv
    <3> QED BY <2>6, <3>1, <3>2, <3>3 DEF DecidedInv
  <2> QED BY <2>3, <2>4, <2>5, <2>7
<1>3. CASE Seed
  <2>1. /\ grants' = SeededGrants
        /\ UNCHANGED <<account, rows, signIn, mutation, privilegeLock, permissionLock, mutations>>
    BY <1>3 DEF Seed
  <2>2. SeededGrants \in [Roles -> SUBSET Keys] /\ "admin:roles" \in SeededGrants["super_admin"]
    BY DEF SeededGrants, Roles, Ranked, Keys
  <2>3. ActiveSupers' = ActiveSupers
    BY <2>1 DEF ActiveSupers, Supers, Active
  <2>4. AccountsTypeOK' /\ MutationInv' /\ LeadInv'
    BY <2>1, <2>2, <2>3 DEF AccountsTypeOK, MutationInv, LeadInv
  <2>5. SessionInv' /\ DecidedInv'
    BY <2>1, <2>3 DEF SessionInv, DecidedInv, Spares, Active, Actor
  <2> QED BY <2>4, <2>5
<1>4. CASE UNCHANGED accountVars
  <2>1. ActiveSupers' = ActiveSupers
    BY <1>4 DEF accountVars, ActiveSupers, Supers, Active
  <2>2. AccountsTypeOK' /\ MutationInv' /\ LeadInv'
    BY <1>4, <2>1 DEF accountVars, AccountsTypeOK, MutationInv, LeadInv
  <2>3. SessionInv' /\ DecidedInv'
    BY <1>4, <2>1 DEF accountVars, SessionInv, DecidedInv, Spares, Active, Actor
  <2> QED BY <2>2, <2>3
<1> QED BY <1>1, <1>2, <1>3, <1>4

\* Every step of the accounts keeps the invariant.
LEMMA AccountsKept == AccountsInv /\ [AccountsNext]_accountVars => AccountsInv'
<1> SUFFICES ASSUME AccountsInv, [AccountsNext]_accountVars PROVE AccountsInv'
  OBVIOUS
<1>1. ASSUME NEW s \in Sessions, Mutate(s) PROVE AccountsInv'
  <2>1. CASE \E target \in Staff : RevokeSessions(s, target)
    BY <2>1, OthersKeep
  <2>2. ASSUME NEW role \in Ranked, NEW keys \in SUBSET Keys, Guard(s, "grant", Actor(s), role, keys)
        PROVE  AccountsInv'
    <3>1. Actor(s) \in Staff /\ role \in Roles
      BY <2>2 DEF Guard, PassesGuard, InBrowser, AccountsInv, SessionInv, Actor, Ranked, Roles
    <3> QED BY <2>2, <3>1, RequestKeeps
  <2>3. ASSUME NEW target \in Staff, NEW role \in Roles, NEW op \in RoleOps \cup {"create"},
               Guard(s, op, target, role, {})
        PROVE  AccountsInv'
    <3>1. op \in UserOps \cup RoleOps \cup {"grant"} /\ {} \in SUBSET Keys
      BY DEF UserOps, RoleOps
    <3> QED BY <2>3, <3>1, RequestKeeps
  <2>4. ASSUME NEW target \in Staff, NEW op \in {"disable", "reactivate", "password"},
               Guard(s, op, target, "employee", {})
        PROVE  AccountsInv'
    <3>1. /\ op \in UserOps \cup RoleOps \cup {"grant"} /\ {} \in SUBSET Keys
          /\ "employee" \in Roles
      BY DEF UserOps, RoleOps, Roles
    <3> QED BY <2>4, <3>1, RequestKeeps
  <2>5. CASE Lock(s) \/ Check(s) \/ Write(s) \/ RollBack(s)
    BY <2>5, RequestKeeps
  <2>6. CASE Commit(s)
    BY <2>6, GrantKeeps, CommitKeeps
  <2> QED BY <1>1, <2>1, <2>2, <2>3, <2>4, <2>5, <2>6 DEF Mutate
<1>2. CASE \E u \in Staff : Bootstrap(u)
  BY <1>2, OthersKeep
<1>3. CASE Seed
  BY <1>3, OthersKeep
<1>4. CASE UNCHANGED accountVars
  BY <1>4, OthersKeep
<1>5. ASSUME NEW s \in Sessions, SignInSteps(s) PROVE AccountsInv'
  BY <1>5, SignInKeeps
<1> QED BY <1>1, <1>2, <1>3, <1>4, <1>5 DEF AccountsNext

\* The state of the accounts has its shape.
THEOREM AccountsTypesCorrect == AccountsSpec => []AccountsTypeOK
<1>1. AccountsInv => AccountsTypeOK
  BY DEF AccountsInv
<1> QED BY <1>1, AccountsStart, AccountsKept, PTL DEF AccountsSpec

\* Whatever administrators do to each other at the same time, once there is an
\* account there is an active super administrator who can hand out permissions.
THEOREM LockOutCorrect == AccountsSpec => []NobodyIsLockedOut
<1>1. AccountsInv => NobodyIsLockedOut
  BY DEF AccountsInv, LeadInv, NobodyIsLockedOut
<1> QED BY <1>1, AccountsStart, AccountsKept, PTL DEF AccountsSpec

\* However a sign-in or a renewal overlaps the disabling of its account, no
\* session of a disabled account is left.
THEOREM SessionsCorrect == AccountsSpec => []DisabledHaveNoSession
<1>1. AccountsInv => DisabledHaveNoSession
  BY DEF AccountsInv, SessionInv, DisabledHaveNoSession
<1> QED BY <1>1, AccountsStart, AccountsKept, PTL DEF AccountsSpec
-----------------------------------------------------------------------------
(* The components behind the administration pages together                  *)

\* In the run each of the three moves as it does alone, so that what is proved
\* of it here, and of the Skill lifecycle in its own module, holds there.
THEOREM AdminUsesParts == AdminSpec => LifecycleSpec /\ AccountsSpec /\ RegistrationSpec
<1>1. AdminInit => LifecycleInit /\ AccountsInit /\ RegistrationInit
  BY DEF AdminInit
<1>2. [AdminNext]_AdminVars =>
        [LifecycleNext]_lifecycleVars /\ [AccountsNext]_accountVars /\ [RegistrationNext]_registrationVars
  BY DEF AdminNext, AdminVars
<1> QED BY <1>1, <1>2, PTL DEF AdminSpec, LifecycleSpec, AccountsSpec, RegistrationSpec

\* The state of the Skill lifecycle, the accounts and the registrations keeps its shape.
THEOREM AdminTypesCorrect == AdminSpec => []AdminTypeOK
<1>1. LifecycleTypeOK /\ AccountsTypeOK /\ RegistrationTypeOK => AdminTypeOK
  BY DEF AdminTypeOK
<1> QED BY <1>1, AdminUsesParts, LifecycleTypesCorrect, AccountsTypesCorrect,
           RegistrationTypesCorrect, PTL
====
