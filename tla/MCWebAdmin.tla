----------------------------- MODULE MCWebAdmin -----------------------------
(* The components behind the administration pages in one instance.  They    *)
(* share no variable, so that it is enough to let one of them move while    *)
(* the others are in an initial state.  The .cfg gives their sets of equal  *)
(* size the same values, so that few permutations serve all of them.        *)
EXTENDS SkillLifecycle, WorkforceAccounts, CustomerRegistration, TLC

AdminVars == <<lifecycleVars, accountVars, registrationVars>>
AdminInit == LifecycleInit /\ AccountsInit /\ RegistrationInit
EmptyLibrary == LifecycleInit /\ \A k \in Skills : library[k].state = "absent"
NoAccounts == AccountsInit /\ \A u \in Staff : account[u] = NoAccount
AdminNext ==
  \/ /\ NoAccounts /\ RegistrationInit
     /\ LifecycleNext /\ UNCHANGED <<accountVars, registrationVars>>
  \/ /\ EmptyLibrary /\ RegistrationInit
     /\ AccountsNext /\ UNCHANGED <<lifecycleVars, registrationVars>>
  \/ /\ EmptyLibrary /\ NoAccounts
     /\ RegistrationNext /\ UNCHANGED <<lifecycleVars, accountVars>>
AdminSpec == AdminInit /\ [][AdminNext]_AdminVars

AdminSymmetry == UNION {Permutations(S) : S \in {Applicants, Emails, Organizations, Reviewers}}

\* The state of every component has its shape.
AdminTypeOK == LifecycleTypeOK /\ AccountsTypeOK /\ RegistrationTypeOK
=============================================================================
