--------------------------- MODULE WorkforceAccounts ---------------------------
(***************************************************************************)
(* Staff accounts, their roles and their sessions: server/admin/users.ts,  *)
(* roles.ts and sessions.ts, the staff half of server/auth/actions.ts, the *)
(* guard of server/auth/access.ts and the database package beneath them.   *)
(*                                                                         *)
(* A mutation is a transaction of PostgreSQL at READ COMMITTED: a guard    *)
(* that reads the caller's session comes before it, then an advisory lock, *)
(* the reads that decide, the writes, the commit.  Sign-ins, password      *)
(* changes and the revocation of sessions run beside it without that lock; *)
(* a trigger on the sessions table is all that keeps them apart.           *)
(***************************************************************************)
EXTENDS Naturals, FiniteSets

CONSTANTS Staff,
          Sessions,     \* sign-ins, each with the session and the browser it makes
          NoSession, NoStaff,
          MaxMutations  \* bound: administrative requests that pass their guard

ASSUME AccountsAssumption == /\ NoSession \notin Sessions /\ NoStaff \notin Staff
                             /\ MaxMutations \in Nat

\* Every other role has the rank of employee.
Roles == {"super_admin", "admin", "employee"}
Ranked == {"super_admin", "admin"}
Keys == {"admin:users", "admin:roles"}

VARIABLES account,         \* users and user_roles
          grants,          \* role_permissions
          rows,            \* sessions: the rows of the table
          signIn,          \* each sign-in: who, and how far it or its browser is
          mutation,        \* each browser: the administrative request under way
          privilegeLock,   \* pg_advisory_xact_lock(72134879)
          permissionLock,  \* pg_advisory_xact_lock(72134878)
          mutations

accountVars == <<account, grants, rows, signIn, mutation, privilegeLock, permissionLock,
                 mutations>>

NoAccount == [status |-> "absent", roles |-> {}, mustChange |-> FALSE]
NoMutation == [pc |-> "none", op |-> "none", target |-> NoStaff, role |-> "employee",
               keys |-> {}, doomed |-> {}]
SeededGrants == [r \in Roles |-> IF r \in Ranked THEN Keys ELSE {}]

\* The platform is new, or everybody is a super administrator.
AccountsInit ==
  /\ \/ account = [u \in Staff |-> NoAccount]
     \/ account = [u \in Staff |-> [status |-> "active", roles |-> {"super_admin"},
                                     mustChange |-> FALSE]]
  /\ grants = SeededGrants
  /\ rows = {}
  /\ signIn = [s \in Sessions |-> [pc |-> "none", user |-> NoStaff]]
  /\ mutation = [s \in Sessions |-> NoMutation]
  /\ privilegeLock = NoSession /\ permissionLock = NoSession
  /\ mutations = 0

-----------------------------------------------------------------------------
Active(u) == account[u].status = "active"
Supers == {u \in Staff : "super_admin" \in account[u].roles}
ActiveSupers == {u \in Supers : Active(u)}
HasPermission(u, key) == \E r \in account[u].roles : key \in grants[r]
Actor(s) == signIn[s].user
InBrowser(s) == signIn[s].pc = "in" /\ mutation[s] = NoMutation
Place(s, pc) == signIn' = [signIn EXCEPT ![s].pc = pc]

\* Writes to the row of a user that are not committed yet.
RowLocked(u) == \E s \in Sessions : mutation[s].pc = "written" /\ mutation[s].target = u
                                      /\ mutation[s].op \in {"disable", "reactivate", "password"}

\* create-super-admin: the first account, made at a terminal.
Bootstrap(u) ==
  /\ privilegeLock = NoSession /\ Supers = {} /\ account[u] = NoAccount
  /\ account' = [account EXCEPT ![u] = [status |-> "active", roles |-> {"super_admin"},
                                        mustChange |-> TRUE]]
  /\ UNCHANGED <<grants, rows, signIn, mutation, privilegeLock, permissionLock, mutations>>

\* seed-access-control, at each deployment.
Seed == /\ permissionLock = NoSession /\ grants' = SeededGrants
        /\ UNCHANGED <<account, rows, signIn, mutation, privilegeLock, permissionLock, mutations>>

-----------------------------------------------------------------------------
\* staffLogin.  The password is right and the session guard finds the account active.
Verify(s, u) ==
  /\ signIn[s].pc = "none" /\ Active(u)
  /\ signIn' = [signIn EXCEPT ![s] = [pc |-> "verified", user |-> u]]
  /\ UNCHANGED <<account, grants, rows, mutation, privilegeLock, permissionLock, mutations>>

\* A defect the checks must find: the status of the sign-in is taken for granted.
OpenSessionUnchecked(s) ==
  /\ signIn[s].pc = "verified"
  /\ rows' = rows \cup {s} /\ Place(s, "opened")
  /\ UNCHANGED <<account, grants, mutation, privilegeLock, permissionLock, mutations>>

\* The insertion of the session; the trigger waits for the row of the user, FOR SHARE.
OpenSession(s) ==
  /\ signIn[s].pc = "verified" /\ ~RowLocked(Actor(s))
  /\ IF Active(Actor(s)) THEN rows' = rows \cup {s} /\ Place(s, "opened")
                         ELSE rows' = rows /\ Place(s, "ended")
  /\ UNCHANGED <<account, grants, mutation, privilegeLock, permissionLock, mutations>>

\* The account is read again; the audit record and the cookie complete the
\* sign-in.  When any of it fails, the new session is deleted, if that succeeds.
Complete(s) ==
  /\ signIn[s].pc = "opened"
  /\ \/ Active(Actor(s)) /\ Place(s, "in") /\ rows' = rows
     \/ Place(s, "ended") /\ rows' \in {rows, rows \ {s}}
  /\ UNCHANGED <<account, grants, mutation, privilegeLock, permissionLock, mutations>>

\* logout: the cookie is cleared also when the session could not be deleted.
Logout(s) ==
  /\ InBrowser(s) /\ Place(s, "ended") /\ rows' \in {rows, rows \ {s}}
  /\ UNCHANGED <<account, grants, mutation, privilegeLock, permissionLock, mutations>>

\* changePassword: the library stores the password and makes one new session of
\* all those of the user, then the flag is cleared and the others are deleted.
ChangePassword(s) ==
  /\ InBrowser(s) /\ s \in rows /\ Active(Actor(s)) /\ Place(s, "changing")
  /\ UNCHANGED <<account, grants, rows, mutation, privilegeLock, permissionLock, mutations>>

OthersOf(s) == {t \in rows : Actor(t) = Actor(s)} \ {s}
RotateSession(s) ==
  /\ signIn[s].pc = "changing" /\ ~RowLocked(Actor(s))
  /\ IF Active(Actor(s)) THEN rows' = (rows \ OthersOf(s)) \cup {s} /\ Place(s, "rotated")
                         ELSE rows' = rows \ (OthersOf(s) \cup {s}) /\ Place(s, "ended")
  /\ UNCHANGED <<account, grants, mutation, privilegeLock, permissionLock, mutations>>

FinishPasswordChange(s) ==
  /\ signIn[s].pc = "rotated"
  /\ \/ /\ ~RowLocked(Actor(s))
        /\ account' = [account EXCEPT ![Actor(s)].mustChange = FALSE]
        /\ rows' = rows \ OthersOf(s) /\ Place(s, "in")
     \/ account' = account /\ rows' \in {rows, rows \ {s}} /\ Place(s, "ended")
  /\ UNCHANGED <<grants, mutation, privilegeLock, permissionLock, mutations>>

-----------------------------------------------------------------------------
\* requirePermission, before the transaction: what the session allows just now.
PassesGuard(s, key) == /\ InBrowser(s) /\ s \in rows
                       /\ Active(Actor(s)) /\ ~account[Actor(s)].mustChange
                       /\ HasPermission(Actor(s), key)
UserOps == {"create", "disable", "reactivate", "password"}
RoleOps == {"set", "add", "remove"}
KeyOf(op) == IF op \in UserOps THEN "admin:users" ELSE "admin:roles"

Guard(s, op, target, role, keys) ==
  /\ mutations < MaxMutations /\ mutations' = mutations + 1
  /\ PassesGuard(s, KeyOf(op))
  /\ mutation' = [mutation EXCEPT ![s] = [pc |-> "guarded", op |-> op, target |-> target,
                                          role |-> role, keys |-> keys, doomed |-> {}]]
  /\ UNCHANGED <<account, grants, rows, signIn, privilegeLock, permissionLock>>

\* A defect the checks must find: the advisory lock is not waited for.
LockAtOnce(s) ==
  /\ mutation[s].pc = "guarded"
  /\ mutation' = [mutation EXCEPT ![s].pc = "locked"]
  /\ IF mutation[s].op = "grant" THEN permissionLock' = s /\ UNCHANGED privilegeLock
                                 ELSE privilegeLock' = s /\ UNCHANGED permissionLock
  /\ UNCHANGED <<account, grants, rows, signIn, mutations>>

\* The advisory locks, each the first statement of its transactions.
Lock(s) ==
  /\ mutation[s].pc = "guarded"
  /\ mutation' = [mutation EXCEPT ![s].pc = "locked"]
  /\ IF mutation[s].op = "grant"
     THEN permissionLock = NoSession /\ permissionLock' = s /\ UNCHANGED privilegeLock
     ELSE privilegeLock = NoSession /\ privilegeLock' = s /\ UNCHANGED permissionLock
  /\ UNCHANGED <<account, grants, rows, signIn, mutations>>

\* authoritativeActorRole and protectAdministrativeTarget.
Administers(u) == Active(u) /\ account[u].roles \cap Ranked # {}
OutOfReach(q, u) == \/ u = q.target
                    \/ u \notin Supers /\ account[q.target].roles \cap Ranked # {}
AboveRank(q, u) == q.role \in Ranked /\ u \notin Supers
LastSuperAdmin == Cardinality(ActiveSupers) <= 1
LosesSuper(q) == q.target \in Supers /\ LastSuperAdmin

\* What each operation asks beyond that of its target and its role.
CreateUser(q)   == account[q.target] = NoAccount
SetRole(q)      == /\ Cardinality(account[q.target].roles) = 1
                   /\ LosesSuper(q) => q.role = "super_admin"
AddRole(q)      == q.role \notin account[q.target].roles
RemoveRole(q)   == /\ q.role \in account[q.target].roles
                   /\ Cardinality(account[q.target].roles) > 1
                   /\ LosesSuper(q) => ~(q.role = "super_admin" /\ Active(q.target))
DisableUser(q)  == ~LosesSuper(q)
ReactivateUser(q) == account[q.target].status = "disabled"
ReplaceTemporaryPassword(q) == account[q.target] # NoAccount

Applies(q) ==
  CASE q.op = "create"     -> CreateUser(q)
    [] q.op = "set"        -> SetRole(q)
    [] q.op = "add"        -> AddRole(q)
    [] q.op = "remove"     -> RemoveRole(q)
    [] q.op = "disable"    -> DisableUser(q)
    [] q.op = "reactivate" -> ReactivateUser(q)
    [] q.op = "password"   -> ReplaceTemporaryPassword(q)

MayMutate(q, u) ==
  /\ HasPermission(u, KeyOf(q.op)) /\ Administers(u)
  /\ q.op \in RoleOps \cup {"create"} => ~AboveRank(q, u)
  /\ q.op # "create" => account[q.target] # NoAccount /\ ~OutOfReach(q, u)
  /\ Applies(q)

\* replacePermissions: the role of the super administrator keeps its baseline.
MayGrant(q, u) == /\ Active(u) /\ HasPermission(u, "admin:roles") /\ u \in Supers
                  /\ q.role = "super_admin" => "admin:roles" \in q.keys

Unlock(s) == /\ privilegeLock' = IF privilegeLock = s THEN NoSession ELSE privilegeLock
             /\ permissionLock' = IF permissionLock = s THEN NoSession ELSE permissionLock

\* The reads of the transaction: refused, it rolls back.
Check(s) ==
  LET q == mutation[s]
      allowed == IF q.op = "grant" THEN MayGrant(q, Actor(s)) ELSE MayMutate(q, Actor(s))
  IN /\ q.pc = "locked"
     /\ IF allowed THEN mutation' = [mutation EXCEPT ![s].pc = "checked"]
                        /\ UNCHANGED <<privilegeLock, permissionLock>>
                   ELSE mutation' = [mutation EXCEPT ![s] = NoMutation] /\ Unlock(s)
     /\ UNCHANGED <<account, grants, rows, signIn, mutations>>

\* The writes, not visible yet; the sessions they delete are those committed by now.
Write(s) ==
  LET q == mutation[s] IN
  /\ q.pc = "checked"
  /\ mutation' = [mutation EXCEPT ![s].pc = "written",
       ![s].doomed = IF q.op \in RoleOps \cup {"disable", "password"}
                     THEN {t \in rows : Actor(t) = q.target} ELSE {}]
  /\ UNCHANGED <<account, grants, rows, signIn, privilegeLock, permissionLock, mutations>>

Written(q) ==
  LET old == account[q.target] IN
  CASE q.op = "create"     -> [status |-> "active", roles |-> {q.role}, mustChange |-> TRUE]
    [] q.op = "set"        -> [old EXCEPT !.roles = {q.role}]
    [] q.op = "add"        -> [old EXCEPT !.roles = @ \cup {q.role}]
    [] q.op = "remove"     -> [old EXCEPT !.roles = @ \ {q.role}]
    [] q.op = "disable"    -> [old EXCEPT !.status = "disabled"]
    [] q.op = "reactivate" -> [old EXCEPT !.status = "active"]
    [] OTHER               -> [old EXCEPT !.mustChange = TRUE]

Commit(s) ==
  LET q == mutation[s] IN
  /\ q.pc = "written"
  /\ IF q.op = "grant"
     THEN grants' = [grants EXCEPT ![q.role] = q.keys] /\ UNCHANGED <<account, rows>>
     ELSE /\ account' = [account EXCEPT ![q.target] = Written(q)]
          /\ rows' = rows \ q.doomed /\ UNCHANGED grants
  /\ mutation' = [mutation EXCEPT ![s] = NoMutation] /\ Unlock(s)
  /\ UNCHANGED <<signIn, mutations>>

\* An error of the database ends the transaction without effect.
RollBack(s) ==
  /\ mutation[s].pc \in {"locked", "checked", "written"}
  /\ mutation' = [mutation EXCEPT ![s] = NoMutation] /\ Unlock(s)
  /\ UNCHANGED <<account, grants, rows, signIn, mutations>>

\* sessions.ts: one session of a user or all of them, without the advisory lock.
RevokeSessions(s, target) ==
  /\ PassesGuard(s, "admin:users") /\ account[target] # NoAccount
  /\ LET held == {t \in rows : Actor(t) = target}
     IN \E revoked \in {held} \cup {{t} : t \in held} : rows' = rows \ revoked
  /\ UNCHANGED <<account, grants, signIn, mutation, privilegeLock, permissionLock, mutations>>

-----------------------------------------------------------------------------
Mutate(s) ==
  \/ \E target \in Staff : \/ \E role \in Roles : \E op \in RoleOps \cup {"create"} :
                                Guard(s, op, target, role, {})
                           \/ \E op \in {"disable", "reactivate", "password"} :
                                Guard(s, op, target, "employee", {})
                           \/ RevokeSessions(s, target)
  \/ \E role \in Ranked, keys \in SUBSET Keys : Guard(s, "grant", Actor(s), role, keys)
  \/ Lock(s) \/ Check(s) \/ Write(s) \/ Commit(s) \/ RollBack(s)

SignInSteps(s) ==
  \/ \E u \in Staff : Verify(s, u)
  \/ OpenSession(s) \/ Complete(s) \/ Logout(s)
  \/ ChangePassword(s) \/ RotateSession(s) \/ FinishPasswordChange(s)

AccountsNext == (\E u \in Staff : Bootstrap(u)) \/ Seed
                \/ \E s \in Sessions : SignInSteps(s) \/ Mutate(s)
AccountsSpec == AccountsInit /\ [][AccountsNext]_accountVars

-----------------------------------------------------------------------------
\* The shape of the state.
AccountsTypeOK ==
  /\ account \in [Staff -> [status : {"absent", "active", "disabled"}, roles : SUBSET Roles,
                            mustChange : BOOLEAN]]
  /\ grants \in [Roles -> SUBSET Keys]
  /\ rows \subseteq Sessions
  /\ signIn \in [Sessions -> [pc : {"none", "verified", "opened", "in", "changing", "rotated",
                                    "ended"}, user : Staff \cup {NoStaff}]]
  /\ {privilegeLock, permissionLock} \subseteq Sessions \cup {NoSession}
  /\ mutations \in 0..MaxMutations
  /\ \A s \in Sessions : /\ mutation[s].target \in Staff \cup {NoStaff}
                         /\ mutation[s].role \in Roles /\ mutation[s].doomed \subseteq Sessions

\* Once there is an account, somebody can administer the others: an active
\* super administrator whose role can still hand out permissions.  Two super
\* administrators that demote or disable each other at the same time must not
\* both succeed.
NobodyIsLockedOut ==
  (\E u \in Staff : account[u] # NoAccount) =>
    ActiveSupers # {} /\ "admin:roles" \in grants["super_admin"]

\* No session outlives the account it was opened for: disabling an account
\* deletes every session of it, those included that were being opened or
\* renewed meanwhile, after the status had been looked at.
DisabledHaveNoSession == \A s \in rows : Active(Actor(s))
=============================================================================
