-------------------------- MODULE UserAdministration --------------------------
(***************************************************************************)
(* UserService: administrators change each other's role and status.  Every *)
(* request runs one transaction of several statements, READ COMMITTED:     *)
(* each statement sees what was committed when it began, and the writes    *)
(* appear together at COMMIT.  A change that takes an active administrator *)
(* away takes an advisory lock and counts the others first.                *)
(***************************************************************************)
EXTENDS FiniteSets, Naturals

CONSTANTS
    Users,
    Admin,          \* models.RoleAdmin
    OtherRoles,     \* the other roles of the catalogue
    Handlers,       \* goroutines that serve requests
    Requests,       \* the changes that are asked for
    None

Roles == {Admin} \cup OtherRoles
Statuses == {"active", "inactive", "suspended"}

RoleRequests == [kind : {"role"}, target : Users, role : Roles]
StatusRequests == [kind : {"status"}, target : Users, status : Statuses]
CreateRequests == [kind : {"create"}, target : Users, role : Roles,
                   status : Statuses]
AllRequests == RoleRequests \cup StatusRequests \cup CreateRequests

ASSUME AdminAssumption == Admin \notin OtherRoles
ASSUME UsersAssumption == IsFiniteSet(Users)
ASSUME RequestsAssumption == Requests \subseteq AllRequests

\* No request makes an existing user active or an administrator.
RemovalsOnly ==
    \A r \in Requests :
        /\ r.kind = "role" => r.role # Admin
        /\ r.kind = "status" => r.status # "active"

VARIABLES
    status,     \* users.status, "none" while there is no such row
    roles,      \* user_roles
    lock,       \* holder of adminGuardLockKey, a set of at most one
    tx          \* the request each handler serves, and what it has read

vars == <<status, roles, lock, tx>>

ActiveAdmins == {u \in Users : status[u] = "active" /\ Admin \in roles[u]}

Idle == [pc |-> "idle", request |-> None, status |-> "none", roles |-> {}]

\* EnsureBootstrapAdmin sees to the first administrator; every other user
\* was created with one role.
Init ==
    /\ status \in [Users -> Statuses \cup {"none"}]
    /\ roles \in [Users -> SUBSET Roles]
    /\ \A u \in Users :
          IF status[u] = "none" THEN roles[u] = {}
                                ELSE \E r \in Roles : roles[u] = {r}
    /\ ActiveAdmins # {}
    /\ lock = {}
    /\ tx = [h \in Handlers |-> Idle]

Goto(h, pc) == tx' = [tx EXCEPT ![h].pc = pc]
Return(h) == tx' = [tx EXCEPT ![h] = Idle]

-----------------------------------------------------------------------------
(* Authorization: ResolveIdentity by the middleware, then CanModifyUserRole *)
(* or HasPermission.  The actor may lose its role right after.              *)

\* Nobody changes his own role or status.
MayRequest(actor, r) == actor \in ActiveAdmins /\ actor # r.target

Authorize(h, r) ==
    /\ tx[h].pc = "idle"
    /\ \E actor \in Users : MayRequest(actor, r)
    /\ tx' = [tx EXCEPT ![h].request = r,
                        ![h].pc = IF r.kind = "create" THEN "create" ELSE "user"]
    /\ UNCHANGED <<status, roles, lock>>

-----------------------------------------------------------------------------
(* CreateUser: user, role and initial status in one transaction.            *)

CreateUser(h) ==
    LET r == tx[h].request IN
    /\ tx[h].pc = "create"
    /\ IF status[r.target] = "none"    \* users_email_unique
       THEN /\ status' = [status EXCEPT ![r.target] = r.status]
            /\ roles' = [roles EXCEPT ![r.target] = {r.role}]
       ELSE UNCHANGED <<status, roles>>
    /\ Return(h)
    /\ UNCHANGED lock

-----------------------------------------------------------------------------
(* UpdateRole and UpdateStatus                                              *)

GetUserByID(h) ==
    LET st == status[tx[h].request.target] IN
    /\ tx[h].pc = "user"
    /\ IF st = "none" THEN Return(h)
       ELSE tx' = [tx EXCEPT ![h].status = st, ![h].pc = "roles"]
    /\ UNCHANGED <<status, roles, lock>>

\* The change takes away an active administrator, as far as the
\* transaction has seen.
NeedsGuard(r, st, rs) ==
    /\ st = "active" /\ Admin \in rs
    /\ IF r.kind = "role" THEN r.role # Admin ELSE r.status # "active"

\* UpdateStatus asks for the roles only where NeedsGuard depends on them.
ListRolesForUser(h) ==
    LET r == tx[h].request
        rs == roles[r.target]
    IN
    /\ tx[h].pc = "roles"
    /\ tx' = [tx EXCEPT ![h].roles = rs,
                        ![h].pc = IF NeedsGuard(r, tx[h].status, rs)
                                  THEN "lock" ELSE "write"]
    /\ UNCHANGED <<status, roles, lock>>

\* Mutant: the lock is not taken.
AcquireNothing(h) ==
    /\ tx[h].pc = "lock"
    /\ Goto(h, "count")
    /\ UNCHANGED <<status, roles, lock>>

\* pg_advisory_xact_lock
AcquireAdminGuardLock(h) ==
    /\ tx[h].pc = "lock" /\ lock = {}
    /\ lock' = {h}
    /\ Goto(h, "count")
    /\ UNCHANGED <<status, roles>>

\* CountActiveUsersWithRole; one or fewer is refused with a conflict.
CountActiveAdmins(h) ==
    /\ tx[h].pc = "count"
    /\ Goto(h, IF Cardinality(ActiveAdmins) <= 1 THEN "abort" ELSE "write")
    /\ UNCHANGED <<status, roles, lock>>

\* Mutant: the new role is added first and the old ones are removed then.
ReplaceRolesSwapped(current, read, new) == (current \cup {new}) \ read

\* The roles that were read are removed, save the new one, which is added.
ReplaceRoles(current, read, new) == (current \ read) \cup {new}

\* The writes and COMMIT, which releases the lock.
Commit(h) ==
    LET r == tx[h].request IN
    /\ tx[h].pc = "write"
    /\ IF r.kind = "role"
       THEN /\ roles' = [roles EXCEPT ![r.target] =
                                    ReplaceRoles(@, tx[h].roles, r.role)]
            /\ UNCHANGED status
       ELSE /\ status' = [status EXCEPT ![r.target] = r.status]
            /\ UNCHANGED roles
    /\ lock' = lock \ {h}
    /\ Return(h)

\* Mutant: a lock of the session, not of the transaction.
RollbackKeepsLock(h) ==
    /\ tx[h].pc = "abort"
    /\ Return(h)
    /\ UNCHANGED <<status, roles, lock>>

Rollback(h) ==
    /\ tx[h].pc = "abort"
    /\ lock' = lock \ {h}
    /\ Return(h)
    /\ UNCHANGED <<status, roles>>

\* A statement fails, or the process dies.
Fail(h) ==
    /\ tx[h].pc \notin {"idle", "abort"}
    /\ Goto(h, "abort")
    /\ UNCHANGED <<status, roles, lock>>

Serve(h) ==
    \/ CreateUser(h) \/ GetUserByID(h) \/ ListRolesForUser(h)
    \/ AcquireAdminGuardLock(h) \/ CountActiveAdmins(h) \/ Commit(h) \/ Rollback(h)

Next ==
    \E h \in Handlers :
        \/ \E r \in Requests : Authorize(h, r)
        \/ Serve(h)
        \/ Fail(h)

Spec == Init /\ [][Next]_vars

\* Goroutines are scheduled, and PostgreSQL grants an advisory lock to the
\* transactions that wait for it in their order.
FairSpec == Spec /\ \A h \in Handlers : SF_vars(Serve(h))
-----------------------------------------------------------------------------
Transaction ==
    [pc : {"idle", "create", "user", "roles", "lock", "count", "write", "abort"},
     request : Requests \cup {None},
     status : Statuses \cup {"none"},
     roles : SUBSET Roles]

\* A user has a role as soon as the user exists.
TypeOK ==
    /\ status \in [Users -> Statuses \cup {"none"}]
    /\ roles \in [Users -> SUBSET Roles]
    /\ \A u \in Users : (roles[u] = {}) <=> (status[u] = "none")
    /\ lock \subseteq Handlers
    /\ tx \in [Handlers -> Transaction]

(***************************************************************************)
(* ensureNotLastActiveAdmin: there is always an active administrator,      *)
(* however many requests race to demote, deactivate or suspend             *)
(* administrators, the last ones included.                                 *)
(***************************************************************************)
SomeActiveAdmin == ActiveAdmins # {}

(***************************************************************************)
(* Every request is answered: no one waits for ever for the guard lock,    *)
(* whoever fails or is refused while holding it.                           *)
(***************************************************************************)
RequestsEnd == \A h \in Handlers : (tx[h].pc # "idle") ~> (tx[h].pc = "idle")
=============================================================================
