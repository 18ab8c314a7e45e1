----------------------- MODULE UserAdministrationProofs -----------------------
(***************************************************************************)
(* Proofs about UserAdministration for any number of users, roles and      *)
(* handlers.  The second theorem needs that no request in flight makes an  *)
(* existing user active or an administrator: without that the guard can be *)
(* bypassed, as MCUserAdministrationReactivate.cfg shows.                  *)
(***************************************************************************)
EXTENDS UserAdministration, FiniteSetTheorems, TLAPS

\* A handler that is not idle serves a request of the right kind.
Serving ==
    \A h \in Handlers :
        /\ tx[h].pc # "idle" => tx[h].request \in Requests
        /\ tx[h].pc = "create" => tx[h].request \in CreateRequests
        /\ tx[h].pc \in {"user", "roles", "lock", "count", "write"} =>
              tx[h].request \in RoleRequests \cup StatusRequests
        /\ tx[h].pc \in {"roles", "lock", "count", "write"} =>
              status[tx[h].request.target] # "none"

TypeInv == TypeOK /\ Serving

LEMMA RequestKinds ==
    ASSUME NEW r \in Requests
    PROVE  /\ r \in AllRequests
           /\ r.kind = "create" => r \in CreateRequests
           /\ r.kind # "create" => r \in RoleRequests \cup StatusRequests
           /\ r \in RoleRequests => r.kind = "role" /\ r.target \in Users /\ r.role \in Roles
           /\ r \in StatusRequests =>
                 r.kind = "status" /\ r.target \in Users /\ r.status \in Statuses
           /\ r \in CreateRequests =>
                 /\ r.kind = "create" /\ r.target \in Users /\ r.role \in Roles
                 /\ r.status \in Statuses
BY RequestsAssumption
   DEF AllRequests, RoleRequests, StatusRequests, CreateRequests

LEMMA InitType == Init => TypeInv
BY DEF Init, TypeInv, TypeOK, Transaction, Serving, Idle, Statuses

\* A step of handler h that leaves the tables alone.
LEMMA LocalStepType ==
    ASSUME TypeInv, NEW h \in Handlers, NEW t \in Transaction,
           tx' = [tx EXCEPT ![h] = t],
           UNCHANGED <<status, roles>>, lock' \subseteq Handlers,
           t.pc # "idle" => t.request \in Requests,
           t.pc = "create" => t.request \in CreateRequests,
           t.pc \in {"user", "roles", "lock", "count", "write"} =>
              t.request \in RoleRequests \cup StatusRequests,
           t.pc \in {"roles", "lock", "count", "write"} =>
              status[t.request.target] # "none"
    PROVE  TypeInv'
BY DEF TypeInv, TypeOK, Serving

LEMMA StepType == TypeInv /\ [Next]_vars => TypeInv'
<1> SUFFICES ASSUME TypeInv, [Next]_vars
             PROVE  TypeInv'
  OBVIOUS
<1> USE RequestKinds
<1>0. Idle \in Transaction
  BY DEF Idle, Transaction
<1>1. ASSUME NEW h \in Handlers, NEW r \in Requests, Authorize(h, r)
      PROVE  TypeInv'
  <2> DEFINE t == [tx[h] EXCEPT !.request = r,
                                !.pc = IF r.kind = "create" THEN "create" ELSE "user"]
  <2>1. t \in Transaction /\ tx' = [tx EXCEPT ![h] = t]
    BY <1>1 DEF Authorize, TypeInv, TypeOK, Transaction
  <2>2. t.request = r /\ t.pc = IF r.kind = "create" THEN "create" ELSE "user"
    BY <1>1 DEF TypeInv, TypeOK, Transaction
  <2>3. UNCHANGED <<status, roles>> /\ lock' \subseteq Handlers
    BY <1>1 DEF Authorize, TypeInv, TypeOK
  <2> HIDE DEF t
  <2> QED  BY <2>1, <2>2, <2>3, LocalStepType
<1>2. ASSUME NEW h \in Handlers, CreateUser(h)
      PROVE  TypeInv'
  <2>1. tx[h].request \in Requests /\ tx[h].request \in CreateRequests
    BY <1>2 DEF CreateUser, TypeInv, Serving
  <2>2. tx' \in [Handlers -> Transaction]
    BY <1>2, <1>0 DEF CreateUser, Return, TypeInv, TypeOK
  <2>3. CASE status[tx[h].request.target] = "none"
    <3> DEFINE r == tx[h].request
    <3>1. r.target \in Users /\ r.role \in Roles /\ r.status \in Statuses
      BY <2>1
    <3>2. /\ status' = [status EXCEPT ![r.target] = r.status]
          /\ roles' = [roles EXCEPT ![r.target] = {r.role}]
          /\ tx' = [tx EXCEPT ![h] = Idle] /\ lock' = lock
      BY <1>2, <2>3 DEF CreateUser, Return
    <3>3. TypeOK'
      BY <2>2, <3>1, <3>2 DEF TypeInv, TypeOK, Statuses
    <3>4. Serving'
      BY <3>1, <3>2 DEF Idle, TypeInv, TypeOK, Serving, Statuses
    <3> QED  BY <3>3, <3>4 DEF TypeInv
  <2>4. CASE status[tx[h].request.target] # "none"
    BY <1>2, <1>0, <2>2, <2>4
       DEF CreateUser, Return, Idle, TypeInv, TypeOK, Serving
  <2> QED  BY <2>3, <2>4
<1>3. ASSUME NEW h \in Handlers, GetUserByID(h)
      PROVE  TypeInv'
  <2> DEFINE st == status[tx[h].request.target]
             t  == [tx[h] EXCEPT !.status = st, !.pc = "roles"]
  <2>1. tx[h].request \in Requests /\ tx[h].request \in RoleRequests \cup StatusRequests
    BY <1>3 DEF GetUserByID, TypeInv, Serving
  <2>2. UNCHANGED <<status, roles>> /\ lock' \subseteq Handlers
    BY <1>3 DEF GetUserByID, TypeInv, TypeOK
  <2>3. CASE st = "none"
    BY <1>3, <1>0, <2>2, <2>3, LocalStepType DEF GetUserByID, Return, Idle
  <2>4. CASE st # "none"
    <3>1. t \in Transaction /\ tx' = [tx EXCEPT ![h] = t]
      BY <1>3, <2>1, <2>4 DEF GetUserByID, TypeInv, TypeOK, Transaction
    <3>2. t.request = tx[h].request /\ t.pc = "roles"
      BY DEF TypeInv, TypeOK, Transaction
    <3> HIDE DEF t
    <3> QED  BY <2>1, <2>2, <2>4, <3>1, <3>2, LocalStepType
  <2> QED  BY <2>3, <2>4
<1>4. ASSUME NEW h \in Handlers, ListRolesForUser(h)
      PROVE  TypeInv'
  <2> DEFINE rs == roles[tx[h].request.target]
             p  == IF NeedsGuard(tx[h].request, tx[h].status, rs) THEN "lock" ELSE "write"
             t  == [tx[h] EXCEPT !.roles = rs, !.pc = p]
  <2>1. /\ tx[h].request \in Requests
        /\ tx[h].request \in RoleRequests \cup StatusRequests
        /\ status[tx[h].request.target] # "none"
    BY <1>4 DEF ListRolesForUser, TypeInv, Serving
  <2>2. UNCHANGED <<status, roles>> /\ lock' \subseteq Handlers
    BY <1>4 DEF ListRolesForUser, TypeInv, TypeOK
  <2>3. rs \in SUBSET Roles
    BY <2>1 DEF TypeInv, TypeOK
  <2>4. t \in Transaction /\ tx' = [tx EXCEPT ![h] = t]
    BY <1>4, <2>3 DEF ListRolesForUser, TypeInv, TypeOK, Transaction
  <2>5. t.request = tx[h].request /\ t.pc \in {"lock", "write"}
    BY DEF TypeInv, TypeOK, Transaction
  <2> HIDE DEF t
  <2> QED  BY <2>1, <2>2, <2>4, <2>5, LocalStepType
<1>5. ASSUME NEW h \in Handlers, NEW p \in {"count", "write", "abort"},
             tx[h].pc \in {"lock", "count"} \/ (p = "abort" /\ tx[h].pc # "idle"),
             Goto(h, p), UNCHANGED <<status, roles>>, lock' \subseteq Handlers
      PROVE  TypeInv'
  <2> DEFINE t == [tx[h] EXCEPT !.pc = p]
  <2>1. t \in Transaction /\ tx' = [tx EXCEPT ![h] = t]
    BY <1>5 DEF Goto, TypeInv, TypeOK, Transaction
  <2>2. t.request = tx[h].request /\ t.pc = p
    BY DEF TypeInv, TypeOK, Transaction
  <2>3. /\ tx[h].request \in Requests
        /\ tx[h].pc \in {"lock", "count"} =>
              /\ tx[h].request \in RoleRequests \cup StatusRequests
              /\ status[tx[h].request.target] # "none"
    BY <1>5 DEF TypeInv, Serving
  <2> HIDE DEF t
  <2> QED  BY <1>5, <2>1, <2>2, <2>3, LocalStepType
<1>6. ASSUME NEW h \in Handlers, AcquireAdminGuardLock(h)
      PROVE  TypeInv'
  BY <1>5, <1>6 DEF AcquireAdminGuardLock
<1>7. ASSUME NEW h \in Handlers, CountActiveAdmins(h)
      PROVE  TypeInv'
  BY <1>5, <1>7 DEF CountActiveAdmins, TypeInv, TypeOK
<1>8. ASSUME NEW h \in Handlers, Fail(h)
      PROVE  TypeInv'
  BY <1>5, <1>8 DEF Fail, TypeInv, TypeOK
<1>9. ASSUME NEW h \in Handlers, Commit(h)
      PROVE  TypeInv'
  <2>1. /\ tx[h].request \in Requests
        /\ tx[h].request \in RoleRequests \cup StatusRequests
        /\ status[tx[h].request.target] # "none"
    BY <1>9 DEF Commit, TypeInv, Serving
  <2>2. tx' \in [Handlers -> Transaction] /\ lock' \subseteq Handlers
    BY <1>9, <1>0 DEF Commit, Return, TypeInv, TypeOK
  <2>3. CASE tx[h].request.kind = "role"
    <3> DEFINE u   == tx[h].request.target
               new == ReplaceRoles(roles[u], tx[h].roles, tx[h].request.role)
    <3>1. u \in Users /\ tx[h].request.role \in Roles
      BY <2>1, <2>3
    <3>2. new # {} /\ new \in SUBSET Roles
      BY <3>1 DEF ReplaceRoles, TypeInv, TypeOK
    <3>3. UNCHANGED status /\ roles' = [roles EXCEPT ![u] = new]
      BY <1>9, <2>3 DEF Commit
    <3>4. TypeOK'
      <4> HIDE DEF new
      <4> QED  BY <2>1, <2>2, <3>1, <3>2, <3>3 DEF TypeInv, TypeOK
    <3>5. Serving'
      BY <1>9, <1>0, <3>3 DEF Commit, Return, Idle, TypeInv, TypeOK, Serving
    <3> QED  BY <3>4, <3>5 DEF TypeInv
  <2>4. CASE tx[h].request.kind # "role"
    BY <1>9, <1>0, <2>1, <2>2, <2>4
       DEF Commit, Return, Idle, TypeInv, TypeOK, Serving, Statuses
  <2> QED  BY <2>3, <2>4
<1>10. ASSUME NEW h \in Handlers, Rollback(h)
       PROVE  TypeInv'
  <2>1. lock' \subseteq Handlers
    BY <1>10 DEF Rollback, TypeInv, TypeOK
  <2> QED  BY <1>10, <1>0, <2>1, LocalStepType DEF Rollback, Return, Idle
<1>11. CASE UNCHANGED vars
  BY <1>11 DEF vars, TypeInv, TypeOK, Serving
<1> QED
  BY <1>1, <1>2, <1>3, <1>4, <1>6, <1>7, <1>8, <1>9, <1>10, <1>11 DEF Next, Serve

(***************************************************************************)
(* The types of UserAdministration, and that no user is without a role.    *)
(***************************************************************************)
THEOREM TypeCorrect == Spec => []TypeOK
<1>1. TypeInv => TypeOK
  BY DEF TypeInv
<1> QED  BY <1>1, InitType, StepType, PTL DEF Spec
-----------------------------------------------------------------------------
\* The transaction of h will take an active administrator away.
Guarded(h) == NeedsGuard(tx[h].request, tx[h].status, tx[h].roles)

\* Such a transaction counts and writes under the lock.
LockInv ==
    \A h \in Handlers :
        /\ tx[h].pc \in {"lock", "count"} => Guarded(h)
        /\ tx[h].pc = "count" => lock = {h}
        /\ tx[h].pc = "write" /\ Guarded(h) => lock = {h}

\* What it counted still holds when it writes.
CountInv ==
    \A h \in Handlers :
        tx[h].pc = "write" /\ Guarded(h) =>
            \E a, b \in ActiveAdmins : a # b

\* A target that was seen not to be an active administrator is none.
StaleInv ==
    \A h \in Handlers :
        LET u == tx[h].request.target IN
        /\ tx[h].pc \in {"roles", "lock", "count", "write"} =>
              (status[u] = "active" => tx[h].status = "active")
        /\ tx[h].pc \in {"lock", "count", "write"} =>
              (Admin \in roles[u] => Admin \in tx[h].roles)

AdminInv == TypeInv /\ LockInv /\ CountInv /\ StaleInv /\ SomeActiveAdmin

LEMMA TwoElements ==
    ASSUME NEW S, IsFiniteSet(S), ~(Cardinality(S) <= 1)
    PROVE  \E a, b \in S : a # b
<1>1. Cardinality(S) \in Nat /\ Cardinality(S) > 1
  BY FS_CardinalityType
<1>2. S # {}
  BY <1>1, FS_EmptySet
<1>3. PICK a \in S : TRUE
  BY <1>2
<1>4. Cardinality(S \ {a}) = Cardinality(S) - 1
  BY <1>3, FS_RemoveElement
<1>5. Cardinality({}) = 0
  BY FS_EmptySet
<1>6. S \ {a} # {}
  BY <1>1, <1>4, <1>5
<1> QED  BY <1>3, <1>6

LEMMA InitAdmin == Init => AdminInv
BY InitType DEF Init, AdminInv, LockInv, CountInv, StaleInv, SomeActiveAdmin, Idle

\* A commit takes away at most its target, and that one only under the lock.
LEMMA CommitKeepsAdmins ==
    ASSUME RemovalsOnly, AdminInv, NEW h \in Handlers, Commit(h)
    PROVE  /\ ActiveAdmins \ {tx[h].request.target} \subseteq ActiveAdmins'
           /\ ~Guarded(h) => ActiveAdmins \subseteq ActiveAdmins'
<1> DEFINE r == tx[h].request
<1>1. /\ r \in Requests /\ r \in RoleRequests \cup StatusRequests
      /\ tx[h].pc = "write"
  BY DEF Commit, AdminInv, TypeInv, Serving
<1>2. \A u \in Users \ {r.target} :
          status'[u] = status[u] /\ roles'[u] = roles[u]
  BY <1>1, RequestKinds DEF Commit, AdminInv, TypeInv, TypeOK
<1>3. ActiveAdmins \ {r.target} \subseteq ActiveAdmins'
  BY <1>2 DEF ActiveAdmins
<1>4. ASSUME ~Guarded(h)
      PROVE  r.target \notin ActiveAdmins
  <2>1. IF r.kind = "role" THEN r.role # Admin ELSE r.status # "active"
    BY <1>1, RequestKinds DEF RemovalsOnly
  <2>2. ~(tx[h].status = "active" /\ Admin \in tx[h].roles)
    BY <1>4, <2>1 DEF Guarded, NeedsGuard
  <2> QED  BY <1>1, <2>2 DEF AdminInv, StaleInv, ActiveAdmins
<1> QED  BY <1>3, <1>4

LEMMA CreateKeepsAdmins ==
    ASSUME AdminInv, NEW h \in Handlers, CreateUser(h)
    PROVE  /\ ActiveAdmins \subseteq ActiveAdmins'
           /\ \A u \in Users : status[u] # "none" =>
                 status'[u] = status[u] /\ roles'[u] = roles[u]
<1>1. tx[h].request.target \in Users
  BY RequestKinds DEF CreateUser, AdminInv, TypeInv, Serving
<1>2. \A u \in Users : status[u] # "none" =>
          status'[u] = status[u] /\ roles'[u] = roles[u]
  BY <1>1 DEF CreateUser, AdminInv, TypeInv, TypeOK
<1> QED  BY <1>2 DEF ActiveAdmins

\* A step of h that leaves the tables alone, given what it makes of its own
\* transaction t.
LEMMA LocalStepAdmin ==
    ASSUME AdminInv, TypeInv', NEW h \in Handlers, NEW t,
           tx' = [tx EXCEPT ![h] = t], UNCHANGED <<status, roles>>,
           \A k \in Handlers \ {h} : lock = {k} => lock' = {k},
           t.pc \in {"lock", "count"} => NeedsGuard(t.request, t.status, t.roles),
           t.pc = "count" => lock' = {h},
           t.pc = "write" /\ NeedsGuard(t.request, t.status, t.roles) =>
              lock' = {h} /\ \E a, b \in ActiveAdmins : a # b,
           t.pc \in {"roles", "lock", "count", "write"} =>
              (status[t.request.target] = "active" => t.status = "active"),
           t.pc \in {"lock", "count", "write"} =>
              (Admin \in roles[t.request.target] => Admin \in t.roles)
    PROVE  AdminInv'
<1>1. tx'[h] = t /\ \A k \in Handlers \ {h} : tx'[k] = tx[k]
  BY DEF AdminInv, TypeInv, TypeOK
<1>2. ActiveAdmins' = ActiveAdmins
  BY DEF ActiveAdmins
<1>3. LockInv'
  <2> SUFFICES ASSUME NEW k \in Handlers
               PROVE  /\ tx'[k].pc \in {"lock", "count"} => Guarded(k)'
                      /\ tx'[k].pc = "count" => lock' = {k}
                      /\ tx'[k].pc = "write" /\ Guarded(k)' => lock' = {k}
    BY DEF LockInv
  <2>1. CASE k = h
    BY <2>1, <1>1 DEF Guarded, NeedsGuard
  <2>2. CASE k # h
    BY <2>2, <1>1 DEF AdminInv, LockInv, Guarded, NeedsGuard
  <2> QED  BY <2>1, <2>2
<1>4. CountInv'
  <2> SUFFICES ASSUME NEW k \in Handlers, tx'[k].pc = "write", Guarded(k)'
               PROVE  \E a, b \in ActiveAdmins : a # b
    BY <1>2 DEF CountInv
  <2>1. CASE k = h
    BY <2>1, <1>1 DEF Guarded, NeedsGuard
  <2>2. CASE k # h
    BY <2>2, <1>1 DEF AdminInv, CountInv, Guarded, NeedsGuard
  <2> QED  BY <2>1, <2>2
<1>5. StaleInv'
  <2> SUFFICES ASSUME NEW k \in Handlers
               PROVE  LET u == tx'[k].request.target IN
                      /\ tx'[k].pc \in {"roles", "lock", "count", "write"} =>
                            (status[u] = "active" => tx'[k].status = "active")
                      /\ tx'[k].pc \in {"lock", "count", "write"} =>
                            (Admin \in roles[u] => Admin \in tx'[k].roles)
    BY DEF StaleInv
  <2>1. CASE k = h
    BY <2>1, <1>1
  <2>2. CASE k # h
    BY <2>2, <1>1 DEF AdminInv, StaleInv
  <2> QED  BY <2>1, <2>2
<1>6. SomeActiveAdmin'
  BY <1>2 DEF AdminInv, SomeActiveAdmin
<1> QED  BY <1>3, <1>4, <1>5, <1>6 DEF AdminInv

\* A step of h that writes the tables, releases the lock if it holds it, and
\* returns.
LEMMA WriteStepAdmin ==
    ASSUME AdminInv, TypeInv', NEW h \in Handlers, Return(h),
           SomeActiveAdmin', lock' \in {lock, lock \ {h}},
           lock # {h} => ActiveAdmins \subseteq ActiveAdmins',
           \A u \in Users : status[u] # "none" =>
              /\ status'[u] = "active" => status[u] = "active"
              /\ Admin \in roles'[u] => Admin \in roles[u]
    PROVE  AdminInv'
<1>1. tx'[h] = Idle /\ \A k \in Handlers \ {h} : tx'[k] = tx[k]
  BY DEF Return, AdminInv, TypeInv, TypeOK
<1>2. tx'[h].pc = "idle"
  BY <1>1 DEF Idle
<1>3. \A k \in Handlers \ {h} : lock = {k} => lock' = {k}
  OBVIOUS
<1>4. LockInv'
  BY <1>1, <1>2, <1>3 DEF AdminInv, LockInv, Guarded, NeedsGuard
<1>5. CountInv'
  <2> SUFFICES ASSUME NEW k \in Handlers, tx'[k].pc = "write", Guarded(k)'
               PROVE  \E a, b \in ActiveAdmins' : a # b
    BY DEF CountInv
  <2>1. k # h /\ tx[k].pc = "write" /\ Guarded(k)
    BY <1>1, <1>2 DEF Guarded, NeedsGuard
  <2>2. lock # {h} /\ \E a, b \in ActiveAdmins : a # b
    BY <2>1 DEF AdminInv, LockInv, CountInv
  <2> QED  BY <2>2
<1>6. StaleInv'
  <2> SUFFICES ASSUME NEW k \in Handlers \ {h}
               PROVE  LET u == tx[k].request.target IN
                      /\ tx[k].pc \in {"roles", "lock", "count", "write"} =>
                            (status'[u] = "active" => tx[k].status = "active")
                      /\ tx[k].pc \in {"lock", "count", "write"} =>
                            (Admin \in roles'[u] => Admin \in tx[k].roles)
    BY <1>1, <1>2 DEF StaleInv
  <2>1. tx[k].pc \in {"roles", "lock", "count", "write"} =>
           tx[k].request.target \in Users /\ status[tx[k].request.target] # "none"
    BY RequestKinds DEF AdminInv, TypeInv, Serving
  <2> QED  BY <2>1 DEF AdminInv, StaleInv
<1> QED  BY <1>4, <1>5, <1>6 DEF AdminInv

LEMMA StepAdmin ==
    ASSUME RemovalsOnly
    PROVE  AdminInv /\ [Next]_vars => AdminInv'
<1> SUFFICES ASSUME AdminInv, [Next]_vars
             PROVE  AdminInv'
  OBVIOUS
<1>0. TypeInv' /\ TypeInv
  BY StepType DEF AdminInv
<1>1. ASSUME NEW h \in Handlers, NEW r \in Requests, Authorize(h, r)
      PROVE  AdminInv'
  <2> DEFINE t == [tx[h] EXCEPT !.request = r,
                                !.pc = IF r.kind = "create" THEN "create" ELSE "user"]
  <2>1. tx' = [tx EXCEPT ![h] = t] /\ t.pc \in {"create", "user"}
    BY <1>0, <1>1 DEF Authorize, TypeInv, TypeOK, Transaction
  <2>2. UNCHANGED <<status, roles, lock>>
    BY <1>1 DEF Authorize
  <2> HIDE DEF t
  <2> QED  BY <1>0, <2>1, <2>2, LocalStepAdmin
<1>2. ASSUME NEW h \in Handlers, CreateUser(h)
      PROVE  AdminInv'
  <2>1. ActiveAdmins \subseteq ActiveAdmins'
    BY <1>2, CreateKeepsAdmins
  <2>2. \A u \in Users : status[u] # "none" =>
           status'[u] = status[u] /\ roles'[u] = roles[u]
    BY <1>2, CreateKeepsAdmins
  <2>3. SomeActiveAdmin'
    BY <2>1 DEF AdminInv, SomeActiveAdmin
  <2> QED  BY <1>0, <1>2, <2>1, <2>2, <2>3, WriteStepAdmin DEF CreateUser
<1>3. ASSUME NEW h \in Handlers, GetUserByID(h)
      PROVE  AdminInv'
  <2> DEFINE st == status[tx[h].request.target]
             t  == [tx[h] EXCEPT !.status = st, !.pc = "roles"]
  <2>1. UNCHANGED <<status, roles, lock>>
    BY <1>3 DEF GetUserByID
  <2>2. CASE st = "none"
    BY <1>0, <1>3, <2>1, <2>2, LocalStepAdmin DEF GetUserByID, Return, Idle
  <2>3. CASE st # "none"
    <3>1. tx' = [tx EXCEPT ![h] = t] /\ t.pc = "roles" /\ t.status = st
             /\ t.request = tx[h].request
      BY <1>0, <1>3, <2>3 DEF GetUserByID, TypeInv, TypeOK, Transaction
    <3> HIDE DEF t
    <3> QED  BY <1>0, <2>1, <3>1, LocalStepAdmin
  <2> QED  BY <2>2, <2>3
<1>4. ASSUME NEW h \in Handlers, ListRolesForUser(h)
      PROVE  AdminInv'
  <2> DEFINE rs == roles[tx[h].request.target]
             ng == NeedsGuard(tx[h].request, tx[h].status, rs)
             t  == [tx[h] EXCEPT !.roles = rs, !.pc = IF ng THEN "lock" ELSE "write"]
  <2>1. UNCHANGED <<status, roles, lock>>
    BY <1>4 DEF ListRolesForUser
  <2>2. tx' = [tx EXCEPT ![h] = t]
    BY <1>0, <1>4 DEF ListRolesForUser, TypeInv, TypeOK, Transaction
  <2>3. /\ t.pc = IF ng THEN "lock" ELSE "write"
        /\ t.request = tx[h].request /\ t.status = tx[h].status /\ t.roles = rs
    BY <1>0 DEF TypeInv, TypeOK, Transaction
  <2>4. status[tx[h].request.target] = "active" => tx[h].status = "active"
    BY <1>4 DEF ListRolesForUser, AdminInv, StaleInv
  <2> HIDE DEF t
  <2> QED  BY <1>0, <2>1, <2>2, <2>3, <2>4, LocalStepAdmin
<1>5. ASSUME NEW h \in Handlers, NEW p \in {"count", "abort", "write"}, Goto(h, p),
             UNCHANGED <<status, roles>>,
             lock' = lock \/ (lock = {} /\ lock' = {h}),
             p # "abort" => tx[h].pc \in {"lock", "count"},
             p = "count" => lock' = {h},
             p = "write" => lock' = {h} /\ \E a, b \in ActiveAdmins : a # b
      PROVE  AdminInv'
  <2> DEFINE t == [tx[h] EXCEPT !.pc = p]
  <2>1. /\ tx' = [tx EXCEPT ![h] = t] /\ t.pc = p
        /\ t.request = tx[h].request /\ t.status = tx[h].status /\ t.roles = tx[h].roles
    BY <1>0, <1>5 DEF Goto, TypeInv, TypeOK, Transaction
  <2>2. p # "abort" =>
          LET u == tx[h].request.target IN
          /\ NeedsGuard(tx[h].request, tx[h].status, tx[h].roles)
          /\ status[u] = "active" => tx[h].status = "active"
          /\ Admin \in roles[u] => Admin \in tx[h].roles
    BY <1>5 DEF AdminInv, LockInv, StaleInv, Guarded
  <2> HIDE DEF t
  <2> QED  BY <1>0, <1>5, <2>1, <2>2, LocalStepAdmin
<1>6. ASSUME NEW h \in Handlers, AcquireAdminGuardLock(h)
      PROVE  AdminInv'
  BY <1>5, <1>6 DEF AcquireAdminGuardLock
<1>7. ASSUME NEW h \in Handlers, CountActiveAdmins(h)
      PROVE  AdminInv'
  <2>1. lock' = lock /\ lock = {h} /\ tx[h].pc = "count"
    BY <1>7 DEF CountActiveAdmins, AdminInv, LockInv
  <2>2. IsFiniteSet(ActiveAdmins)
    BY UsersAssumption, FS_Subset DEF ActiveAdmins
  <2>3. CASE Cardinality(ActiveAdmins) <= 1
    BY <1>5, <1>7, <2>1, <2>3 DEF CountActiveAdmins
  <2>4. CASE ~(Cardinality(ActiveAdmins) <= 1)
    <3>1. \E a, b \in ActiveAdmins : a # b
      BY <2>2, <2>4, TwoElements
    <3> QED  BY <1>5, <1>7, <2>1, <2>4, <3>1 DEF CountActiveAdmins
  <2> QED  BY <2>3, <2>4
<1>8. ASSUME NEW h \in Handlers, Fail(h)
      PROVE  AdminInv'
  BY <1>5, <1>8 DEF Fail
<1>9. ASSUME NEW h \in Handlers, Commit(h)
      PROVE  AdminInv'
  <2> DEFINE r == tx[h].request
  <2>1. /\ ActiveAdmins \ {r.target} \subseteq ActiveAdmins'
        /\ ~Guarded(h) => ActiveAdmins \subseteq ActiveAdmins'
    BY <1>9, CommitKeepsAdmins
  <2>2. Guarded(h) => lock = {h} /\ \E a, b \in ActiveAdmins : a # b
    BY <1>9 DEF Commit, AdminInv, LockInv, CountInv
  <2>3. SomeActiveAdmin'
    BY <2>1, <2>2 DEF AdminInv, SomeActiveAdmin
  <2>4. r \in Requests /\ r \in RoleRequests \cup StatusRequests
    BY <1>9 DEF Commit, AdminInv, TypeInv, Serving
  <2>5. ASSUME NEW u \in Users
        PROVE  /\ status'[u] = "active" => status[u] = "active"
               /\ Admin \in roles'[u] => Admin \in roles[u]
    <3>1. CASE r.kind = "role"
      <4>1. r.role # Admin
        BY <2>4, <3>1 DEF RemovalsOnly
      <4> QED  BY <1>9, <3>1, <4>1 DEF Commit, ReplaceRoles, AdminInv, TypeInv, TypeOK
    <3>2. CASE r.kind # "role"
      <4>1. r.status # "active"
        BY <2>4, <3>2, RequestKinds DEF RemovalsOnly
      <4> QED  BY <1>9, <3>2, <4>1 DEF Commit, AdminInv, TypeInv, TypeOK
    <3> QED  BY <3>1, <3>2
  <2>6. Return(h) /\ lock' = lock \ {h}
    BY <1>9 DEF Commit
  <2> QED  BY <1>0, <2>1, <2>2, <2>3, <2>5, <2>6, WriteStepAdmin
<1>10. ASSUME NEW h \in Handlers, Rollback(h)
       PROVE  AdminInv'
  <2>1. ActiveAdmins' = ActiveAdmins /\ UNCHANGED <<status, roles>>
    BY <1>10 DEF Rollback, ActiveAdmins
  <2>2. SomeActiveAdmin'
    BY <2>1 DEF AdminInv, SomeActiveAdmin
  <2> QED  BY <1>0, <1>10, <2>1, <2>2, WriteStepAdmin DEF Rollback
<1>11. CASE UNCHANGED vars
  BY <1>0, <1>11 DEF vars, AdminInv, LockInv, CountInv, StaleInv, SomeActiveAdmin,
                     ActiveAdmins, Guarded, NeedsGuard
<1> QED
  BY <1>1, <1>2, <1>3, <1>4, <1>6, <1>7, <1>8, <1>9, <1>10, <1>11 DEF Next, Serve

(***************************************************************************)
(* While no request activates or promotes an existing user, no race of     *)
(* demotions, deactivations, suspensions and failures leaves the system    *)
(* without an active administrator (ensureNotLastActiveAdmin).             *)
(***************************************************************************)
THEOREM NeverWithoutAdmin ==
    ASSUME RemovalsOnly
    PROVE  Spec => []SomeActiveAdmin
<1>1. AdminInv => SomeActiveAdmin
  BY DEF AdminInv
<1> QED  BY <1>1, InitAdmin, StepAdmin, PTL DEF Spec
=============================================================================
