------------------------ MODULE MCUserAdministration ------------------------
EXTENDS UserAdministration

CONSTANT Newcomer

\* No user is made active or an administrator, except by its creation.
Removals ==
    {r \in RoleRequests : r.role # Admin}
        \cup {r \in StatusRequests : r.status = "inactive"}
        \cup [kind : {"create"}, target : {Newcomer}, role : {Admin},
              status : {"active"}]

\* Demotions, deactivations and reactivations.
Reactivations ==
    {r \in RoleRequests : r.role # Admin}
        \cup {r \in StatusRequests : r.status # "suspended"}
=============================================================================
