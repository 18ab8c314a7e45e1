-------------------------- MODULE MCRequestPipeline --------------------------
(* Every route once, asked by an administrator, by an officer of the case    *)
(* and by an officer of another one; and three kinds of traffic that need    *)
(* more than one request: writers and dashboards on a pool of two, logins to *)
(* one account, and a client that pages through a table.                     *)
EXTENDS RequestPipeline, TLC

CONSTANTS s1, s2, admin, officer, outsider

OfficerActions ==
    {"case:create", "case:read", "case:update", "document:upload", "document:download",
     "document:verify", "document:redact", "document:share", "certificate:read",
     "certificate:create"}

MCGranted == [u \in {admin, officer, outsider} |->
    IF u = admin
      THEN OfficerActions \cup {"user:create", "user:read", "user:update", "user:role",
                                "user:deactivate", "audit:read", "audit:verify"}
      ELSE OfficerActions]

MCLimits == [ip |-> 2, account |-> 1]

Ask(first, second) == (s1 :> first) @@ (s2 :> second)
Traffics(asked, users, table, faults, leaves, changes) ==
    [asked : asked, user : users, related : {{officer}}, rows : {table},
     budget : {[faults |-> faults, leaves |-> leaves, changes |-> changes]}]

TableRow(id) == [id |-> id, seen |-> TRUE, hit |-> TRUE]

MCTraffic ==
    Traffics({Ask(<<r>>, << >>) : r \in DOMAIN Routes}, {admin, officer, outsider}, << >>, 1, 0, 1)
    \cup Traffics({Ask(<<r>>, << >>) : r \in DOMAIN Routes}, {officer}, << >>, 0, 1, 0)
    \cup Traffics({Ask(<<"Stats">>, <<"Stats">>), Ask(<<"Stats">>, <<"CreateCase">>),
                   Ask(<<"CreateCase">>, <<"ResetPassword">>)}, {admin}, << >>, 0, 1, 0)
    \cup Traffics({Ask(<<"Login", "Login">>, <<"Login">>)}, {officer}, << >>, 1, 0, 0)
    \cup Traffics({Ask(<<r>>, << >>) : r \in DOMAIN TableOf}, {admin},
                  <<[TableRow(3) EXCEPT !.hit = FALSE], TableRow(2), TableRow(1)>>, 0, 0, 1)
==============================================================================
