--------------------------- MODULE RequestPipeline ---------------------------
(***************************************************************************)
(* Requests on their way through the server: the middleware, the handler    *)
(* and the service of a route, step by step, over one pool of database      *)
(* connections, while PostgreSQL, Redis and MinIO come and go, clients      *)
(* leave, users lose their accounts and their cases, and rows are added to  *)
(* the tables that are being listed.  Every transaction takes a connection  *)
(* of the pool and gives it back at its end, and a request runs several,    *)
(* one after the other: what it has checked may be stale when it acts.      *)
(***************************************************************************)
EXTENDS Routes, Listings, FiniteSets

CONSTANTS
    Slots,          \* connections of clients, one request each at a time
    Accounts, Admins,
    Granted,        \* the actions that the roles of a user grant
    MaxConns,       \* DATABASE_MAX_CONNS; bound: 25 by default
    Limits,         \* attempts per window, by key
    MaxRows,        \* bound: rows of the table that is listed
    AskedSize,      \* page_size of the client that pages
    Traffic         \* what the clients ask for, and the faults they meet

ASSUME PipelineAssumption ==
    /\ Admins \subseteq Accounts /\ MaxConns \in Nat \ {0}
    /\ Limits \in [{"ip", "account"} -> Nat]

\* The router has a chain for whatever is asked: a path or a method that it
\* does not know has one of its own.
ASSUME TrafficAssumption ==
    \A t \in Traffic : t.asked \in [Slots -> Seq(DOMAIN Routes)]

VARIABLES
    request,    \* of each slot, what is asked and how far it is
    gone,       \* the slots whose client has left
    away,       \* the stores that do not answer
    active,     \* the users whose status is ACTIVE
    related,    \* the users who may see the case and its documents
    counter, expiring,  \* the login counters in Redis; those with an expiry
    cut,        \* counters whose EXPIRE was lost to a fault (history)
    rows,       \* the table that is listed, newest first
    pager,      \* the client that reads it page by page
    budget      \* bound: faults, departures and changes still to come

pipelineVars ==
    <<request, gone, away, active, related, counter, expiring, cut, rows, pager, budget>>

Keys == DOMAIN Limits
NoPager == [page |-> 0, total |-> 0, read |-> {}, steady |-> {}, shrunk |-> FALSE]

TableOf == [ListCases |-> "cases", ListUsers |-> "users", ListAudit |-> "audit",
            History |-> "verifications", SharedWithMe |-> "shared"]

Sees(u) == u \in Admins \cup related
Facts(u) == {f \in {"active", "related"} : IF f = "active" THEN u \in active ELSE Sees(u)}

PipelineInit ==
    \E t \in Traffic :
        /\ request = [s \in Slots |->
             [asked |-> t.asked[s], user |-> t.user, route |-> "none", todo |-> << >>,
              at |-> "idle", answer |-> 0, ever |-> {}, unrecorded |-> {},
              hurt |-> FALSE]]
        /\ gone = {} /\ away = {}
        /\ active = Accounts /\ related = t.related
        /\ counter = [k \in Keys |-> 0] /\ expiring = {} /\ cut = {}
        /\ rows = t.rows
        /\ pager = [NoPager EXCEPT !.page = IF t.rows = << >> THEN 0 ELSE 1]
        /\ budget = t.budget

-----------------------------------------------------------------------------
(* The state of a request                                                   *)

Running(s) == request[s].at # "idle"
First(s) == Head(request[s].todo)
Ready(s, kinds) == request[s].at = "ready" /\ First(s).do \in kinds
Inside(s, kinds) == request[s].at = "inside" /\ First(s).do \in kinds
Later(s, kinds) == request[s].at = "later" /\ First(s).do \in kinds

Transactions == {"permission", "allowed", "related", "identity", "read", "row", "write",
                 "writeRow", "touch", "record", "nested", "list"}

Store(do) == CASE do \in Transactions -> "postgres"
               [] do \in {"queue", "throttle", "reset"} -> "redis"
               [] do = "object" -> "minio"
               [] OTHER -> "none"

\* The pool: a transaction holds a connection from BEGIN to its end.
Holding == {s \in Slots : Running(s) /\ request[s].at # "ready" /\ First(s).do \in Transactions}
Free == Cardinality(Holding) < MaxConns

GoOn(s) == [request EXCEPT ![s].todo = Tail(@), ![s].at = "ready"]
Then(s, steps) == [request EXCEPT ![s].todo = steps, ![s].at = "ready"]
Ends(s, status) == [request EXCEPT ![s].todo = << >>, ![s].at = "idle", ![s].answer = status]

\* A refusal, which the audit trail records before the answer goes out.
Noted(s, status) == Then(s, Record \o Answer(status))

environment == <<gone, away, active, related, budget>>
others == <<environment, counter, expiring, cut, rows, pager>>

Arrive(s) ==
    /\ ~Running(s) /\ request[s].asked # << >>
    /\ request' = [request EXCEPT
         ![s].asked = Tail(@), ![s].route = Head(request[s].asked),
         ![s].todo = Routes[Head(request[s].asked)], ![s].at = "ready",
         ![s].answer = 0, ![s].ever = Facts(request[s].user),
         ![s].unrecorded = {}, ![s].hurt = away # {}]
    /\ gone' = gone \ {s}
    /\ pager' = IF pager.page = 1 /\ Head(request[s].asked) \in DOMAIN TableOf
                  THEN [pager EXCEPT !.steady = Listed(TableOf[Head(request[s].asked)], rows)]
                  ELSE pager
    /\ UNCHANGED <<away, active, related, budget, counter, expiring, cut, rows>>

(***************************************************************************)
(* Steps that need no store                                                *)
(***************************************************************************)
Decide(s) ==
    /\ Ready(s, {"check", "note", "either", "admin", "answer"})
    /\ LET step == First(s) IN
       request' \in
         CASE step.do = "check"  -> {GoOn(s)} \cup {Ends(s, a) : a \in step.or}
           [] step.do = "note"   -> {Noted(s, a) : a \in step.or}
           [] step.do = "either" -> {Then(s, step.of[i] \o Tail(request[s].todo)) : i \in {1, 2}}
           [] step.do = "admin"  -> {IF request[s].user \in Admins THEN GoOn(s) ELSE Ends(s, 403)}
           [] step.do = "answer" -> {Ends(s, a) : a \in step.or}
    /\ UNCHANGED others

(***************************************************************************)
(* Transactions                                                            *)
(***************************************************************************)
\* pool.Begin, which waits for a connection.
Begin(s) ==
    /\ Ready(s, Transactions) /\ "postgres" \notin away /\ s \notin gone
    /\ Free
    /\ request' = [request EXCEPT ![s].at = "inside"]
    /\ UNCHANGED others

Up(s) == "postgres" \notin away /\ s \notin gone

\* The checks of a caller: his account, his permission, his relationship.
Judge(s) ==
    /\ Inside(s, {"identity", "permission", "allowed", "related"}) /\ Up(s)
    /\ LET step == First(s)
           user == request[s].user
           passes == CASE step.do = "identity" -> user \in active
                       [] step.do \in {"permission", "allowed"} -> step.of \in Granted[user]
                       [] step.do = "related" -> Sees(user)
       IN  \E a \in step.or :
             request' = IF passes THEN GoOn(s)
                        ELSE IF step.do \in {"allowed", "related"} THEN Noted(s, a)
                        ELSE Ends(s, a)
    /\ UNCHANGED others

ReadRow(s) ==
    /\ Inside(s, {"read", "row"}) /\ Up(s)
    /\ \/ /\ First(s).do = "row" => Sees(request[s].user)
          /\ request' \in {GoOn(s)} \cup {Ends(s, a) : a \in First(s).or}
       \/ /\ First(s).do = "row" /\ ~Sees(request[s].user)
          /\ request' = Ends(s, 403)
    /\ UNCHANGED others

\* What a commit leaves to be recorded.
Committed(s) == IF First(s).do = "touch" THEN "touch" ELSE "change"

Commit(s) ==
    /\ Inside(s, {"write", "writeRow", "touch"}) /\ Up(s)
    /\ \/ /\ First(s).do = "writeRow" => Sees(request[s].user)
          /\ request' \in {[GoOn(s) EXCEPT ![s].unrecorded = @ \cup {Committed(s)}]}
                          \cup {Ends(s, a) : a \in First(s).or}
       \/ /\ First(s).do = "writeRow" /\ ~Sees(request[s].user)
          /\ request' = Ends(s, First(s).of)
    /\ UNCHANGED others

NewRow == [id |-> Len(rows) + 1, seen |-> TRUE, hit |-> TRUE]

\* PostgresRecorder.Record: a transaction of its own, whose failure is logged.
RecordEvent(s) ==
    /\ Inside(s, {"record"}) /\ Up(s)
    /\ request' = [GoOn(s) EXCEPT ![s].unrecorded = {}]
    /\ rows' = IF request[s].route = "ListAudit" /\ Len(rows) \in 1 .. MaxRows - 1
                 THEN <<NewRow>> \o rows ELSE rows
    /\ UNCHANGED <<environment, counter, expiring, cut, pager>>

\* Stats: pool.QueryRow inside the function of WithTx.
NestedQuery(s) ==
    /\ \/ /\ Inside(s, {"nested"}) /\ Up(s)
          /\ request' = [request EXCEPT ![s].at = "later"]
       \/ /\ Later(s, {"nested"}) /\ Up(s) /\ Free
          /\ request' = GoOn(s)
    /\ UNCHANGED others

Page == ParsePagination(pager.page, AskedSize)

\* Mutant: the total is read before the page.
ListPageCountFirst(s) ==
    /\ Up(s)
    /\ \/ /\ Inside(s, {"list"})
          /\ pager' = [pager EXCEPT !.total = CountRows(First(s).of, rows)]
          /\ request' = [request EXCEPT ![s].at = "later"]
       \/ /\ Later(s, {"list"})
          /\ LET page == ListPage(First(s).of, rows, Page)
             IN  pager' = [pager EXCEPT !.read = @ \cup {page[i].id : i \in DOMAIN page}]
          /\ request' = GoOn(s)
    /\ UNCHANGED <<environment, counter, expiring, cut, rows>>

\* The page, and then the total, in one READ COMMITTED transaction.
ListRows(s) ==
    /\ Up(s)
    /\ \/ /\ Inside(s, {"list"})
          /\ LET page == ListPage(First(s).of, rows, Page)
             IN  pager' = [pager EXCEPT !.read = @ \cup {page[i].id : i \in DOMAIN page}]
          /\ request' = [request EXCEPT ![s].at = "later"]
       \/ /\ Later(s, {"list"})
          /\ pager' = [pager EXCEPT !.total = CountRows(First(s).of, rows)]
          /\ request' = GoOn(s)
    /\ UNCHANGED <<environment, counter, expiring, cut, rows>>

(***************************************************************************)
(* The object store and Redis                                              *)
(***************************************************************************)
Reaches(s) == Store(First(s).do) \notin away /\ s \notin gone

Fetch(s) ==
    /\ Ready(s, {"object", "queue"}) /\ Reaches(s)
    /\ request' = GoOn(s)
    /\ UNCHANGED others

\* RedisLimiter.Allow: INCR, and EXPIRE behind the first one of a window.
Incr(s) ==
    /\ Ready(s, {"throttle"}) /\ Reaches(s)
    /\ LET k == First(s).of
           count == counter[k] + 1
       IN  /\ counter' = [counter EXCEPT ![k] = IF count > Limits[k] THEN Limits[k] + 1 ELSE count]
           /\ request' = IF count = 1 THEN [request EXCEPT ![s].at = "later"]
                         ELSE IF count <= Limits[k] THEN GoOn(s) ELSE Noted(s, 429)
    /\ UNCHANGED <<environment, expiring, cut, rows, pager>>

\* Mutant: the counter of an account over its limit is the one that expires.
ExpireAtLimit(s) ==
    /\ Later(s, {"throttle"}) /\ Reaches(s)
    /\ expiring' = expiring \cup {k \in {First(s).of} : counter[k] > Limits[k]}
    /\ request' = GoOn(s)
    /\ UNCHANGED <<environment, counter, cut, rows, pager>>

\* EXPIRE does nothing to a key that was deleted meanwhile.
Expire(s) ==
    /\ Later(s, {"throttle"}) /\ Reaches(s)
    /\ expiring' = expiring \cup {k \in {First(s).of} : counter[k] > 0}
    /\ cut' = cut \ {First(s).of}
    /\ request' = GoOn(s)
    /\ UNCHANGED <<environment, counter, rows, pager>>

Forgotten(k) ==
    /\ counter' = [counter EXCEPT ![k] = 0]
    /\ expiring' = expiring \ {k} /\ cut' = cut \ {k}

\* RedisLimiter.Reset behind a successful login.
ResetCounter(s) ==
    /\ Ready(s, {"reset"}) /\ Reaches(s)
    /\ Forgotten(First(s).of)
    /\ request' = GoOn(s)
    /\ UNCHANGED <<environment, rows, pager>>

\* The store does not answer, or the context of the request is cancelled; an
\* open transaction is rolled back and its connection given back.
Unavailable(s) ==
    /\ Running(s) /\ Store(First(s).do) # "none" /\ ~Reaches(s)
    /\ request' = IF First(s).fails = GoesOn THEN GoOn(s) ELSE Ends(s, First(s).fails)
    /\ cut' = IF Later(s, {"throttle"}) THEN cut \cup {First(s).of} ELSE cut
    /\ UNCHANGED <<environment, counter, expiring, rows, pager>>

(***************************************************************************)
(* Everything else                                                         *)
(***************************************************************************)
Hurt(slots) == [s \in Slots |-> [request[s] EXCEPT !.hurt = @ \/ s \in slots]]

\* What a request could see while it ran.
Noticed(now, sees) ==
    [s \in Slots |-> [request[s] EXCEPT !.ever =
        IF Running(s) /\ request[s].user = now THEN @ \cup sees ELSE @]]

Disconnect(s) ==
    /\ Running(s) /\ s \notin gone /\ budget.leaves > 0
    /\ gone' = gone \cup {s} /\ request' = Hurt({s})
    /\ budget' = [budget EXCEPT !.leaves = @ - 1]
    /\ UNCHANGED <<away, active, related, counter, expiring, cut, rows, pager>>

Fail(store) ==
    /\ store \notin away /\ budget.faults > 0
    /\ away' = away \cup {store} /\ request' = Hurt({s \in Slots : Running(s)})
    /\ budget' = [budget EXCEPT !.faults = @ - 1]
    /\ UNCHANGED <<gone, active, related, counter, expiring, cut, rows, pager>>

Recover(store) ==
    /\ store \in away
    /\ away' = away \ {store}
    /\ UNCHANGED <<request, gone, active, related, budget, counter, expiring, cut, rows, pager>>

Changed ==
    /\ budget.changes > 0
    /\ budget' = [budget EXCEPT !.changes = @ - 1]
    /\ UNCHANGED <<gone, away, counter, expiring, cut>>

Deactivate(u) ==
    /\ u \in active /\ active' = active \ {u}
    /\ Changed /\ UNCHANGED <<request, related, rows, pager>>

Exclude(u) ==
    /\ u \in related /\ related' = related \ {u}
    /\ Changed /\ UNCHANGED <<request, active, rows, pager>>

Include(u) ==
    /\ u \notin related \cup Admins /\ related' = related \cup {u}
    /\ request' = Noticed(u, {"related"})
    /\ Changed /\ UNCHANGED <<active, rows, pager>>

WindowEnds(k) ==
    /\ k \in expiring
    /\ Forgotten(k)
    /\ UNCHANGED <<request, environment, rows, pager>>

RowAdded ==
    /\ pager.page > 0 /\ Len(rows) < MaxRows
    /\ rows' = <<NewRow>> \o rows
    /\ Changed /\ UNCHANGED <<request, active, related, pager>>

\* A row no longer matches, or the policy hides it.
RowLeaves(i) ==
    /\ pager.page > 0 /\ rows[i].hit
    /\ rows' = [rows EXCEPT ![i].hit = FALSE]
    /\ pager' = [pager EXCEPT !.shrunk = TRUE]
    /\ Changed /\ UNCHANGED <<request, active, related>>

Served(s) == ~Running(s) /\ request[s].answer = 200
LastPage == pager.page >= TotalPages(Page, pager.total)

\* The client asks for the next page as long as the last answer promises one.
NextPage(s) ==
    /\ pager.page > 0 /\ Served(s) /\ request[s].asked = << >> /\ ~LastPage
    /\ pager' = [pager EXCEPT !.page = @ + 1]
    /\ request' = [request EXCEPT ![s].asked = <<request[s].route>>]
    /\ UNCHANGED <<environment, counter, expiring, cut, rows>>

Progress(s) ==
    \/ Decide(s) \/ Begin(s) \/ Judge(s) \/ ReadRow(s) \/ Commit(s) \/ RecordEvent(s)
    \/ NestedQuery(s) \/ ListRows(s) \/ Fetch(s) \/ Incr(s) \/ Expire(s) \/ ResetCounter(s)
    \/ Unavailable(s)

PipelineNext ==
    \/ \E s \in Slots : Arrive(s) \/ Progress(s) \/ Disconnect(s) \/ NextPage(s)
    \/ \E d \in {"postgres", "redis", "minio"} : Fail(d) \/ Recover(d)
    \/ \E u \in Accounts : Deactivate(u) \/ Exclude(u) \/ Include(u)
    \/ \E k \in Keys : WindowEnds(k)
    \/ RowAdded \/ \E i \in DOMAIN rows : RowLeaves(i)

PipelineSpec ==
    PipelineInit /\ [][PipelineNext]_pipelineVars /\ \A s \in Slots : WF_pipelineVars(Progress(s))

-----------------------------------------------------------------------------
(* Properties                                                               *)

AdminOnly == {"Stats", "SystemHealth", "Jobs", "Blockchain", "VerifyWatermark"}
Public == {"Health", "Ready", "Preflight", "Unknown", "WrongMethod", "Login", "Refresh"}
Scoped == {"GetCase", "UpdateCase", "ListMembers", "AddMember", "RemoveMember", "CaseEvents",
           "Upload", "Download", "RequestExport", "DownloadExport", "Verify", "Certificate",
           "Redact", "Share", "ListShares", "RevokeShare", "AnchorStatus",
           "AnchorProvenance", "VerifyLedger", "VerifyCandidate"}

Answered(s) == ~Running(s) /\ request[s].answer # 0
Success(s) == Answered(s) /\ request[s].answer \in 200 .. 299

\* No route is served to a caller who was not entitled to it at any moment
\* since he asked: an active account behind every route that is not public, an
\* administrator behind the monitoring, a relationship behind every case and
\* every document, whatever the gates and the services between them check.
ServedWereAdmitted ==
    \A s \in Slots : Success(s) =>
        /\ request[s].route \notin Public => "active" \in request[s].ever
        /\ request[s].route \in AdminOnly => request[s].user \in Admins
        /\ request[s].route \in Scoped => "related" \in request[s].ever

\* A case or a document that the caller may not see, one that does not exist
\* and a malformed id answer alike (abac_middleware.go and the services behind
\* it): no handler in between tells them apart by a status of its own.
OutsiderLearnsNothing ==
    \A s \in Slots :
        Answered(s) /\ request[s].route \in Scoped /\ "related" \notin request[s].ever
        => \/ request[s].answer \in {401, 403, 500}
           \/ request[s].route = "DownloadExport" /\ request[s].answer = 400

\* What a request has committed is in the audit trail by the time it is answered,
\* unless its client left or a store failed while it ran: no branch of a service
\* returns behind the COMMIT of a change and before its Record, and none answers
\* a success behind any COMMIT without one.  The touched column of a request
\* that is refused after all is what remains: a document that is ACTIVE again
\* behind the 400, 422 or 500 of a redaction (document_redact.go) or the 500 of a
\* certificate, a login that is stamped and gets no token.
ChangesRecorded ==
    \A s \in Slots :
        Answered(s) /\ request[s].unrecorded # {} /\ ~request[s].hurt
        => request[s].unrecorded = {"touch"} /\ ~Success(s)

\* Without that remainder.  TLC refutes it, with a login first, so no
\* configuration asks for it.
EveryCommitRecorded ==
    \A s \in Slots : Answered(s) /\ request[s].unrecorded # {} => request[s].hurt

\* auth_service.go promises counters that expire by themselves: a counter that
\* does not has lost its EXPIRE to a fault, or is about to be given one.
CountersExpire ==
    \A k \in Keys : counter[k] > 0 /\ k \notin expiring =>
        \/ k \in cut
        \/ \E s \in Slots : Later(s, {"throttle"}) /\ First(s).of = k

\* A client that turns the pages until the total is reached has seen every row
\* that was there all along, although rows were added to the front meanwhile:
\* nothing is skipped between two pages, or between a page and its total.
PagerMissesNothing ==
    \A s \in Slots :
        pager.page > 0 /\ Served(s) /\ request[s].asked = << >> /\ LastPage /\ ~pager.shrunk
        => pager.steady \subseteq pager.read

StatsJam == Cardinality({s \in Slots : Running(s) /\ request[s].route = "Stats"}) >= MaxConns

\* Every request is answered, whatever fails: nobody waits for a connection
\* that is never given back.  Stats alone takes a second connection while it
\* holds one, so as many of it at once as the pool is large wait for ever.
RequestsAnswered == \A s \in Slots : Running(s) ~> (~Running(s) \/ StatsJam)
=============================================================================
