------------------------------ MODULE Listings ------------------------------
(***************************************************************************)
(* The paged listings of the API and the queries behind them: GET /cases,  *)
(* /admin/users, /audit, /audit/verifications and /shared/documents.  A    *)
(* page is cut out of the newest-first result by LIMIT and OFFSET, and the *)
(* total is counted by a second statement of the same READ COMMITTED       *)
(* transaction, so rows may come and go between the two, and between two   *)
(* pages.                                                                  *)
(*                                                                         *)
(* A row of a table is a record [id, seen, hit]: whether row-level         *)
(* security shows it to the caller, and whether it matches the caller's    *)
(* filter.  A table is a sequence of rows, the newest first.               *)
(***************************************************************************)
EXTENDS Integers, Sequences

CONSTANTS
    DefaultPageSize, MaxPageSize,   \* utils/pagination.go; bounds: 20 and 100 there
    IntMax                          \* bound: the largest int32

ASSUME PageSizesAssumption ==
    /\ DefaultPageSize \in 1 .. MaxPageSize
    /\ MaxPageSize \in 1 .. IntMax /\ IntMax \in Nat

\* The value of an int32 expression.
Int32(n) == ((n + IntMax + 1) % (2 * (IntMax + 1))) - (IntMax + 1)

ParsePagination(page, pageSize) ==
    [page     |-> IF page < 1 THEN 1 ELSE page,
     pageSize |-> IF pageSize < 1 THEN DefaultPageSize
                  ELSE IF pageSize > MaxPageSize THEN MaxPageSize ELSE pageSize]

Limit(p) == p.pageSize
Offset(p) == Int32((p.page - 1) * p.pageSize)

\* BuildMeta: the number of pages that hold total rows.
TotalPages(p, total) == (total + p.pageSize - 1) \div p.pageSize

\* LIMIT and OFFSET.
Cut(rows, limit, offset) ==
    SubSeq(rows, offset + 1,
           IF offset + limit < Len(rows) THEN offset + limit ELSE Len(rows))

-----------------------------------------------------------------------------
(* The statements: what each selects and counts                             *)

ByPolicyAndFilter(r) == r.seen /\ r.hit

\* cases_select, and the filters of status, number, title, creator and dates.
ListCasesFiltered(rows, p) == Cut(SelectSeq(rows, ByPolicyAndFilter), Limit(p), Offset(p))
CountCasesFiltered(rows) == Len(SelectSeq(rows, ByPolicyAndFilter))

\* The table users has no row-level security.
ByFilter(r) == r.hit
ListUsersFiltered(rows, p) == Cut(SelectSeq(rows, ByFilter), Limit(p), Offset(p))
CountUsersFiltered(rows) == Len(SelectSeq(rows, ByFilter))

\* audit_log_select.
ListAuditEntriesFiltered(rows, p) == Cut(SelectSeq(rows, ByPolicyAndFilter), Limit(p), Offset(p))
CountAuditEntriesFiltered(rows) == Len(SelectSeq(rows, ByPolicyAndFilter))

\* Only administrators see the table, and they see all of it.
ListAuditVerificationsFiltered(rows, p) == Cut(SelectSeq(rows, ByFilter), Limit(p), Offset(p))
CountAuditVerificationsFiltered(rows) == Len(SelectSeq(rows, ByFilter))

\* hit: the share is the caller's, ACTIVE and not expired; its document is
\* visible for that reason.
SharedWithMeRows(rows, p) == Cut(SelectSeq(rows, ByFilter), Limit(p), Offset(p))
CountSharedWithMe(rows) == Len(SelectSeq(rows, ByFilter))

Tables == {"cases", "users", "audit", "verifications", "shared"}

ListPage(table, rows, p) ==
    CASE table = "cases"         -> ListCasesFiltered(rows, p)
      [] table = "users"         -> ListUsersFiltered(rows, p)
      [] table = "audit"         -> ListAuditEntriesFiltered(rows, p)
      [] table = "verifications" -> ListAuditVerificationsFiltered(rows, p)
      [] table = "shared"        -> SharedWithMeRows(rows, p)

CountRows(table, rows) ==
    CASE table = "cases"         -> CountCasesFiltered(rows)
      [] table = "users"         -> CountUsersFiltered(rows)
      [] table = "audit"         -> CountAuditEntriesFiltered(rows)
      [] table = "verifications" -> CountAuditVerificationsFiltered(rows)
      [] table = "shared"        -> CountSharedWithMe(rows)

Listed(table, rows) == {rows[i].id : i \in {j \in DOMAIN rows :
    IF table \in {"cases", "audit"} THEN ByPolicyAndFilter(rows[j]) ELSE ByFilter(rows[j])}}
=============================================================================
