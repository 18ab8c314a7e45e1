------------------------------ MODULE Services ------------------------------
(***************************************************************************)
(* What every operation of internal/service does, in the order of its      *)
(* calls: which transactions it runs one after the other, what it asks of  *)
(* the object store and of Redis, what each of these may answer, and when   *)
(* the audit trail is written.  An operation is a sequence of steps, and   *)
(* RequestPipeline says what a step does and how it fails.  The data that   *)
(* the steps move are in the modules of the components.                    *)
(*                                                                         *)
(* A step is [do, of, or, fails]: what it does, to what, the statuses that  *)
(* it may answer instead of going on, and the status that it answers when   *)
(* the store that it needs is away; GoesOn where the code only logs that.   *)
(***************************************************************************)
EXTENDS Integers, Sequences

GoesOn == 0
Nothing == "none"        \* the subject of a step that needs no name

Step(do, of, or, fails) == <<[do |-> do, of |-> of, or |-> or, fails |-> fails]>>

Answer(status) == Step("answer", Nothing, {status}, GoesOn)
\* A choice that the data make.
Either(a, b) == Step("either", <<a, b>>, {}, GoesOn)
\* The validation of input that has been read already.
Check(or) == Step("check", Nothing, or, GoesOn)
\* A refusal that is recorded in the audit trail.
NotedCheck(or) == Either(<< >>, Step("note", Nothing, or, GoesOn))

\* One WithTx: it reads; or it changes something that an audit event is about.
Read(or) == Step("read", Nothing, or, 500)
\* Mutant: the audit entry is written on a second connection, inside the first.
WriteAndRecord(or) == Step("nested", Nothing, or, 500)
Write(or) == Step("write", Nothing, or, 500)
\* The same under the caller's own row-level security: pgx.ErrNoRows is 403.
Row(or) == Step("row", Nothing, or \cup {403}, 500)
WriteRow(or, hidden) == Step("writeRow", hidden, or, 500)
\* A WithTx that only follows what a request finds, in a column of its own:
\* users.last_login_at, documents.status ACTIVE again.  No audit event is about it.
Touch == Step("touch", Nothing, {}, 500)
Tolerated(step) == [step EXCEPT ![1].fails = GoesOn]

Object(fails) == Step("object", Nothing, {}, fails)
Enqueue(fails) == Step("queue", Nothing, {}, fails)
Record == Step("record", Nothing, {}, GoesOn)
List(table) == Step("list", table, {}, 500)

-----------------------------------------------------------------------------
(* internal/authz                                                           *)

HasPermission(action) == Step("permission", action, {403}, 500)

\* CanAccessCase, CanAccessDocument: the permission, then the relationship;
\* every denial is recorded.
CanAccess(action, refusal) ==
    Step("allowed", action, {refusal}, 500) \o Step("related", Nothing, {refusal}, 500)

CanAccessCase(action) == CanAccess(action, 403)
\* Mutant: a document that the caller may not see is not found.
CanAccessDocumentRevealing(action) == CanAccess(action, 404)
CanAccessDocument(action) == CanAccess(action, 403)

CanModifyUserRole == Step("allowed", "user:role", {403}, 500) \o NotedCheck({403})

-----------------------------------------------------------------------------
(* auth_service.go                                                          *)

Throttle(key) == Step("throttle", key, {429}, GoesOn)

checkLoginRateLimit == Throttle("ip") \o Throttle("account")

\* The access token and the refresh token are made first.
issueSession == Check({500}) \o Write({})

\* Unknown, inactive and wrong passwords are recorded and look the same.
Login ==
    checkLoginRateLimit \o Read({}) \o NotedCheck({401}) \o Touch \o issueSession
    \o Step("reset", "account", {}, GoesOn) \o Record

ReuseDetected == Write({}) \o Record \o Answer(401)

Refresh ==
    Read({}) \o NotedCheck({401}) \o Either(<< >>, ReuseDetected)
    \o Read({}) \o NotedCheck({401}) \o issueSession \o Write({}) \o Record

Logout == Either(<< >>, Read({}) \o Either(<< >>, Write({}) \o Record))

ResolveIdentity == Step("identity", Nothing, {401}, 401)

-----------------------------------------------------------------------------
(* case_service.go                                                          *)

CreateCase == HasPermission("case:create") \o Check({400}) \o Write({409}) \o Record

ListCases == HasPermission("case:read") \o Check({400}) \o List("cases")

loadCaseDetail == Row({})

GetCase == CanAccessCase("case:read") \o loadCaseDetail

UpdateCase ==
    CanAccessCase("case:update") \o Check({400}) \o WriteRow({400}, 403) \o Record
    \o loadCaseDetail

\* The case and its owner; the user to be added; an active membership.
AddMember ==
    CanAccessCase("case:update") \o Check({400}) \o Row({400}) \o Read({400}) \o Read({409})
    \o Write({409}) \o Record

RemoveMember ==
    CanAccessCase("case:update") \o Row({400}) \o Read({404}) \o Write({}) \o Record

\* The members as an administrator sees them; one whose user cannot be read is left out.
ListCaseMembers == CanAccessCase("case:read") \o Read({403}) \o Tolerated(Read({}))

-----------------------------------------------------------------------------
(* blockchain_anchor_service.go                                             *)

\* Never fails its caller, and is the last thing that the caller does.
CreateAnchorForDocument(done) ==
    Either(<< >>, Step("write", Nothing, {}, done) \o Record \o Enqueue(GoesOn))

GetAnchorStatus == CanAccessDocument("document:verify") \o Read({})
GetAnchorProvenance == CanAccessDocument("document:verify") \o Read({})

\* documents.status is made TAMPERED, or ACTIVE again, if it is not what was found.
reconcileTamperStatus == Either(<< >>, Write({}))

\* The stored object is read again, or the candidate's bytes are; then the
\* latest anchor and the ledger, whose absence only changes the verdict.
VerifyRequested == CanAccessDocument("document:verify") \o Row({}) \o Record
StoredFile == Object(503) \o Either(<< >>, Tolerated(Write({})))
CandidateFile == Check({400, 413})
LedgerVerdict == Tolerated(Read({})) \o Record

VerifyDocumentBlockchain == VerifyRequested \o StoredFile \o LedgerVerdict
VerifyCandidate == VerifyRequested \o CandidateFile \o LedgerVerdict

-----------------------------------------------------------------------------
(* document_service.go, document_redact.go, document_share.go               *)

UploadDocument ==
    CanAccessCase("document:upload") \o Check({400}) \o Object(500) \o Check({413, 422})
    \o Write({}) \o Record \o CreateAnchorForDocument(201)

DownloadDocument ==
    CanAccessDocument("document:download") \o Row({}) \o Object(503) \o Record

VerifyDocument ==
    CanAccessDocument("document:verify") \o Row({}) \o Object(503) \o reconcileTamperStatus
    \o Record

\* A redaction and a certificate need an object that matches.  One that does not
\* is reconciled, recorded and refused; one that matches again only touches the
\* row, and the record is left to whatever comes behind.
MatchRequired ==
    Either(reconcileTamperStatus \o Record \o Answer(409), Either(<< >>, Touch))

RedactionSource ==
    CanAccessDocument("document:redact") \o Check({400}) \o Row({}) \o Check({422})
    \o Object(503) \o MatchRequired \o Check({400, 422, 500})

RedactDocument == RedactionSource \o Object(500) \o Write({}) \o Record

validateRecipient == Read({400})

CreateShare ==
    CanAccessDocument("document:share") \o Check({400}) \o Row({}) \o validateRecipient
    \o Write({409}) \o Record

ListShares == CanAccessDocument("document:share") \o Read({})

RevokeShare == CanAccessDocument("document:share") \o WriteRow({404}, 404) \o Record

ListSharedWithMe == List("shared")

SearchRecipients == Check({400}) \o Read({}) \o Read({})

-----------------------------------------------------------------------------
(* certificate_service.go, export_service.go                                *)

generateCertificate ==
    Object(503) \o MatchRequired \o Check({500}) \o Write({}) \o Record

GetOrCreateCertificate ==
    CanAccessDocument("certificate:read") \o Row({}) \o Read({})
    \o Either(<< >>, CanAccess("certificate:create", 404) \o generateCertificate)

RequestExport ==
    CanAccessDocument("document:download") \o Row({}) \o Object(503) \o Check({500})
    \o Object(500) \o Write({}) \o Record \o CreateAnchorForDocument(202)

\* No gate of its own: row-level security shows an export or it does not.
DownloadEvidenceExport == Row({}) \o Check({400}) \o Object(503) \o Record

VerifyWatermark == Record

-----------------------------------------------------------------------------
(* user_service.go                                                          *)

loadUserSummary == Read({404})

CreateUser == HasPermission("user:create") \o Check({400}) \o Write({409}) \o Record
ListUsers == HasPermission("user:read") \o Check({400}) \o List("users")
GetUser == HasPermission("user:read") \o loadUserSummary
GetOwnProfile == loadUserSummary

\* The roles are read between the COMMIT and the record of it.
UpdateUser ==
    HasPermission("user:update") \o Check({400}) \o Write({404}) \o Read({}) \o Record

UpdateRole ==
    CanModifyUserRole \o Check({400}) \o Write({404, 409}) \o Record \o loadUserSummary

\* Mutant: the record waits for the answer that is being prepared.
UpdateStatusSummaryFirst ==
    HasPermission("user:deactivate") \o NotedCheck({403}) \o Check({400})
    \o Write({404, 409}) \o loadUserSummary \o Record

UpdateStatus ==
    HasPermission("user:deactivate") \o NotedCheck({403}) \o Check({400})
    \o Write({404, 409}) \o Record \o loadUserSummary

ResetPassword ==
    HasPermission("user:update") \o Check({400, 500}) \o Write({404}) \o Record

ListRoles == Read({})

-----------------------------------------------------------------------------
(* audit_service.go; reconcileStale may close a dead run inside a read      *)

ListAudit == HasPermission("audit:read") \o List("audit") \o Record

StartVerification ==
    HasPermission("audit:verify")
    \o Either(Write({}) \o Enqueue(500), Read({}) \o Read({})) \o Record

GetVerification == HasPermission("audit:verify") \o Read({404})
ListVerifications == HasPermission("audit:verify") \o List("verifications")
GetIntegritySummary == HasPermission("audit:verify") \o Read({})
=============================================================================
