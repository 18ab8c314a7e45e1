------------------------------- MODULE Routes -------------------------------
(***************************************************************************)
(* The HTTP API: its middleware, its handlers and its routes, as the steps *)
(* of Services.  A handler reads the path, the query and the body, which    *)
(* may each end the request with a status of their own, calls one service    *)
(* operation, and answers its own status, or that of the AppError.          *)
(***************************************************************************)
EXTENDS Services

-----------------------------------------------------------------------------
(* Middleware                                                               *)

\* BodyLimit does not answer: a body over the limit fails where it is read.
Bind == Check({400})                    \* ShouldBindJSON
BindOptional == << >>                   \* its error is ignored
Multipart(or) == Check(or)
Query == Check({400})
PathID(malformed) == Check({malformed})

\* The bearer token, and then the user of its subject.
Auth == Check({401}) \o ResolveIdentity

RequirePermission(action) == HasPermission(action)
RequireAdmin == Step("admin", Nothing, {403}, GoesOn)
\* A malformed id is refused like one that the caller may not see.
RequireCaseAccess(action) == PathID(403) \o CanAccessCase(action)
RequireDocumentAccess(action) == PathID(403) \o CanAccessDocument(action)

CORSPreflight == Answer(204)
NoRoute == Answer(404)
NoMethod == Answer(405)

-----------------------------------------------------------------------------
(* Handlers                                                                 *)

LoginHandler == Bind \o Login \o Answer(200)
RefreshHandler == Bind \o Refresh \o Answer(200)
LogoutHandler == BindOptional \o Logout \o Answer(200)

CreateCaseHandler == Bind \o CreateCase \o Answer(201)
ListCasesHandler == Query \o ListCases \o Answer(200)
GetCaseHandler == GetCase \o Answer(200)
UpdateCaseHandler == Bind \o UpdateCase \o Answer(200)
ListMembersHandler == ListCaseMembers \o Answer(200)
AddMemberHandler == Bind \o AddMember \o Answer(201)
RemoveMemberHandler == PathID(400) \o RemoveMember \o Answer(200)
\* EventStream says what a stream does; here it holds no connection.
CaseEventsHandler == Check({429}) \o Answer(200)

UploadHandler == Multipart({400, 413}) \o UploadDocument \o Answer(201)
DownloadHandler == DownloadDocument \o Answer(200)
RequestExportHandler == RequestExport \o Answer(202)
DownloadExportHandler == PathID(400) \o DownloadEvidenceExport \o Answer(200)
VerifyHandler == VerifyDocument \o Answer(200)
CertificateHandler == GetOrCreateCertificate \o Answer(200)
RedactHandler == Bind \o RedactDocument \o Answer(201)
ShareHandler == Bind \o CreateShare \o Answer(201)
ListSharesHandler == ListShares \o Answer(200)
RevokeShareHandler == PathID(404) \o RevokeShare \o Answer(200)
BlockchainStatusHandler == GetAnchorStatus \o Answer(200)
BlockchainProvenanceHandler == GetAnchorProvenance \o Answer(200)
BlockchainVerifyHandler == VerifyDocumentBlockchain \o Answer(200)
\* ?source=stored and a POST without a form compare the stored object.
VerifyCandidateHandler ==
    Either(VerifyDocumentBlockchain, Multipart({400}) \o VerifyCandidate) \o Answer(200)
VerifyWatermarkHandler == Multipart({400, 500}) \o VerifyWatermark \o Answer(200)

SharedWithMeHandler == ListSharedWithMe \o Answer(200)
SearchHandler == SearchRecipients \o Answer(200)
ProfileHandler == GetOwnProfile \o Answer(200)

CreateUserHandler == Bind \o CreateUser \o Answer(201)
ListUsersHandler == ListUsers \o Answer(200)
UserEventsHandler == Check({429}) \o Answer(200)
GetUserHandler == PathID(404) \o GetUser \o Answer(200)
UpdateUserHandler == PathID(404) \o Bind \o UpdateUser \o Answer(200)
UpdateRoleHandler == PathID(404) \o Bind \o UpdateRole \o Answer(200)
UpdateStatusHandler == PathID(404) \o Bind \o UpdateStatus \o Answer(200)
ResetPasswordHandler == PathID(404) \o Bind \o ResetPassword \o Answer(204)
ListRolesHandler == ListRoles \o Answer(200)

\* The queries of pool.QueryRow run on a second connection, beside the one of
\* the transaction around them; the integrity summary may fail.
StatsHandler ==
    Step("nested", Nothing, {}, 500) \o Tolerated(Read({})) \o Tolerated(Read({})) \o Answer(200)
BlockchainHandler == Tolerated(Read({})) \o Answer(200)
JobsHandler == Enqueue(GoesOn) \o Answer(200)
\* Each dependency is pinged, and named in the answer.
SystemHealthHandler ==
    Tolerated(Read({})) \o Enqueue(GoesOn) \o Object(GoesOn) \o Answer(200)

ListAuditHandler == Query \o ListAudit \o Answer(200)
VerifyChainHandler == StartVerification \o Answer(202)
StatusHandler == PathID(400) \o GetVerification \o Answer(200)
AuditEventsHandler == PathID(400) \o Check({429}) \o GetVerification \o Answer(200)
HistoryHandler == Query \o ListVerifications \o Answer(200)
IntegrityHandler == GetIntegritySummary \o Answer(200)

Liveness == Answer(200)
Readiness == Step("read", Nothing, {}, 503) \o Enqueue(503) \o Object(503) \o Answer(200)

-----------------------------------------------------------------------------
(* NewRouter                                                                *)

ProbeRoutes ==
    [Health |-> Liveness, Ready |-> Readiness,
     Preflight |-> CORSPreflight, Unknown |-> NoRoute, WrongMethod |-> NoMethod]

AuthRoutes ==
    [Login |-> LoginHandler, Refresh |-> RefreshHandler, Logout |-> Auth \o LogoutHandler]

CaseRoutes ==
    [CreateCase   |-> Auth \o RequirePermission("case:create") \o CreateCaseHandler,
     ListCases    |-> Auth \o RequirePermission("case:read") \o ListCasesHandler,
     GetCase      |-> Auth \o RequireCaseAccess("case:read") \o GetCaseHandler,
     UpdateCase   |-> Auth \o RequireCaseAccess("case:update") \o UpdateCaseHandler,
     ListMembers  |-> Auth \o RequireCaseAccess("case:read") \o ListMembersHandler,
     AddMember    |-> Auth \o RequireCaseAccess("case:update") \o AddMemberHandler,
     RemoveMember |-> Auth \o RequireCaseAccess("case:update") \o RemoveMemberHandler,
     CaseEvents   |-> Auth \o RequireCaseAccess("case:read") \o CaseEventsHandler,
     Upload       |-> Auth \o RequireCaseAccess("document:upload") \o UploadHandler]

DocumentRoutes ==
    [Download      |-> Auth \o RequireDocumentAccess("document:download") \o DownloadHandler,
     RequestExport |-> Auth \o RequireDocumentAccess("document:download") \o RequestExportHandler,
     DownloadExport|-> Auth \o DownloadExportHandler,
     Verify        |-> Auth \o RequireDocumentAccess("document:verify") \o VerifyHandler,
     Certificate   |-> Auth \o RequireDocumentAccess("certificate:read") \o CertificateHandler,
     Redact        |-> Auth \o RequireDocumentAccess("document:redact") \o RedactHandler,
     Share         |-> Auth \o RequireDocumentAccess("document:share") \o ShareHandler,
     ListShares    |-> Auth \o RequireDocumentAccess("document:share") \o ListSharesHandler,
     RevokeShare   |-> Auth \o RequireDocumentAccess("document:share") \o RevokeShareHandler,
     SharedWithMe  |-> Auth \o SharedWithMeHandler,
     SearchUsers   |-> Auth \o SearchHandler]

LedgerRoutes ==
    [AnchorStatus     |-> Auth \o RequireDocumentAccess("document:verify") \o BlockchainStatusHandler,
     AnchorProvenance |-> Auth \o RequireDocumentAccess("document:verify") \o BlockchainProvenanceHandler,
     VerifyLedger     |-> Auth \o RequireDocumentAccess("document:verify") \o BlockchainVerifyHandler,
     VerifyCandidate  |-> Auth \o RequireDocumentAccess("document:verify") \o VerifyCandidateHandler]

UserRoutes ==
    [CreateUser    |-> Auth \o RequirePermission("user:create") \o CreateUserHandler,
     ListUsers     |-> Auth \o RequirePermission("user:read") \o ListUsersHandler,
     UserEvents    |-> Auth \o RequirePermission("user:read") \o UserEventsHandler,
     GetUser       |-> Auth \o RequirePermission("user:read") \o GetUserHandler,
     UpdateUser    |-> Auth \o RequirePermission("user:update") \o UpdateUserHandler,
     UpdateRole    |-> Auth \o UpdateRoleHandler,
     UpdateStatus  |-> Auth \o RequirePermission("user:deactivate") \o UpdateStatusHandler,
     ResetPassword |-> Auth \o RequirePermission("user:update") \o ResetPasswordHandler,
     ListRoles     |-> Auth \o ListRolesHandler,
     Profile       |-> Auth \o ProfileHandler]

\* Mutant: the page of the job queues is left without its gate.
MonitoringRoutesUngated ==
    [Stats |-> Auth \o RequireAdmin \o StatsHandler, SystemHealth |-> Auth \o RequireAdmin \o SystemHealthHandler,
     Jobs |-> Auth \o JobsHandler, Blockchain |-> Auth \o RequireAdmin \o BlockchainHandler,
     VerifyWatermark |-> Auth \o RequireAdmin \o VerifyWatermarkHandler]

MonitoringRoutes ==
    [Stats           |-> Auth \o RequireAdmin \o StatsHandler,
     SystemHealth    |-> Auth \o RequireAdmin \o SystemHealthHandler,
     Jobs            |-> Auth \o RequireAdmin \o JobsHandler,
     Blockchain      |-> Auth \o RequireAdmin \o BlockchainHandler,
     VerifyWatermark |-> Auth \o RequireAdmin \o VerifyWatermarkHandler]

AuditRoutes ==
    [ListAudit   |-> Auth \o RequirePermission("audit:read") \o ListAuditHandler,
     VerifyChain |-> Auth \o RequirePermission("audit:verify") \o VerifyChainHandler,
     RunStatus   |-> Auth \o RequirePermission("audit:verify") \o StatusHandler,
     RunEvents   |-> Auth \o RequirePermission("audit:verify") \o AuditEventsHandler,
     History     |-> Auth \o RequirePermission("audit:verify") \o HistoryHandler,
     Integrity   |-> Auth \o RequirePermission("audit:verify") \o IntegrityHandler]

\* The groups of a router name different routes.
f ++ g == [r \in DOMAIN f \cup DOMAIN g |-> IF r \in DOMAIN f THEN f[r] ELSE g[r]]

Routes == ProbeRoutes ++ AuthRoutes ++ CaseRoutes ++ DocumentRoutes ++ LedgerRoutes
          ++ UserRoutes ++ MonitoringRoutes ++ AuditRoutes
=============================================================================
