------------------------------ MODULE CaseAccess ------------------------------
(***************************************************************************)
(* Who may do what with a case and with one of its documents while         *)
(* membership and shares change.  A handler asks authz, one query after    *)
(* the other; reads the row it needs; and writes: each in a transaction of *)
(* its own, under row-level security with the identity that the            *)
(* middleware resolved.  authz and the policies of the tables decide by    *)
(* the same data, at different moments.                                    *)
(*                                                                         *)
(* One case, created by Owner, and one document of it.  Roles do not       *)
(* change here: a request keeps those it was resolved with, and            *)
(* UserAdministration is about the others.                                 *)
(***************************************************************************)
EXTENDS Naturals

CONSTANTS
    Users, Owner,       \* accounts; the creator of the case
    Recipients,         \* bound: accounts that the document is shared with
    RolesOf,            \* the roles that each user may have, one at a time
    Asks,               \* bound: the operations that each user asks for
    CaseStatuses,       \* the statuses that CreateCase and UpdateCase are asked for
    Calls,              \* goroutines that serve requests
    None

AllRoles == {"ADMIN", "POLICE", "FORENSICS", "LAWYER", "JUDGE"}
Statuses == {"OPEN", "UNDER_INVESTIGATION", "SUBMITTED", "UNDER_REVIEW",
             "CLOSED", "ARCHIVED"}

ASSUME OwnerAssumption == Owner \in Users
ASSUME RecipientsAssumption == Recipients \subseteq Users
ASSUME NoneAssumption == None \notin Users \cup Statuses
ASSUME RolesAssumption == RolesOf \in [Users -> SUBSET AllRoles]
\* Those who may create a case.
ASSUME OwnerRoleAssumption == RolesOf[Owner] \subseteq {"ADMIN", "POLICE"}
ASSUME StatusesAssumption == CaseStatuses \subseteq Statuses

VARIABLES
    role,           \* user_roles; constant
    status,         \* cases.status
    members,        \* users with an active row in case_members
    shares,         \* the permission of the ACTIVE row of document_shares, by
                    \* recipient; "expired" if that is past, "none" without one
    damaged,        \* whether the object no longer matches its hash; constant
    tampered,       \* whether documents.status is TAMPERED
    exports,        \* users with a row in evidence_exports
    calls,          \* the requests that are being served
    ever,           \* ghost: calls that were entitled at some moment
    steady          \* ghost: what entitled a call at every moment so far

vars == <<role, status, members, shares, damaged, tampered, exports, calls,
          ever, steady>>
world == <<role, damaged>>

NoCall == [pc |-> "idle", op |-> "none", user |-> None, target |-> None]

DocumentOps == {"download", "export", "verify", "redact", "share", "revoke"}
TeamOps == {"add", "remove"}
CaseOps == {"upload", "update"} \cup TeamOps
Ops == DocumentOps \cup CaseOps \cup {"fetch"}

ASSUME AsksAssumption == Asks \in [Users -> SUBSET Ops]

-----------------------------------------------------------------------------
(* Roles, policies and grants                                               *)

\* The permissions that the seed grants, by the operations that ask for them;
\* the download of an export asks for none.
Permitted(r) ==
    {"download", "export", "fetch"}
    \cup (IF r \in {"ADMIN", "POLICE", "FORENSICS", "LAWYER"}
          THEN {"verify", "share", "revoke"} ELSE {})
    \cup (IF r \in {"ADMIN", "POLICE", "FORENSICS"} THEN {"upload"} ELSE {})
    \cup (IF r \in {"ADMIN", "POLICE"} THEN {"redact", "update"} \cup TeamOps ELSE {})

IsAdmin(u) == role[u] = "ADMIN"
Inside(u) == IsAdmin(u) \/ u \in members

\* has_active_document_share, and the query of shareGrantsAccess.
HasActiveShare(u) == shares[u] \in {"VIEW", "VERIFY"}

\* Mutant: migration 4 did not extend documents_select.
MaySelectMembers(u) == Inside(u)

\* documents_select.
MaySelect(u) == Inside(u) \/ HasActiveShare(u)

\* Mutant: no policy for writes.
MayWriteAnyone(u) == TRUE

\* documents_insert, documents_update, redactions_insert,
\* document_shares_insert and document_shares_update.
MayWrite(u) == Inside(u)

\* cases_select and cases_update.
MayUseCase(u) == Inside(u) \/ u = Owner

\* shareViewActions, shareVerifyActions, sharePermissionCovers.
ShareCovers(u, op) ==
    /\ HasActiveShare(u)
    /\ \/ op \in {"download", "export"}
       \/ op = "verify" /\ shares[u] = "VERIFY"

\* caseStatusTransitions; storing the same status again is always allowed.
Transitions ==
    {<<"OPEN", "UNDER_INVESTIGATION">>, <<"UNDER_INVESTIGATION", "SUBMITTED">>,
     <<"SUBMITTED", "UNDER_REVIEW">>, <<"SUBMITTED", "UNDER_INVESTIGATION">>,
     <<"UNDER_REVIEW", "CLOSED">>, <<"UNDER_REVIEW", "UNDER_INVESTIGATION">>}
    \cup {<<s, "ARCHIVED">> : s \in Statuses \ {"ARCHIVED"}}
    \cup {<<s, s>> : s \in Statuses}

-----------------------------------------------------------------------------
(* Ghosts                                                                    *)

\* What entitles a call: its user belongs to the case, or the document is
\* shared with him for this purpose.  An export is for whoever made it.
Standing(c) ==
    LET u == calls[c].user
        op == calls[c].op
        inside == IF op \in TeamOps THEN IsAdmin(u) \/ u = Owner ELSE Inside(u)
        permissions == CASE op = "verify" -> {"VERIFY"}
                         [] op \in {"download", "export", "fetch"} -> {"VIEW", "VERIFY"}
                         [] OTHER -> {}
        shared == shares[u] \in permissions
    IN IF op = "fetch" /\ u \notin exports /\ ~IsAdmin(u) THEN {}
       ELSE {way \in {"inside", "share"} : IF way = "inside" THEN inside ELSE shared}

Running(c) == calls[c].pc # "idle"
Answered(c) == calls[c].pc \in {"served", "refused"}

\* A conjunct of every action: all that Standing reads is already primed.  The
\* answer ends the account of a call.
Track ==
    /\ ever' = {c \in Calls :
          Running(c)' /\ (c \in ever \/ (~Answered(c)' /\ Standing(c)' # {}))}
    /\ steady' = [c \in Calls |->
          IF ~Running(c)' THEN {}
          ELSE IF Answered(c)' THEN steady[c]
          ELSE IF ~Running(c) THEN Standing(c)'
          ELSE steady[c] \cap Standing(c)']

-----------------------------------------------------------------------------
Init ==
    /\ role \in {r \in [Users -> AllRoles] : \A u \in Users : r[u] \in RolesOf[u]}
    /\ status \in CaseStatuses
    /\ members = {Owner}
    /\ shares = [u \in Users |-> "none"]
    /\ damaged \in BOOLEAN /\ tampered = FALSE
    /\ exports = {}
    /\ calls = [c \in Calls |-> NoCall]
    /\ ever = {} /\ steady = [c \in Calls |-> {}]

\* Once a call is answered, only what it was about is kept.
Goto(c, pc) ==
    calls' = [calls EXCEPT ![c] =
                IF pc \in {"served", "refused"}
                THEN [NoCall EXCEPT !.pc = pc, !.op = calls[c].op]
                ELSE [@ EXCEPT !.pc = pc]]

\* An answer that has nothing to do with access: a conflict, a bad request,
\* a failing statement.
Return(c) == calls' = [calls EXCEPT ![c] = NoCall]

Targets(op) == CASE op \in TeamOps -> Users
                 [] op \in {"share", "revoke"} -> Recipients
                 [] op = "update" -> CaseStatuses
                 [] OTHER -> {None}

-----------------------------------------------------------------------------
(* authz.Service                                                            *)

\* HasPermission; those whose role lacks the permission are refused and change
\* nothing.  The check of the middleware is the same as the service's, earlier.
Begin(c, u, op, target) ==
    /\ calls[c].pc = "idle"
    /\ op \in Permitted(role[u]) \cap Asks[u]
    /\ op = "share" => target # u
    /\ calls' = [calls EXCEPT ![c] =
          [pc |-> CASE op = "fetch" -> "row"
                    [] op \in DocumentOps -> "found"
                    [] op \in CaseOps -> IF IsAdmin(u) THEN "row" ELSE "relation",
           op |-> op, user |-> u, target |-> target]]
    /\ UNCHANGED <<world, status, members, shares, tampered, exports>>
    /\ Track

\* CanAccessDocument reads the document under row-level security.
FindDocument(c) ==
    LET u == calls[c].user IN
    /\ calls[c].pc = "found"
    /\ Goto(c, IF ~MaySelect(u) THEN "refused"
               ELSE IF IsAdmin(u) THEN "row" ELSE "relation")
    /\ UNCHANGED <<world, status, members, shares, tampered, exports>>
    /\ Track

\* loadCaseRelationship, in CanAccessDocument and CanAccessCase.  For anybody
\* but the creator both of its queries need the membership: that the second
\* one finds it is enough to make it a relationship.
LoadCaseRelationship(c) ==
    LET call == calls[c]
        related == call.user = Owner \/ call.user \in members
    IN
    /\ call.pc = "relation"
    /\ Goto(c, IF related THEN "row"
               ELSE IF call.op \in {"download", "export", "verify"} THEN "share"
               ELSE "refused")
    /\ UNCHANGED <<world, status, members, shares, tampered, exports>>
    /\ Track

\* shareGrantsAccess; only coverable actions come here.
ShareGrantsAccess(c) ==
    /\ calls[c].pc = "share"
    /\ Goto(c, IF ShareCovers(calls[c].user, calls[c].op) THEN "row" ELSE "refused")
    /\ UNCHANGED <<world, status, members, shares, tampered, exports>>
    /\ Track

-----------------------------------------------------------------------------
(* Documents and exports                                                    *)

\* GetByID; a revocation goes on to its UPDATE, and an upload to its INSERT.
ReadDocument(c) ==
    LET call == calls[c] IN
    /\ call.pc = "row" /\ call.op \in DocumentOps \cup {"upload"}
    /\ Goto(c, IF call.op \in {"revoke", "upload"} THEN "write"
               ELSE IF ~MaySelect(call.user) THEN "refused"
               ELSE CASE call.op = "download"             -> "served"
                      [] call.op \in {"verify", "redact"} -> "check"
                      [] OTHER                            -> "write")
    /\ UNCHANGED <<world, status, members, shares, tampered, exports>>
    /\ Track

\* Mutant: the document is not read again.
DownloadEvidenceExportAlways(c) ==
    LET u == calls[c].user IN
    /\ calls[c].pc = "row" /\ calls[c].op = "fetch"
    /\ Goto(c, IF IsAdmin(u) \/ u \in exports THEN "served" ELSE "refused")
    /\ UNCHANGED <<world, status, members, shares, tampered, exports>>
    /\ Track

\* DownloadEvidenceExport: the export under evidence_exports_select and its
\* document under documents_select, and nothing else.
DownloadEvidenceExport(c) ==
    LET u == calls[c].user IN
    /\ calls[c].pc = "row" /\ calls[c].op = "fetch"
    /\ Goto(c, IF (IsAdmin(u) \/ u \in exports) /\ MaySelect(u)
               THEN "served" ELSE "refused")
    /\ UNCHANGED <<world, status, members, shares, tampered, exports>>
    /\ Track

\* The bytes are compared with the hash; reconcileTamperStatus issues its
\* UPDATE as the caller, and does not ask whether it found a row.
Reconcile(c) ==
    LET call == calls[c] IN
    /\ call.pc = "check"
    /\ tampered' = (tampered \/ (damaged /\ MayWrite(call.user)))
    /\ IF call.op = "verify" THEN Goto(c, "served")
       ELSE IF damaged THEN Return(c) ELSE Goto(c, "write")
    /\ UNCHANGED <<world, status, members, shares, exports>>
    /\ Track

\* CreateDocument of an upload or of a redacted derivative.
InsertDocument(c) ==
    /\ calls[c].pc = "write" /\ calls[c].op \in {"upload", "redact"}
    /\ Goto(c, IF MayWrite(calls[c].user) THEN "served" ELSE "refused")
    /\ UNCHANGED <<world, status, members, shares, tampered, exports>>
    /\ Track

\* CreateEvidenceExport: evidence_exports_insert asks for no membership.
InsertExport(c) ==
    /\ calls[c].pc = "write" /\ calls[c].op = "export"
    /\ exports' = exports \cup {calls[c].user}
    /\ Goto(c, "served")
    /\ UNCHANGED <<world, status, members, shares, tampered>>
    /\ Track

\* validateRecipient may refuse; document_shares_active_unique does refuse a
\* second ACTIVE row, an expired one included.
CreateShare(c) ==
    LET call == calls[c] IN
    /\ call.pc = "write" /\ call.op = "share"
    /\ \/ Return(c) /\ UNCHANGED shares
       \/ /\ ~MayWrite(call.user)
          /\ Goto(c, "refused") /\ UNCHANGED shares
       \/ /\ MayWrite(call.user) /\ shares[call.target] = "none"
          /\ \E permission \in {"VIEW", "VERIFY"} :
                shares' = [shares EXCEPT ![call.target] = permission]
          /\ Goto(c, "served")
    /\ UNCHANGED <<world, status, members, tampered, exports>>
    /\ Track

\* RevokeDocumentShare, of an ACTIVE row, expired or not.  What the policy
\* hides is not found.
RevokeShare(c) ==
    LET call == calls[c] IN
    /\ call.pc = "write" /\ call.op = "revoke"
    /\ \/ /\ MayWrite(call.user) /\ shares[call.target] # "none"
          /\ shares' = [shares EXCEPT ![call.target] = "none"]
          /\ Goto(c, "served")
       \/ /\ MayWrite(call.user) /\ shares[call.target] = "none"
          /\ Return(c) /\ UNCHANGED shares
       \/ /\ ~MayWrite(call.user)
          /\ Goto(c, "refused") /\ UNCHANGED shares
    /\ UNCHANGED <<world, status, members, tampered, exports>>
    /\ Track

-----------------------------------------------------------------------------
(* Cases and members                                                        *)

\* UpdateCase reads the status that its transition starts from.
ReadCase(c) ==
    LET call == calls[c] IN
    /\ call.pc = "row" /\ call.op = "update"
    /\ \/ ~MayUseCase(call.user) /\ Goto(c, "refused")
       \/ /\ MayUseCase(call.user)
          /\ IF <<status, call.target>> \in Transitions THEN Goto(c, "write") ELSE Return(c)
    /\ UNCHANGED <<world, status, members, shares, tampered, exports>>
    /\ Track

\* ... and then writes the new one, whatever the status is by now.
UpdateCase(c) ==
    LET call == calls[c] IN
    /\ call.pc = "write" /\ call.op = "update"
    /\ IF MayUseCase(call.user)
       THEN status' = call.target /\ Goto(c, "served")
       ELSE UNCHANGED status /\ Goto(c, "refused")
    /\ UNCHANGED <<world, members, shares, tampered, exports>>
    /\ Track

\* AddMember and RemoveMember: the case, the target and his membership.  The
\* queries about the target run as ADMIN; created_by never changes, so reading
\* it together with the membership loses no outcome.
ReadTeam(c) ==
    LET call == calls[c] IN
    /\ call.pc = "row" /\ call.op \in TeamOps
    /\ IF call.user # Owner /\ ~IsAdmin(call.user) THEN Goto(c, "refused")
       ELSE IF call.target = Owner \/ (call.op = "add") = (call.target \in members)
       THEN Return(c)
       ELSE Goto(c, "write") \/ Return(c)      \* the target is not an active user
    /\ UNCHANGED <<world, status, members, shares, tampered, exports>>
    /\ Track

\* Written as ADMIN.  idx_case_members_active_unique refuses a second active
\* row; the UPDATE of a removal succeeds on none.
WriteTeam(c) ==
    LET call == calls[c] IN
    /\ call.pc = "write" /\ call.op \in TeamOps
    /\ IF call.op = "add" /\ call.target \in members
       THEN Return(c) /\ UNCHANGED members
       ELSE /\ members' = IF call.op = "add" THEN members \cup {call.target}
                          ELSE members \ {call.target}
            /\ Goto(c, "served")
    /\ UNCHANGED <<world, status, shares, tampered, exports>>
    /\ Track

-----------------------------------------------------------------------------
(* Answers, failures, time                                                  *)

\* The caller gets his answer; or any statement before it fails, or the
\* process dies, and nothing more happens.
EndCall(c) ==
    /\ Running(c)
    /\ Return(c)
    /\ UNCHANGED <<world, status, members, shares, tampered, exports>>
    /\ Track

\* A share that has an expires_at reaches it; its row stays ACTIVE.
Expire(u) ==
    /\ HasActiveShare(u)
    /\ shares' = [shares EXCEPT ![u] = "expired"]
    /\ UNCHANGED <<world, status, members, tampered, exports, calls>>
    /\ Track

Step(c) ==
    \/ FindDocument(c) \/ LoadCaseRelationship(c) \/ ShareGrantsAccess(c)
    \/ ReadDocument(c) \/ DownloadEvidenceExport(c) \/ Reconcile(c)
    \/ InsertDocument(c) \/ InsertExport(c) \/ CreateShare(c) \/ RevokeShare(c)
    \/ ReadCase(c) \/ UpdateCase(c) \/ ReadTeam(c) \/ WriteTeam(c) \/ EndCall(c)

Next ==
    \/ \E c \in Calls : Step(c)
    \/ \E c \in Calls, u \in Users, op \in Ops : \E t \in Targets(op) : Begin(c, u, op, t)
    \/ \E u \in Users : Expire(u)

Spec == Init /\ [][Next]_vars

-----------------------------------------------------------------------------
(* Properties                                                               *)

\* The types of the variables; in particular the creator of a case is one of
\* its members for as long as it exists (RemoveMember: the case owner cannot
\* be removed).
TypeOK ==
    /\ role \in [Users -> AllRoles]
    /\ status \in Statuses
    /\ members \subseteq Users /\ Owner \in members
    /\ shares \in [Users -> {"none", "VIEW", "VERIFY", "expired"}]
    /\ damaged \in BOOLEAN /\ tampered \in BOOLEAN
    /\ exports \subseteq Users
    /\ calls \in [Calls -> [pc: {"idle", "found", "relation", "share", "row", "check",
                                 "write", "served", "refused"},
                            op: Ops \cup {"none"}, user: Users \cup {None},
                            target: Users \cup Statuses \cup {None}]]

\* Nobody is served who was not entitled to it at some moment between his
\* request and the answer, although authz and the handler look at the
\* membership and the shares several times while both change: a revoked, an
\* expired or a lesser share does not pass, and an export that somebody made
\* earlier is not a way around its document.
ServedWereEntitled ==
    \A c \in Calls : calls[c].pc = "served" => c \in ever

\* Nobody is refused who was entitled in the same way all the time: the two
\* layers, authz and row-level security, do not contradict each other.  (Who
\* loses a share and becomes a member between two queries may be refused.)
SteadyNotRefused ==
    \A c \in Calls : calls[c].pc = "refused" => steady[c] = {}

\* A share never leads to a write: whoever stores a document, a share, a
\* revocation, a tamper status or a case is a member of the case or an
\* administrator at that very moment, also if he was removed after authz had
\* let him in; and only the creator or an administrator changes the team.
InsidersWrite ==
    [][\A c \in Calls :
        LET call == calls[c]
            wrote == call.pc = "write" /\ calls'[c].pc = "served"
        IN
        /\ wrote /\ call.op \notin TeamOps \cup {"export"} => Inside(call.user)
        /\ wrote /\ call.op \in TeamOps => call.user = Owner \/ IsAdmin(call.user)
        /\ call.pc = "check" /\ calls'[c] # call /\ tampered' # tampered => Inside(call.user)]_vars

\* A document whose verification has answered INTEGRITY_FAILURE is TAMPERED
\* (docs/SECURITY.md: reconcileTamperStatus "moves it to TAMPERED on a
\* mismatch").  The code does not keep this: README, section 5.
MismatchMarked ==
    \A c \in Calls :
        calls[c].pc = "served" /\ calls[c].op = "verify" /\ damaged => tampered

=============================================================================
