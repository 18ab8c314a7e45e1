----------------------------- MODULE DocumentStore -----------------------------
(***************************************************************************)
(* Evidence in two places that share no transaction: bytes in the object   *)
(* store, rows in PostgreSQL.  DocumentService, CertificateService and     *)
(* ExportService write the bytes first and the row second; uploads and     *)
(* redactions delete the bytes again when the row cannot be written.       *)
(* Verification, redaction and certificates compare the bytes with the     *)
(* hash of the row and keep documents.status up to date.                   *)
(*                                                                         *)
(* SHA-256 is taken to be injective, so bytes are "genuine", those the row *)
(* was (or will be) written for, or "damaged", any others.  Authorization  *)
(* and the form of a request are choices to refuse.                        *)
(***************************************************************************)
EXTENDS Naturals

CONSTANTS
    Calls,          \* goroutines that serve requests
    MaxObjects,     \* bound on the objects and rows ever written
    MaxChanges,     \* bound on the changes made behind the service's back
    Faults,         \* what may fail: "error", "crash", "lost commit"
    None

ASSUME BoundsAssumption == MaxObjects \in Nat /\ MaxChanges \in Nat
ASSUME FaultsAssumption == Faults \subseteq {"error", "crash", "lost commit"}

VARIABLES
    objects,        \* the object store, by key
    rows,           \* documents and evidence_exports, by the key they store
    certificates,   \* compliance_certificates, by document
    audit,          \* the events recorded, <<action, resource>>
    logged,         \* keys of the orphans that cleanupOrphan has reported
    calls,          \* what each call has read so far
    next,           \* the next uuid.New()
    changes,        \* number of changes behind the service's back
    harmed,         \* ghost: keys that were ever overwritten from outside
    abandoned,      \* ghost: keys whose call could not or did not clean up
    returned        \* ghost: certificates handed to callers, <<document, signer>>

vars == <<objects, rows, certificates, audit, logged, calls, next, changes,
          harmed, abandoned, returned>>

ghosts == <<harmed, abandoned, returned>>

Ids == 1..MaxObjects
Bytes == {"missing", "genuine", "damaged"}
Kinds == {"original", "derivative", "export"}

\* made is a ghost: the bytes the row's own bytes were made from.
NoRow == [kind |-> "none", source |-> 0, made |-> "missing", status |-> "none"]
NoCertificate == [signer |-> None, made |-> "missing"]

\* doc: the document that was read, with its status.  content: its bytes.
\* id: the key of the object that the call writes.
NoCall == [pc |-> "idle", op |-> "none", doc |-> 0, status |-> "none",
           content |-> "missing", id |-> 0]

Init ==
    /\ objects = [i \in Ids |-> "missing"]
    /\ rows = [i \in Ids |-> NoRow]
    /\ certificates = [i \in Ids |-> NoCertificate]
    /\ audit = {} /\ logged = {}
    /\ calls = [c \in Calls |-> NoCall]
    /\ next = 1 /\ changes = 0
    /\ harmed = {} /\ abandoned = {}
    /\ returned = {}

Stored(i) == rows[i] # NoRow
Documents == {i \in Ids : rows[i].kind \in {"original", "derivative"}}
Checks == {"verify", "redact", "certify"}
Maybe(fault) == fault \in Faults

\* The status that was read matters until the comparison only.
Goto(c, pc) ==
    calls' = [calls EXCEPT ![c].pc = pc, ![c].status = IF pc = "get" THEN @ ELSE "none"]
Return(c) == calls' = [calls EXCEPT ![c] = NoCall]

\* Goto "put" with the key of a new object.
GotoPut(c, call) ==
    /\ next \in Ids
    /\ calls' = [calls EXCEPT ![c] = [call EXCEPT !.pc = "put", !.id = next, !.status = "none"]]
    /\ next' = next + 1

-----------------------------------------------------------------------------
(* Reading the document                                                     *)

UploadDocument(c) ==
    /\ calls[c].pc = "idle"
    /\ GotoPut(c, [NoCall EXCEPT !.op = "upload"])
    /\ UNCHANGED <<objects, rows, certificates, audit, logged, changes, ghosts>>

\* VerifyDocument, RedactDocument, GetOrCreateCertificate and RequestExport
\* read the row in a transaction of its own.
GetByID(c, op, d) ==
    /\ calls[c].pc = "idle"
    /\ calls' = [calls EXCEPT ![c] =
          [NoCall EXCEPT !.pc = IF op = "certify" THEN "fetch" ELSE "get",
                         !.op = op, !.doc = d, !.status = rows[d].status]]
    /\ UNCHANGED <<objects, rows, certificates, audit, logged, next, changes, ghosts>>

\* fetchCertificate; without one, a caller who may not create it is refused.
FetchCertificate(c) ==
    LET d == calls[c].doc
        certificate == certificates[d]
    IN
    /\ calls[c].pc = "fetch"
    /\ \/ /\ certificate # NoCertificate
          /\ returned' = returned \cup {<<d, certificate.signer>>}
          /\ Return(c)
       \/ /\ certificate = NoCertificate
          /\ Goto(c, "get")
          /\ UNCHANGED returned
    /\ UNCHANGED <<objects, rows, certificates, audit, logged, next, changes,
                   harmed, abandoned>>

\* Mutant: what cannot be read counts as empty bytes.
ReadObjectEmpty(c) ==
    LET d == calls[c].doc
        bytes == IF objects[d] = "missing" THEN "damaged" ELSE objects[d]
    IN
    /\ calls[c].pc = "get" /\ calls[c].op \in Checks
    /\ \E read \in {bytes, "damaged"} :
          calls' = [calls EXCEPT ![c].pc = "reconcile", ![c].content = read]
    /\ UNCHANGED <<objects, rows, certificates, audit, logged, next, changes, ghosts>>

\* recomputeDocumentHash, readAllLimited; ApplyWatermark for an export, whose
\* bytes nobody compares.  An object that cannot be read ends the call.
ReadObject(c) ==
    LET call == calls[c]
        bytes == objects[call.doc]
    IN
    /\ call.pc = "get"
    /\ \/ /\ bytes = "missing" \/ Maybe("error")
          /\ Return(c) /\ UNCHANGED next
       \/ /\ bytes # "missing" /\ call.op = "export"
          /\ GotoPut(c, [call EXCEPT !.content = bytes])
       \/ /\ bytes # "missing" /\ call.op \in Checks
          /\ calls' = [calls EXCEPT ![c].pc = "reconcile", ![c].content = bytes]
          /\ UNCHANGED next
    /\ UNCHANGED <<objects, rows, certificates, audit, logged, changes, ghosts>>

-----------------------------------------------------------------------------
(* Comparing it with its hash                                               *)

\* reconcileTamperStatus: the status the row should have, given the status
\* that the call has read.
WantStatus(call) ==
    CASE call.content = "damaged" /\ call.status # "TAMPERED" -> "TAMPERED"
      [] call.content = "genuine" /\ call.status = "TAMPERED" -> "ACTIVE"
      [] OTHER -> "none"

\* Mutant: a mismatch is recorded but does not stop a redaction or a
\* certificate.
AfterCheckAnyway(c) ==
    LET call == calls[c] IN
    CASE call.op = "redact"  -> GotoPut(c, call)
      [] call.op = "certify" -> Goto(c, "sign") /\ UNCHANGED next
      [] OTHER               -> Goto(c, "record") /\ UNCHANGED next

\* A verification is recorded either way; a mismatch ends a redaction or a
\* certificate once it is recorded.
AfterCheck(c) ==
    LET call == calls[c] IN
    IF call.content = "damaged" \/ call.op = "verify"
    THEN Goto(c, "record") /\ UNCHANGED next
    ELSE IF call.op = "redact"
    THEN GotoPut(c, call)
    ELSE Goto(c, "sign") /\ UNCHANGED next

\* The UPDATE does not look at the status again.  It may find no row and says
\* nothing: row-level security hides the row from the UPDATE of a caller who
\* was let in by a share, which covers verification only (CaseAccess; a
\* membership that ends at this moment has the same effect).
Reconcile(c) ==
    LET call == calls[c]
        want == WantStatus(call)
        updated == IF want = "none" THEN rows ELSE [rows EXCEPT ![call.doc].status = want]
    IN
    /\ call.pc = "reconcile"
    /\ \/ /\ rows' \in {updated} \cup (IF call.op = "verify" THEN {rows} ELSE {})
          /\ \/ AfterCheck(c)
             \* Undecodable bytes, a region outside the image.
             \/ call.op = "redact" /\ Return(c) /\ UNCHANGED next
       \/ /\ want # "none" /\ Maybe("error")
          /\ Return(c)
          /\ UNCHANGED <<rows, next>>
    /\ UNCHANGED <<objects, certificates, audit, logged, changes, ghosts>>

-----------------------------------------------------------------------------
(* Writing bytes, then the row                                              *)

\* Mutant: the denied type is refused after the bytes are stored and nothing
\* takes them back.
PutKept(c) ==
    LET call == calls[c] IN
    /\ call.pc = "put"
    /\ objects' = [objects EXCEPT ![call.id] = "genuine"]
    /\ Goto(c, "insert") \/ (call.op = "upload" /\ Return(c))
    /\ UNCHANGED <<rows, certificates, audit, logged, next, changes, ghosts>>

\* Storage.Put under a new key.  A failed Put may have left anything; only an
\* upload cleans up after it.  An upload of a denied type is taken back.
Put(c) ==
    LET call == calls[c] IN
    /\ call.pc = "put"
    /\ \/ /\ objects' = [objects EXCEPT ![call.id] = "genuine"]
          /\ Goto(c, "insert") \/ (call.op = "upload" /\ Goto(c, "cleanup"))
          /\ UNCHANGED abandoned
       \/ /\ Maybe("error")
          /\ \E left \in Bytes : objects' = [objects EXCEPT ![call.id] = left]
          /\ IF call.op = "upload"
             THEN Goto(c, "cleanup") /\ UNCHANGED abandoned
             ELSE Return(c) /\ abandoned' = abandoned \cup {call.id}
    /\ UNCHANGED <<rows, certificates, audit, logged, next, changes,
                   harmed, returned>>

NewRow(call) ==
    [kind   |-> CASE call.op = "upload" -> "original"
                  [] call.op = "redact" -> "derivative"
                  [] call.op = "export" -> "export",
     source |-> call.doc,
     made   |-> IF call.op = "upload" THEN "genuine" ELSE call.content,
     status |-> IF call.op = "export" THEN "COMPLETED" ELSE "ACTIVE"]

\* CreateDocument (and CreateRedaction), CreateEvidenceExport and its UPDATE:
\* committed, rolled back, or committed without a reply.
Insert(c) ==
    LET call == calls[c]
        inserted == [rows EXCEPT ![call.id] = NewRow(call)]
    IN
    /\ call.pc = "insert"
    /\ \/ rows' = inserted /\ Goto(c, "record")
       \/ Maybe("error") /\ rows' = rows /\ Goto(c, "cleanup")
       \/ Maybe("lost commit") /\ rows' = inserted /\ Goto(c, "cleanup")
    /\ UNCHANGED <<objects, certificates, audit, logged, next, changes, ghosts>>

\* Mutant: the key of the source is passed.
CleanupSource(c) ==
    LET call == calls[c] IN
    /\ call.pc = "cleanup"
    /\ objects' = [objects EXCEPT ![IF call.doc = 0 THEN call.id ELSE call.doc] = "missing"]
    /\ Return(c)
    /\ abandoned' = abandoned \cup {call.id}
    /\ UNCHANGED <<rows, certificates, audit, logged, next, changes,
                   harmed, returned>>

\* cleanupOrphan; an export calls Delete and ignores its error.
Cleanup(c) ==
    LET call == calls[c] IN
    /\ call.pc = "cleanup"
    /\ Return(c)
    /\ \/ /\ objects' = [objects EXCEPT ![call.id] = "missing"]
          /\ UNCHANGED <<logged, abandoned>>
       \/ /\ Maybe("error")
          /\ IF call.op = "export"
             THEN abandoned' = abandoned \cup {call.id} /\ UNCHANGED logged
             ELSE logged' = logged \cup {call.id} /\ UNCHANGED abandoned
          /\ UNCHANGED objects
    /\ UNCHANGED <<rows, certificates, audit, next, changes,
                   harmed, returned>>

-----------------------------------------------------------------------------
(* Certificates and the audit trail                                         *)

\* Mutant: the certificate that lost the race is returned.
SignMine(c) ==
    LET d == calls[c].doc IN
    /\ calls[c].pc = "sign"
    /\ IF certificates[d] = NoCertificate
       THEN certificates' = [certificates EXCEPT ![d] =
                                [signer |-> c, made |-> calls[c].content]]
       ELSE UNCHANGED certificates
    /\ returned' = returned \cup {<<d, c>>}
    /\ Goto(c, "record")
    /\ UNCHANGED <<objects, rows, audit, logged, next, changes,
                   harmed, abandoned>>

\* CreateCertificate, ON CONFLICT DO NOTHING; the loser of a race reads the
\* winner's row in the same transaction.
Sign(c) ==
    LET d == calls[c].doc
        won == certificates[d] = NoCertificate
        inserted == [certificates EXCEPT ![d] = [signer |-> c, made |-> calls[c].content]]
        row == IF won THEN inserted[d] ELSE certificates[d]
    IN
    /\ calls[c].pc = "sign"
    /\ \/ /\ certificates' = IF won THEN inserted ELSE certificates
          /\ returned' = returned \cup {<<d, row.signer>>}
          /\ Goto(c, "record")
       \/ /\ Maybe("error")
          /\ Return(c)
          /\ UNCHANGED <<certificates, returned>>
       \/ /\ Maybe("lost commit")
          /\ certificates' = IF won THEN inserted ELSE certificates
          /\ Return(c)
          /\ UNCHANGED returned
    /\ UNCHANGED <<objects, rows, audit, logged, next, changes,
                   harmed, abandoned>>

\* The event of a call, as a set: DOCUMENT_VERIFIED and CERTIFICATE_CREATED,
\* on which nothing below depends, are left out.
EventOf(call) ==
    CASE call.op = "upload" -> {<<"DOCUMENT_UPLOADED", call.id>>}
      [] call.op = "export" -> {<<"EVIDENCE_EXPORTED", call.id>>}
      [] call.op \in Checks /\ call.content = "damaged" ->
            {<<"DOCUMENT_INTEGRITY_FAILURE", call.doc>>}
      [] call.op = "redact" /\ call.content = "genuine" ->
            {<<"DOCUMENT_REDACTED", call.id>>}
      [] OTHER -> {}

\* Record does not report its failure.
RecordEvent(c) ==
    /\ calls[c].pc = "record"
    /\ \/ audit' = audit \cup EventOf(calls[c])
       \/ Maybe("error") /\ UNCHANGED audit
    /\ Return(c)
    /\ UNCHANGED <<objects, rows, certificates, logged, next, changes, ghosts>>

-----------------------------------------------------------------------------
(* The world                                                                *)

\* The process that serves the call dies, or the client goes away and every
\* later statement fails.
Crash(c) ==
    /\ Maybe("crash") /\ calls[c].pc # "idle"
    /\ abandoned' = abandoned \cup ({calls[c].id} \ {0})
    /\ Return(c)
    /\ UNCHANGED <<objects, rows, certificates, audit, logged, next, changes,
                   harmed, returned>>

\* Somebody with access to the bucket overwrites an object, or puts its bytes
\* back from a backup.
ChangeObject(i, bytes) ==
    /\ changes < MaxChanges
    /\ Stored(i) /\ objects[i] \notin {"missing", bytes}
    /\ objects' = [objects EXCEPT ![i] = bytes]
    /\ changes' = changes + 1
    /\ harmed' = harmed \cup {i}
    /\ UNCHANGED <<rows, certificates, audit, logged, calls, next,
                   abandoned, returned>>

Step(c) ==
    \/ UploadDocument(c)
    \/ \E op \in Checks \cup {"export"}, d \in Documents : GetByID(c, op, d)
    \/ FetchCertificate(c) \/ ReadObject(c) \/ Reconcile(c)
    \/ Put(c) \/ Insert(c) \/ Cleanup(c) \/ Sign(c) \/ RecordEvent(c)
    \/ Crash(c)

Next ==
    \/ \E c \in Calls : Step(c)
    \/ \E i \in Ids, bytes \in {"genuine", "damaged"} : ChangeObject(i, bytes)

Spec == Init /\ [][Next]_vars

-----------------------------------------------------------------------------
(* Properties                                                               *)

CallType ==
    [pc: {"idle", "get", "fetch", "reconcile", "put", "insert", "cleanup", "sign", "record"},
     op: Checks \cup {"none", "upload", "export"}, doc: Ids \cup {0},
     status: {"none", "ACTIVE", "TAMPERED"}, content: Bytes, id: Ids \cup {0}]

RowType == [kind: Kinds, source: Ids \cup {0}, made: {"genuine", "damaged"},
            status: {"ACTIVE", "TAMPERED", "COMPLETED"}]

\* The types of the variables; in particular a CASE of NewRow or EventOf
\* always applies and only documents have a status that changes.
TypeOK ==
    /\ objects \in [Ids -> Bytes]
    /\ \A i \in Ids : rows[i] \in RowType \cup {NoRow}
    /\ \A i \in Ids : rows[i].kind = "export" <=> rows[i].status = "COMPLETED"
    /\ certificates \in [Ids -> [signer: Calls \cup {None}, made: Bytes]]
    /\ logged \in SUBSET Ids /\ harmed \in SUBSET Ids /\ abandoned \in SUBSET Ids
    /\ calls \in [Calls -> CallType]
    /\ next \in 1..MaxObjects + 1 /\ changes \in 0..MaxChanges

\* A committed row refers to bytes that exist, and so does an audit event that
\* announces it (docs/STORAGE.md:108-110: never the reverse).  It takes the
\* cleanup of a failed INSERT, run against a row that was committed after all,
\* to break it, or a cleanup of another call's key.
RowHasObject ==
    \A i \in Ids :
       /\ Stored(i) => objects[i] # "missing"
       /\ (\E action \in {"DOCUMENT_UPLOADED", "DOCUMENT_REDACTED", "EVIDENCE_EXPORTED"} :
             <<action, i>> \in audit) => Stored(i)

\* Bytes that no row refers to belong to a call that is still running, were
\* reported for manual reconciliation, or were left by a crash or by one of
\* the calls that do not clean up (a redaction or an export whose Put failed,
\* an export whose Delete failed).
NoSilentOrphan ==
    \A i \in Ids :
       objects[i] # "missing" /\ ~Stored(i) =>
          i \in logged \cup abandoned \/ \E c \in Calls : calls[c].id = i

\* Neither a derivative nor a certificate is made from bytes that do not match
\* the hash of its document, whatever happens to the object in the meantime.
NothingFromDamagedBytes ==
    \A i \in Ids :
       /\ rows[i].kind = "derivative" => rows[i].made = "genuine"
       /\ certificates[i] # NoCertificate => certificates[i].made = "genuine"

\* Everyone who asks for the certificate of a document gets the same one, and
\* it is the one in the table, also when several calls created it at once.
CertificatesAgree ==
    \A certificate \in returned : certificates[certificate[1]].signer = certificate[2]

\* Only a document whose object was overwritten is ever marked or reported as
\* tampered with: an outage, a missing object or a half-written upload is not
\* an integrity failure.
NoFalseAccusation ==
    \A i \in Ids :
       rows[i].status = "TAMPERED" \/ <<"DOCUMENT_INTEGRITY_FAILURE", i>> \in audit =>
          i \in harmed

=============================================================================
