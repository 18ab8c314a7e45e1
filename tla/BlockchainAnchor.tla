--------------------------- MODULE BlockchainAnchor ---------------------------
(***************************************************************************)
(* The outbox between PostgreSQL and the Fabric ledger.  An upload or an   *)
(* export asks for an anchor: a PENDING row of blockchain_anchors and an   *)
(* Asynq task.  A worker submits the hash to the chaincode, which keeps    *)
(* one record for each document and version (the version is always 1), and *)
(* confirms the row.  A transaction that a worker no longer waits for may  *)
(* still be committed by the ordering service.                             *)
(*                                                                         *)
(* Faults (failing statements, timeouts, dead workers, dropped             *)
(* transactions) are counted and bounded.                                  *)
(***************************************************************************)
EXTENDS Integers, FiniteSets

CONSTANTS
    Documents,
    Workers,    \* concurrent task executions of the Asynq server
    MaxRetry,   \* blockchainAnchorMaxRetry
    MaxFaults,  \* bound on the number of faults
    None

ASSUME RetryAssumption == MaxRetry \in Nat
ASSUME FaultsAssumption == MaxFaults \in Nat

\* An anchor is named by the document and the event it is for.  The hash
\* that it carries is as unique as that: the document's own for an upload,
\* that of the watermarked copy for an export.
Events == {"DOCUMENT_UPLOADED", "EVIDENCE_EXPORTED"}
Anchors == Documents \X Events
DocumentOf(a) == a[1]
EventOf(a) == a[2]
HashOf(a) == a

ASSUME NoneAssumption == None \notin Anchors \cup Documents

VARIABLES
    row,        \* the blockchain_anchors table
    request,    \* CreateAnchorForDocument calls
    task,       \* the Asynq task of each anchor
    retried,    \* its retry count
    exec,       \* RunAnchor executions
    inflight,   \* endorsed transactions that are not ordered yet
    ledger,     \* the chaincode's record of each document, version 1
    announced,  \* anchors reported by BLOCKCHAIN_ANCHOR_CONFIRMED
    submitted,  \* number of transactions endorsed, and source of their ids
    latest,     \* the anchor of each document that was created last
    check,      \* a VerifyCandidate call behind the hashing of its bytes
    faults

vars == <<row, request, task, retried, exec, inflight, ledger, announced,
          submitted, latest, check, faults>>

NoRow == [status |-> "none", tx |-> 0, retryCount |-> 0]
NoRecord == [hash |-> None, tx |-> 0]
Idle == [pc |-> "idle", job |-> None, tx |-> 0]
NoVerdict == [doc |-> None, confirmed |-> FALSE, chain |-> "none",
              status |-> "none", onLedger |-> FALSE]

Init ==
    /\ row = [a \in Anchors |-> NoRow]
    /\ request = [a \in Anchors |-> "start"]
    /\ task = [a \in Anchors |-> "none"]
    /\ retried = [a \in Anchors |-> 0]
    /\ exec = [w \in Workers |-> Idle]
    /\ inflight = {}
    /\ ledger = [d \in Documents |-> NoRecord]
    /\ announced = {}
    /\ submitted = 0
    /\ latest = [d \in Documents |-> None]
    /\ check = NoVerdict
    /\ faults = 0

Fault == faults < MaxFaults /\ faults' = faults + 1

-----------------------------------------------------------------------------
(* CreateAnchorForDocument *)

\* Mutant: the table also takes exports, as the caller expects.
EventAllowedAll(event) == event \in Events

\* blockchain_anchors_event_type_check
EventAllowed(event) ==
    event \in {"DOCUMENT_UPLOADED", "DOCUMENT_REDACTED", "CERTIFICATE_ISSUED"}

\* Uploads and exports call this after they committed.  An error is logged,
\* no more.
CreateRow(a) ==
    /\ request[a] = "start"
    /\ \/ /\ EventAllowed(EventOf(a))
          /\ row' = [row EXCEPT ![a].status = "PENDING"]
          /\ request' = [request EXCEPT ![a] = "enqueue"]
          /\ latest' = [latest EXCEPT ![DocumentOf(a)] = a]
          /\ UNCHANGED faults
       \/ /\ ~EventAllowed(EventOf(a))
          /\ request' = [request EXCEPT ![a] = "done"]
          /\ UNCHANGED <<row, latest, faults>>
       \/ /\ Fault
          /\ request' = [request EXCEPT ![a] = "done"]
          /\ UNCHANGED <<row, latest>>
    /\ UNCHANGED <<task, retried, exec, inflight, ledger, announced,
                   submitted, check>>

Enqueue(a) ==
    /\ request[a] = "enqueue"
    /\ \/ task' = [task EXCEPT ![a] = "pending"] /\ UNCHANGED faults
       \/ Fault /\ UNCHANGED task
    /\ request' = [request EXCEPT ![a] = "done"]
    /\ UNCHANGED <<row, retried, exec, inflight, ledger, announced, submitted,
                   latest, check>>

-----------------------------------------------------------------------------
(* The Asynq server: external *)

Dequeue(w) ==
    /\ exec[w].pc = "idle"
    /\ \E a \in Anchors :
        /\ task[a] \in {"pending", "retry"}
        /\ task' = [task EXCEPT ![a] = "active"]
        /\ exec' = [exec EXCEPT ![w] = [pc |-> "load", job |-> a, tx |-> 0]]
    /\ UNCHANGED <<row, request, retried, inflight, ledger, announced,
                   submitted, faults, latest, check>>

\* Mutant: one retry fewer than MaxRetry.
RetryOrArchiveEarly(a) ==
    IF retried[a] + 1 < MaxRetry
    THEN /\ task' = [task EXCEPT ![a] = "retry"]
         /\ retried' = [retried EXCEPT ![a] = @ + 1]
    ELSE /\ task' = [task EXCEPT ![a] = "archived"]
         /\ UNCHANGED retried

RetryOrArchive(a) ==
    IF retried[a] < MaxRetry
    THEN /\ task' = [task EXCEPT ![a] = "retry"]
         /\ retried' = [retried EXCEPT ![a] = @ + 1]
    ELSE /\ task' = [task EXCEPT ![a] = "archived"]
         /\ UNCHANGED retried

\* The worker dies, shuts down, or its time is up.  What it submitted stays submitted.
Abandon(w) ==
    /\ exec[w].pc # "idle"
    /\ Fault
    /\ exec' = [exec EXCEPT ![w] = Idle]
    /\ \/ RetryOrArchive(exec[w].job)
       \/ task' = [task EXCEPT ![exec[w].job] = "pending"] /\ UNCHANGED retried
    /\ UNCHANGED <<row, request, inflight, ledger, announced, submitted,
                   latest, check>>

ReturnNil(w) ==
    /\ exec[w].pc = "nil"
    /\ task' = [task EXCEPT ![exec[w].job] = "completed"]
    /\ exec' = [exec EXCEPT ![w] = Idle]
    /\ UNCHANGED <<row, request, retried, inflight, ledger, announced,
                   submitted, faults, latest, check>>

-----------------------------------------------------------------------------
(* RunAnchor *)

Goto(w, pc) == exec' = [exec EXCEPT ![w].pc = pc]

\* The anchor and its document are loaded; a row that is no longer PENDING
\* ends the task.
Load(w) ==
    /\ exec[w].pc = "load"
    /\ \/ /\ Goto(w, IF row[exec[w].job].status = "PENDING" THEN "submit" ELSE "nil")
          /\ UNCHANGED faults
       \/ Fault /\ Goto(w, "error")
    /\ UNCHANGED <<row, request, task, retried, inflight, ledger, announced,
                   submitted, latest, check>>

\* The endorsed result of chaincode AnchorEvidence: the id of the existing
\* transaction, an error if its hash is another, or a write that waits to
\* be ordered.
Propose(w, a) ==
    /\ submitted' = submitted + 1
    /\ inflight' = inflight \cup {[doc |-> DocumentOf(a), hash |-> HashOf(a),
                                   tx |-> submitted + 1]}
    /\ exec' = [exec EXCEPT ![w].pc = "wait", ![w].tx = submitted + 1]

AnchorEvidence(w, a) ==
    LET record == ledger[DocumentOf(a)] IN
    IF record.hash = None
    THEN Propose(w, a)
    ELSE /\ exec' = [exec EXCEPT ![w] =
                        IF record.hash = HashOf(a)
                        THEN [@ EXCEPT !.pc = "confirm", !.tx = record.tx]
                        ELSE [@ EXCEPT !.pc = "increment"]]
         /\ UNCHANGED <<inflight, submitted>>

\* wrapFabricError makes ErrUnavailable of every error of AnchorEvidence:
\* it never says "evidence not found", so the branch of RunAnchor for
\* permanent errors is not reached.
Submit(w) ==
    /\ exec[w].pc = "submit"
    /\ \/ AnchorEvidence(w, exec[w].job) /\ UNCHANGED faults
       \/ Fault /\ Goto(w, "increment") /\ UNCHANGED <<inflight, submitted>>
    /\ UNCHANGED <<row, request, task, retried, ledger, announced, latest,
                   check>>

\* Mutant: a transaction that was ordered counts as valid.
AwaitCommitUnchecked(w) ==
    /\ exec[w].pc = "wait"
    /\ \/ /\ \A t \in inflight : t.tx # exec[w].tx
          /\ Goto(w, "confirm") /\ UNCHANGED faults
       \/ Fault /\ Goto(w, "increment")
    /\ UNCHANGED <<row, request, task, retried, inflight, ledger, announced,
                   submitted, latest, check>>

\* SubmitTransaction waits for the commit status.
AwaitCommit(w) ==
    /\ exec[w].pc = "wait"
    /\ \/ /\ ledger[DocumentOf(exec[w].job)].tx = exec[w].tx
          /\ Goto(w, "confirm") /\ UNCHANGED faults
       \/ /\ ledger[DocumentOf(exec[w].job)].tx # exec[w].tx
          /\ \A t \in inflight : t.tx # exec[w].tx
          /\ Goto(w, "increment") /\ UNCHANGED faults
       \/ Fault /\ Goto(w, "increment")
    /\ UNCHANGED <<row, request, task, retried, inflight, ledger, announced,
                   submitted, latest, check>>

\* incrementRetry, guarded by status = 'PENDING'; its error is only logged.
IncrementRetry(w) ==
    LET a == exec[w].job IN
    /\ exec[w].pc = "increment"
    /\ \/ /\ row' = IF row[a].status = "PENDING"
                    THEN [row EXCEPT ![a].retryCount = @ + 1] ELSE row
          /\ UNCHANGED faults
       \/ Fault /\ UNCHANGED row
    /\ Goto(w, "error")
    /\ UNCHANGED <<request, task, retried, inflight, ledger, announced,
                   submitted, latest, check>>

\* markConfirmed, guarded by status = 'PENDING'; its error is only logged.
MarkConfirmed(w) ==
    LET a == exec[w].job IN
    /\ exec[w].pc = "confirm"
    /\ \/ /\ row' = IF row[a].status = "PENDING"
                    THEN [row EXCEPT ![a].status = "CONFIRMED", ![a].tx = exec[w].tx]
                    ELSE row
          /\ UNCHANGED faults
       \/ Fault /\ UNCHANGED row
    /\ Goto(w, "announce")
    /\ UNCHANGED <<request, task, retried, inflight, ledger, announced,
                   submitted, latest, check>>

\* Record BLOCKCHAIN_ANCHOR_CONFIRMED and publish.
Announce(w) ==
    /\ exec[w].pc = "announce"
    /\ announced' = announced \cup {exec[w].job}
    /\ Goto(w, "nil")
    /\ UNCHANGED <<row, request, task, retried, inflight, ledger, submitted,
                   faults, latest, check>>

-----------------------------------------------------------------------------
(* The error handler *)

HandleError(w) ==
    /\ exec[w].pc = "error"
    /\ IF retried[exec[w].job] >= MaxRetry
       THEN Goto(w, "giveup") /\ UNCHANGED <<task, retried>>
       ELSE exec' = [exec EXCEPT ![w] = Idle] /\ RetryOrArchive(exec[w].job)
    /\ UNCHANGED <<row, request, inflight, ledger, announced, submitted,
                   faults, latest, check>>

\* FailBlockchainAnchor, guarded by status = 'PENDING' and by
\* blockchain_anchors_retry_count_check.
MarkFailed(a, retryCount) ==
    row' = IF row[a].status = "PENDING" /\ retryCount >= 0
           THEN [row EXCEPT ![a].status = "FAILED", ![a].retryCount = retryCount]
           ELSE row

\* MarkAnchorOperationallyFailed passes -1, and its error is discarded.
GiveUp(w) ==
    /\ exec[w].pc = "giveup"
    /\ MarkFailed(exec[w].job, -1)
    /\ exec' = [exec EXCEPT ![w] = Idle]
    /\ RetryOrArchive(exec[w].job)
    /\ UNCHANGED <<request, inflight, ledger, announced, submitted, faults,
                   latest, check>>

-----------------------------------------------------------------------------
(* VerifyCandidate: the bytes that are submitted, or the stored object, are *)
(* compared with the document's row and with the ledger.  The bytes were     *)
(* read and hashed before; they only matter when the status is resolved.     *)

Registered(d) == HashOf(<<d, "DOCUMENT_UPLOADED">>)    \* documents.sha256_hash
Files(d) == {Registered(d), HashOf(<<d, "EVIDENCE_EXPORTED">>), None}

Resolve(d, confirmed, chain, onChain) ==
    \E file \in Files(d) :
        check' = [doc |-> d, confirmed |-> confirmed, chain |-> chain,
                  onLedger |-> chain \in {"MATCH", "CHAIN_MISMATCH"} /\ file = onChain,
                  status |-> CASE file # Registered(d) -> "INTEGRITY_FAILURE"
                               [] file = Registered(d) /\ chain = "CHAIN_MISMATCH" -> chain
                               [] OTHER -> "VERIFIED"]

\* The latest anchor of the document.  Unless it is CONFIRMED, and when its
\* query fails (which is only logged), the document is not anchored; without
\* Fabric the ledger is unavailable.
FindAnchor ==
    /\ check.chain # "asked"
    /\ \E d \in Documents :
         \/ /\ latest[d] # None /\ row[latest[d]].status = "CONFIRMED"
            /\ check' = [NoVerdict EXCEPT !.doc = d, !.confirmed = TRUE, !.chain = "asked"]
         \/ \E chain \in {"NOT_ANCHORED", "UNAVAILABLE"} : Resolve(d, FALSE, chain, None)
    /\ UNCHANGED <<row, request, task, retried, exec, inflight, ledger,
                   announced,
                   submitted, latest, faults>>

\* VerifyEvidence: chaincode GetEvidence of version 1, compared with the row.
\* Any error but "evidence not found" counts as an outage.
VerifyEvidence ==
    LET onChain == ledger[check.doc].hash
        chain == IF onChain = None THEN "NOT_ANCHORED"
                 ELSE IF onChain = Registered(check.doc) THEN "MATCH" ELSE "CHAIN_MISMATCH"
    IN  /\ check.chain = "asked"
        /\ \/ Resolve(check.doc, TRUE, chain, onChain)
           \/ Resolve(check.doc, TRUE, "UNAVAILABLE", None)
        /\ UNCHANGED <<row, request, task, retried, exec, inflight, ledger, announced,
                       submitted, latest, faults>>

-----------------------------------------------------------------------------
(* The ordering service and the committing peers: external.  A write whose *)
(* key has been written since it was endorsed is not valid.                *)

CommitTransaction(t) ==
    /\ t \in inflight
    /\ inflight' = inflight \ {t}
    /\ ledger' = IF ledger[t.doc].hash = None
                 THEN [ledger EXCEPT ![t.doc] = [hash |-> t.hash, tx |-> t.tx]]
                 ELSE ledger
    /\ UNCHANGED <<row, request, task, retried, exec, announced, submitted,
                   faults, latest, check>>

DropTransaction(t) ==
    /\ t \in inflight /\ Fault
    /\ inflight' = inflight \ {t}
    /\ UNCHANGED <<row, request, task, retried, exec, ledger, announced,
                   submitted, latest, check>>

WorkerStep(w) ==
    \/ Dequeue(w) \/ Load(w) \/ Submit(w) \/ AwaitCommit(w) \/ IncrementRetry(w)
    \/ MarkConfirmed(w) \/ Announce(w) \/ ReturnNil(w) \/ HandleError(w) \/ GiveUp(w)
OrderingStep == \E t \in inflight : CommitTransaction(t)

Next ==
    \/ \E a \in Anchors : CreateRow(a) \/ Enqueue(a)
    \/ \E w \in Workers : WorkerStep(w) \/ Abandon(w)
    \/ OrderingStep
    \/ \E t \in inflight : DropTransaction(t)
    \/ FindAnchor \/ VerifyEvidence

Spec == Init /\ [][Next]_vars

\* A live worker goes on and an endorsed transaction is ordered.
FairSpec ==
    /\ Spec
    /\ \A w \in Workers : WF_vars(WorkerStep(w))
    /\ WF_vars(OrderingStep)
-----------------------------------------------------------------------------
TypeOK ==
    /\ row \in [Anchors -> [status : {"none", "PENDING", "CONFIRMED", "FAILED"},
                            tx : Nat, retryCount : Nat]]
    /\ request \in [Anchors -> {"start", "enqueue", "done"}]
    /\ task \in [Anchors -> {"none", "pending", "active", "retry", "completed",
                             "archived"}]
    /\ retried \in [Anchors -> 0..MaxRetry]
    /\ exec \in [Workers -> [pc : {"idle", "load", "submit", "wait", "increment",
                                   "confirm", "announce", "nil", "error", "giveup"},
                             job : Anchors \cup {None}, tx : Nat]]
    /\ inflight \subseteq [doc : Documents, hash : Anchors, tx : Nat]
    /\ ledger \in [Documents -> [hash : Anchors \cup {None}, tx : Nat]]
    /\ announced \subseteq Anchors
    /\ submitted \in Nat
    /\ latest \in [Documents -> Anchors \cup {None}]
    /\ check \in [doc : Documents \cup {None}, confirmed : BOOLEAN,
                 chain : {"none", "asked", "MATCH", "CHAIN_MISMATCH", "NOT_ANCHORED",
                          "UNAVAILABLE"},
                 status : {"none", "VERIFIED", "CHAIN_MISMATCH", "INTEGRITY_FAILURE"},
                 onLedger : BOOLEAN]
    /\ faults \in Nat

(***************************************************************************)
(* A CONFIRMED row tells the truth about the ledger: its hash is recorded  *)
(* there, under the transaction that the row names ("never a placeholder", *)
(* says the migration), whichever of several submissions got in.  The same *)
(* holds of an anchor that was announced as confirmed.                     *)
(***************************************************************************)
ConfirmedOnLedger ==
    \A a \in Anchors :
        /\ row[a].status = "CONFIRMED" =>
              ledger[DocumentOf(a)] = [hash |-> HashOf(a), tx |-> row[a].tx]
        /\ a \in announced => ledger[DocumentOf(a)].hash = HashOf(a)

(***************************************************************************)
(* The ledger accuses nobody wrongly.  Nobody changes the row of a         *)
(* document here, so that no verification may blame its row: neither by    *)
(* CHAIN_MISMATCH, nor because a file that the row disowns is the one on    *)
(* the ledger.  And the ledger knows every document whose anchor was read   *)
(* as CONFIRMED, although it is asked in a later step.                      *)
(***************************************************************************)
LedgerVerdictJust ==
    /\ check.status # "CHAIN_MISMATCH"
    /\ check.status = "INTEGRITY_FAILURE" => ~check.onLedger
    /\ check.confirmed => check.chain # "NOT_ANCHORED"

(***************************************************************************)
(* The task of an anchor survives as many faults as it has retries: once   *)
(* it is enqueued the hash reaches the ledger, whatever is lost on the     *)
(* way.                                                                    *)
(***************************************************************************)
OutboxDelivers ==
    \A a \in Anchors :
        (task[a] = "pending") ~>
            (ledger[DocumentOf(a)].hash = HashOf(a) \/ faults > MaxRetry)

(***************************************************************************)
(* When the retries are used up the row is FAILED (MarkAnchorOperationally *)
(* Failed: "Records the anchor as FAILED").  The code does not keep this:  *)
(* README, section 5.                                                      *)
(***************************************************************************)
GivenUpIsFailed ==
    [][\A w \in Workers :
         exec[w].pc = "giveup" /\ exec'[w].pc # "giveup"
           /\ faults' = faults
         => row'[exec[w].job].status # "PENDING"]_vars
=============================================================================
