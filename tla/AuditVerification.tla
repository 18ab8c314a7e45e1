-------------------------- MODULE AuditVerification --------------------------
(***************************************************************************)
(* The audit-chain verification job: POST /audit/verify-chain inserts an   *)
(* audit_verifications row and enqueues an Asynq task; a worker scans the  *)
(* chain in batches and stores a verdict; readers turn silent rows into    *)
(* FAILED ones.  Callers, workers, readers and writers of the chain        *)
(* interleave; every database statement and every Redis call is a step,    *)
(* because each runs in a transaction of its own.                          *)
(*                                                                         *)
(* The chain is abstracted to its length and to the position of the first  *)
(* entry that does not verify (0: none); ChainVerifier says what makes an  *)
(* entry fail.  Time is abstracted to one bit per row: updated_at is or is *)
(* not older than the staleness threshold.                                 *)
(***************************************************************************)
EXTENDS Naturals

CONSTANTS
    Jobs,       \* verification ids
    Callers,    \* calls of StartVerification
    Workers,    \* concurrent task executions of the Asynq server
    Readers,    \* calls of GetVerification, ListVerifications, ...
    MaxRetry,   \* verifyAuditChainMaxRetry
    BatchSize,  \* defaultVerifyBatchSize
    MaxLen,     \* bound on the length of the chain
    None

ASSUME RetryAssumption == MaxRetry \in Nat
ASSUME BatchAssumption == BatchSize \in Nat \ {0}
ASSUME NoneAssumption == None \notin Jobs

VARIABLES
    row,        \* the audit_verifications table
    requestLen, \* history: the length of the chain when the row was created
    task,       \* the Asynq task of each verification
    retried,    \* its retry count
    caller,     \* StartVerification calls
    exec,       \* RunVerification executions
    reader,     \* the job a reader found stale, before MarkStale
    len,        \* committed entries of audit_log
    bad         \* the first entry that does not verify, 0 if all do

vars == <<row, requestLen, task, retried, caller, exec, reader, len, bad>>

Active == {"QUEUED", "RUNNING"}
Verdict == {"VERIFIED", "INTEGRITY_FAILURE"}
Terminal == Verdict \cup {"FAILED"}

NoRow == [status |-> "none", fresh |-> TRUE,
          checked |-> 0, failedSeq |-> 0, failureType |-> "none"]
Idle == [pc |-> "idle", job |-> None, cursor |-> 0, checked |-> 0,
         failed |-> FALSE]

ActiveRows == {v \in Jobs : row[v].status \in Active}

Init ==
    /\ row = [v \in Jobs |-> NoRow]
    /\ requestLen = [v \in Jobs |-> 0]
    /\ task = [v \in Jobs |-> "none"]
    /\ retried = [v \in Jobs |-> 0]
    /\ caller = [c \in Callers |-> [pc |-> "start", job |-> None]]
    /\ exec = [w \in Workers |-> Idle]
    /\ reader = [r \in Readers |-> None]
    /\ len \in 0..MaxLen
    /\ bad \in 0..len

-----------------------------------------------------------------------------
(* StartVerification *)

\* CreateAuditVerification: the unique index on active rows decides.  A
\* caller without permission, or a database error, ends here.
Create(c) ==
    /\ caller[c].pc = "start"
    /\ \/ /\ ActiveRows = {}
          /\ \E v \in Jobs :
                /\ row[v].status = "none"
                /\ row' = [row EXCEPT ![v].status = "QUEUED"]
                /\ requestLen' = [requestLen EXCEPT ![v] = len]
                /\ caller' = [caller EXCEPT ![c] = [pc |-> "enqueue", job |-> v]]
       \/ /\ ActiveRows # {}
          /\ caller' = [caller EXCEPT ![c].pc = "conflict"]
          /\ UNCHANGED <<row, requestLen>>
       \/ /\ caller' = [caller EXCEPT ![c].pc = "refused"]
          /\ UNCHANGED <<row, requestLen>>
    /\ UNCHANGED <<task, retried, exec, reader, len, bad>>

\* After the conflict the active row is read back; when the run ended in
\* between there is none and the caller gets an internal error.
GetActive(c) ==
    /\ caller[c].pc = "conflict"
    /\ \/ \E v \in ActiveRows :
             caller' = [caller EXCEPT ![c] = [pc |-> "record", job |-> v]]
       \/ /\ ActiveRows = {}
          /\ caller' = [caller EXCEPT ![c].pc = "vanished"]
    /\ UNCHANGED <<row, requestLen, task, retried, exec, reader, len, bad>>

\* EnqueueVerifyAuditChain.  It may fail before or after Redis has the
\* task, and the server may die here: the row stays.
Enqueue(c) ==
    /\ caller[c].pc = "enqueue"
    /\ \/ /\ task' = [task EXCEPT ![caller[c].job] = "pending"]
          /\ \E next \in {"record", "refused"} : caller' = [caller EXCEPT ![c].pc = next]
       \/ /\ caller' = [caller EXCEPT ![c].pc = "refused"]
          /\ UNCHANGED task
    /\ UNCHANGED <<row, requestLen, retried, exec, reader, len, bad>>

\* An audit event is appended, or lost: Record swallows its error.
RecordEvent == len' \in {len} \cup ({len + 1} \cap 0..MaxLen)

RecordRequested(c) ==
    /\ caller[c].pc = "record"
    /\ RecordEvent
    /\ caller' = [caller EXCEPT ![c].pc = "done"]
    /\ UNCHANGED <<row, requestLen, task, retried, exec, reader, bad>>

-----------------------------------------------------------------------------
(* The Asynq server: external.  A task runs on one worker at a time. *)

Dequeue(w) ==
    /\ exec[w].pc = "idle"
    /\ \E v \in Jobs :
        /\ task[v] \in {"pending", "retry"}
        /\ task' = [task EXCEPT ![v] = "active"]
        /\ exec' = [exec EXCEPT ![w] = [Idle EXCEPT !.pc = "count", !.job = v]]
    /\ UNCHANGED <<row, requestLen, retried, caller, reader, len, bad>>

\* The task goes back to the queue, or to the archive when its retries are
\* used up.
RetryOrArchive(v) ==
    IF retried[v] < MaxRetry
    THEN /\ task' = [task EXCEPT ![v] = "retry"]
         /\ retried' = [retried EXCEPT ![v] = @ + 1]
    ELSE /\ task' = [task EXCEPT ![v] = "archived"]
         /\ UNCHANGED retried

\* The worker dies, its lease or its deadline expires, or it shuts down and
\* requeues.  No error handler runs with a live context.
Abandon(w) ==
    /\ exec[w].pc # "idle"
    /\ exec' = [exec EXCEPT ![w] = Idle]
    /\ \/ RetryOrArchive(exec[w].job)
       \/ task' = [task EXCEPT ![exec[w].job] = "pending"] /\ UNCHANGED retried
    /\ UNCHANGED <<row, requestLen, caller, reader, len, bad>>

-----------------------------------------------------------------------------
(* RunVerification *)

Goto(w, pc) == exec' = [exec EXCEPT ![w].pc = pc]

Count(w) ==
    /\ exec[w].pc = "count"
    /\ Goto(w, "mark")
    /\ UNCHANGED <<row, requestLen, task, retried, caller, reader, len, bad>>

\* Mutants: the guard lets a redelivered task start over; the row is not
\* stamped.
MarkRunningAgain(w) ==
    LET v == exec[w].job IN
    /\ exec[w].pc = "mark"
    /\ IF row[v].status \in Active
       THEN /\ row' = [row EXCEPT ![v].status = "RUNNING", ![v].fresh = TRUE]
            /\ Goto(w, "scan")
       ELSE Goto(w, "nil") /\ UNCHANGED row
    /\ UNCHANGED <<requestLen, task, retried, caller, reader, len, bad>>

\* MarkAuditVerificationRunning, guarded by status = 'QUEUED'; no row means
\* the handler returns nil.
MarkRunning(w) ==
    LET v == exec[w].job IN
    /\ exec[w].pc = "mark"
    /\ IF row[v].status = "QUEUED"
       THEN /\ row' = [row EXCEPT ![v].status = "RUNNING", ![v].fresh = TRUE]
            /\ Goto(w, "scan")
       ELSE Goto(w, "nil") /\ UNCHANGED row
    /\ UNCHANGED <<requestLen, task, retried, caller, reader, len, bad>>

Least(m, n) == IF m < n THEN m ELSE n

\* UpdateAuditVerificationProgress, guarded by status = 'RUNNING'.
WithProgress(v, n) ==
    IF row[v].status = "RUNNING"
    THEN [row EXCEPT ![v].checked = n, ![v].fresh = TRUE]
    ELSE row

\* Mutant: the next batch starts one entry too late.
ScanBatchSkips(w) ==
    LET v    == exec[w].job
        from == exec[w].cursor
        to   == Least(from + BatchSize, len)
        hit  == bad \in (from + 1)..to
        n    == exec[w].checked + (IF hit THEN bad - 1 - from ELSE to - from)
        more == ~hit /\ to - from = BatchSize
    IN
    /\ exec[w].pc = "scan"
    /\ exec' = [exec EXCEPT ![w] =
                   [pc |-> IF more THEN "scan" ELSE "complete", job |-> v,
                    cursor |-> IF hit THEN bad ELSE Least(to + 1, len),
                    checked |-> n, failed |-> hit]]
    /\ row' = IF to = from THEN row ELSE WithProgress(v, n)
    /\ UNCHANGED <<requestLen, task, retried, caller, reader, len, bad>>

\* One round of verifyBatches: ListFromSeq, VerifyBatch, UpdateProgress.
ScanBatch(w) ==
    LET v    == exec[w].job
        from == exec[w].cursor
        to   == Least(from + BatchSize, len)
        hit  == bad \in (from + 1)..to
        n    == exec[w].checked + (IF hit THEN bad - 1 - from ELSE to - from)
        more == ~hit /\ to - from = BatchSize
    IN
    /\ exec[w].pc = "scan"
    /\ exec' = [exec EXCEPT ![w] =
                   [pc |-> IF more THEN "scan" ELSE "complete", job |-> v,
                    cursor |-> IF hit THEN bad ELSE to,
                    checked |-> n, failed |-> hit]]
    /\ row' = IF to = from THEN row ELSE WithProgress(v, n)
    /\ UNCHANGED <<requestLen, task, retried, caller, reader, len, bad>>

\* failure_type: none for VERIFIED; a cryptographic finding; or an operational
\* category.  "stale" stands for STALE_TIMEOUT, which only a reader writes.
FailureType(status) ==
    CASE status = "VERIFIED"          -> "none"
      [] status = "INTEGRITY_FAILURE" -> "finding"
      [] OTHER                        -> "operational"

\* CompleteAuditVerification has no guard on the current status.
Complete(v, status, n, seq) ==
    row' = [row EXCEPT ![v] = [@ EXCEPT !.status = status, !.fresh = TRUE,
                                        !.checked = n, !.failedSeq = seq,
                                        !.failureType = FailureType(status)]]

\* completeVerification; the reply may be lost.
CompleteVerification(w) ==
    LET x == exec[w] IN
    /\ x.pc = "complete"
    /\ IF x.failed THEN Complete(x.job, "INTEGRITY_FAILURE", x.checked, x.cursor)
                   ELSE Complete(x.job, "VERIFIED", x.checked, 0)
    /\ \E next \in {"record", "error"} : Goto(w, next)
    /\ UNCHANGED <<requestLen, task, retried, caller, reader, len, bad>>

RecordCompleted(w) ==
    /\ exec[w].pc = "record"
    /\ RecordEvent
    /\ Goto(w, "nil")
    /\ UNCHANGED <<row, requestLen, task, retried, caller, reader, bad>>

ReturnNil(w) ==
    /\ exec[w].pc = "nil"
    /\ task' = [task EXCEPT ![exec[w].job] = "completed"]
    /\ exec' = [exec EXCEPT ![w] = Idle]
    /\ UNCHANGED <<row, requestLen, retried, caller, reader, len, bad>>

\* A statement of RunVerification fails.
DatabaseError(w) ==
    /\ exec[w].pc \in {"count", "mark", "scan", "complete"}
    /\ Goto(w, "error")
    /\ UNCHANGED <<row, requestLen, task, retried, caller, reader, len, bad>>

-----------------------------------------------------------------------------
(* The error handler *)

\* isRetriesExhausted: before that the handler does nothing.
HandleError(w) ==
    /\ exec[w].pc = "error"
    /\ IF retried[exec[w].job] >= MaxRetry
       THEN Goto(w, "giveup") /\ UNCHANGED <<task, retried>>
       ELSE exec' = [exec EXCEPT ![w] = Idle] /\ RetryOrArchive(exec[w].job)
    /\ UNCHANGED <<row, requestLen, caller, reader, len, bad>>

\* Mutant: the status is not looked at.
ReadStatusUnchecked(w) ==
    /\ exec[w].pc = "giveup"
    /\ exec' = [exec EXCEPT ![w].pc = "fail",
                            ![w].checked = row[exec[w].job].checked]
    /\ UNCHANGED <<row, requestLen, task, retried, caller, reader, len, bad>>

\* MarkVerificationOperationallyFailed reads the row first ...
ReadStatus(w) ==
    /\ exec[w].pc = "giveup"
    /\ IF row[exec[w].job].status \in Active
       THEN /\ exec' = [exec EXCEPT ![w].pc = "fail",
                                    ![w].checked = row[exec[w].job].checked]
            /\ UNCHANGED <<task, retried>>
       ELSE exec' = [exec EXCEPT ![w] = Idle] /\ RetryOrArchive(exec[w].job)
    /\ UNCHANGED <<row, requestLen, caller, reader, len, bad>>

\* ... and then completes the row; if that fails the error is only logged.
MarkFailed(w) ==
    LET v == exec[w].job IN
    /\ exec[w].pc = "fail"
    /\ \/ Complete(v, "FAILED", exec[w].checked, 0)
       \/ UNCHANGED row
    /\ exec' = [exec EXCEPT ![w] = Idle]
    /\ RetryOrArchive(v)
    /\ UNCHANGED <<requestLen, caller, reader, len, bad>>

-----------------------------------------------------------------------------
(* Readers: reconcileStale *)

\* Mutant: only RUNNING rows can become stale.
FindStaleRunning(r) ==
    /\ reader[r] = None
    /\ \E v \in ActiveRows :
          /\ ~row[v].fresh /\ row[v].status = "RUNNING"
          /\ reader' = [reader EXCEPT ![r] = v]
    /\ UNCHANGED <<row, requestLen, task, retried, caller, exec, len, bad>>

\* The row is read and found older than its threshold ...
FindStale(r) ==
    /\ reader[r] = None
    /\ \E v \in ActiveRows : ~row[v].fresh /\ reader' = [reader EXCEPT ![r] = v]
    /\ UNCHANGED <<row, requestLen, task, retried, caller, exec, len, bad>>

\* ... and MarkAuditVerificationStale fails it if it is still active.
MarkStale(r) ==
    LET v == reader[r] IN
    /\ v # None
    /\ row' = IF row[v].status \in Active
              THEN [row EXCEPT ![v].status = "FAILED", ![v].fresh = TRUE,
                               ![v].failureType = "stale"]
              ELSE row
    /\ reader' = [reader EXCEPT ![r] = None]
    /\ UNCHANGED <<requestLen, task, retried, caller, exec, len, bad>>

-----------------------------------------------------------------------------
(* The environment *)

\* Nobody updates an active row for longer than its threshold.
GoSilent(v) ==
    /\ v \in ActiveRows /\ row[v].fresh
    /\ row' = [row EXCEPT ![v].fresh = FALSE]
    /\ UNCHANGED <<requestLen, task, retried, caller, exec, reader, len, bad>>

\* Other requests record audit events.
AppendEntry ==
    /\ len < MaxLen
    /\ len' = len + 1
    /\ UNCHANGED <<row, requestLen, task, retried, caller, exec, reader, bad>>

CallerStep(c) == Create(c) \/ GetActive(c) \/ Enqueue(c) \/ RecordRequested(c)
WorkerStep(w) ==
    \/ Dequeue(w) \/ Count(w) \/ MarkRunning(w) \/ ScanBatch(w)
    \/ CompleteVerification(w) \/ RecordCompleted(w) \/ ReturnNil(w)
    \/ HandleError(w) \/ ReadStatus(w) \/ MarkFailed(w)
ReaderStep(r) == FindStale(r) \/ MarkStale(r)

Next ==
    \/ \E c \in Callers : CallerStep(c)
    \/ \E w \in Workers : WorkerStep(w) \/ Abandon(w) \/ DatabaseError(w)
    \/ \E r \in Readers : ReaderStep(r)
    \/ \E v \in Jobs : GoSilent(v)
    \/ AppendEntry

Spec == Init /\ [][Next]_vars

\* A worker that is alive makes progress; a row that nobody updates becomes
\* old; and somebody keeps looking, as reconcileStale's comment relies on.
\* Nothing forces a worker to live.
Fairness ==
    /\ \A c \in Callers : WF_vars(CallerStep(c))
    /\ \A w \in Workers : WF_vars(WorkerStep(w))
    /\ \A r \in Readers : WF_vars(ReaderStep(r))
    /\ \A v \in Jobs : WF_vars(GoSilent(v))

FairSpec == Spec /\ Fairness
-----------------------------------------------------------------------------
TypeOK ==
    /\ row \in [Jobs -> [status : {"none"} \cup Active \cup Terminal,
                         fresh : BOOLEAN,
                         checked : Nat, failedSeq : Nat,
                         failureType : {"none", "finding", "operational", "stale"}]]
    /\ requestLen \in [Jobs -> Nat]
    /\ task \in [Jobs -> {"none", "pending", "active", "retry", "completed",
                          "archived"}]
    /\ retried \in [Jobs -> 0..MaxRetry]
    /\ caller \in [Callers -> [pc : {"start", "conflict", "enqueue", "record",
                                     "refused", "vanished", "done"},
                               job : Jobs \cup {None}]]
    /\ exec \in [Workers -> [pc : {"idle", "count", "mark", "scan", "complete",
                                   "record", "nil", "error", "giveup", "fail"},
                             job : Jobs \cup {None}, cursor : Nat,
                             checked : Nat, failed : BOOLEAN]]
    /\ reader \in [Readers -> Jobs \cup {None}]
    /\ len \in Nat
    /\ bad \in Nat

(***************************************************************************)
(* A verdict is the truth about the chain as it was when the run was       *)
(* requested: VERIFIED means that every entry of that time was checked and *)
(* is good, INTEGRITY_FAILURE names the first bad entry and counts the     *)
(* good ones before it, although entries are appended during the scan.     *)
(***************************************************************************)
VerdictSound ==
    \A v \in Jobs :
        /\ row[v].status = "VERIFIED" =>
              row[v].checked >= requestLen[v] /\ ~(bad \in 1..row[v].checked)
        /\ row[v].status = "INTEGRITY_FAILURE" =>
              bad > 0 /\ row[v].failedSeq = bad /\ row[v].checked = bad - 1

(***************************************************************************)
(* However often Asynq delivers the task, the chain is scanned for a run   *)
(* at most once: the number of entries that its row reports as checked     *)
(* never goes back, as a second scan of a redelivered task would make it.  *)
(***************************************************************************)
ScannedOnce ==
    [][\A v \in Jobs : row'[v].checked >= row[v].checked]_row

(***************************************************************************)
(* A verdict, once stored, is never changed by a retry, by the error       *)
(* handler or by a reader that found the row stale; no run that ended      *)
(* becomes active again; and a run that the error handler gave up stays    *)
(* FAILED.  What may be replaced is a reader's presumption that the worker *)
(* is dead: its STALE_TIMEOUT gives way to what a slow worker found.       *)
(***************************************************************************)
VerdictFinal ==
    [][\A v \in Jobs :
        /\ row[v].status \in Verdict => row'[v].status = row[v].status
        /\ row[v].status = "FAILED" => row'[v].status \in Terminal
        /\ row[v].status = "FAILED" /\ row[v].failureType # "stale" =>
              row'[v].status = "FAILED"]_row

(***************************************************************************)
(* What the comment on CompleteAuditVerification says of that statement:   *)
(* "Sets the terminal state exactly once".  The code does not keep it: a   *)
(* reader fails the row of a slow worker on its age alone, and the         *)
(* worker's unguarded UPDATE then sets a terminal state again.             *)
(***************************************************************************)
TerminalOnce ==
    [][\A v \in Jobs :
        row[v].status \in Terminal => row'[v].status = row[v].status]_row

(***************************************************************************)
(* A run never stays QUEUED or RUNNING for ever, whatever is lost: its     *)
(* task, its worker, or a statement (reconcileStale: "a failed job must    *)
(* not remain RUNNING forever").                                           *)
(***************************************************************************)
RunsSettle ==
    \A v \in Jobs : (row[v].status \in Active) ~> (row[v].status \in Terminal)
=============================================================================
