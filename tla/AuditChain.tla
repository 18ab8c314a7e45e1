----------------------------- MODULE AuditChain -----------------------------
(***************************************************************************)
(* audit.ChainWriter: concurrent Record calls append hash-chained rows to  *)
(* the audit_log table.  Every call is a process that runs the loop of     *)
(* append: begin a transaction, take the advisory lock, read the chain     *)
(* head, hash, INSERT, COMMIT; on a unique violation of a chain index it   *)
(* rolls back and tries again, on any other error it gives the event up.   *)
(*                                                                         *)
(* The database is READ COMMITTED: a statement sees the rows committed     *)
(* when it starts; an INSERT whose unique key is held by an uncommitted    *)
(* row waits for that transaction; the identity column seq advances        *)
(* before the indexes are consulted and is never given back.               *)
(***************************************************************************)
EXTENDS Naturals, Sequences

CONSTANTS
    Events,         \* the Record calls, one per audit event
    LockedEvents,   \* the calls that take auditChainLockKey; in the code, all
    MaxAttempts     \* maxChainWriteAttempts

ASSUME LockedAssumption == LockedEvents \subseteq Events
ASSUME AttemptsAssumption == MaxAttempts \in Nat \ {0}

VARIABLES
    rows,       \* committed rows of audit_log
    nextSeq,    \* the identity sequence behind audit_log.seq
    lock,       \* holder of the advisory lock, a set of at most one call
    pc,         \* where each call is in append
    attempt,    \* the retry loop's counter
    head,       \* prevHash as read by GetLatest
    seqOf,      \* seq drawn by the current INSERT
    inserted    \* calls whose INSERT has run and is not committed yet

vars == <<rows, nextSeq, lock, pc, attempt, head, seqOf, inserted>>

\* prev_hash IS NULL: the genesis entry's predecessor.
NoPrev == <<>>

(***************************************************************************)
(* SHA-256 as a free constructor: the digest of an entry is the list of    *)
(* everything that went into it, its predecessor's digest first.  Two      *)
(* entries have the same digest only if they agree on every hashed field.  *)
(* seq is not hashed.                                                      *)
(***************************************************************************)
ComputeEntryHash(id, e, prev) == Append(prev, [id |-> id, event |-> e])

Ids == Events \X (1..MaxAttempts)
Hashes == Seq([id : Ids, event : Events])
Row == [id : Ids, seq : Nat, event : Events, prev : Hashes, hash : Hashes]

\* The row with the greatest seq: ORDER BY seq DESC LIMIT 1.
Latest(S) == CHOOSE r \in S : \A s \in S : s.seq <= r.seq

HeadOf(S) == IF S = {} THEN NoPrev ELSE Latest(S).hash

\* id is drawn by uuid.New in every attempt.
NewRow(e) ==
    LET id == <<e, attempt[e]>> IN
    [id |-> id, seq |-> seqOf[e], event |-> e, prev |-> head[e],
     hash |-> ComputeEntryHash(id, e, head[e])]

\* Mutant: the index on prev_hash is missing.
UniqueViolationNoPrevIndex(r, s) == r.hash = s.hash

\* Mutant: the index on the genesis row is missing.
UniqueViolationNoGenesisIndex(r, s) ==
    r.hash = s.hash \/ (r.prev = s.prev /\ r.prev # NoPrev)

\* idx_audit_log_prev_hash_unique, idx_audit_log_single_genesis (prev NULL)
\* and audit_log_hash_unique.
UniqueViolation(r, s) == r.prev = s.prev \/ r.hash = s.hash

InTransaction == {"lock", "read", "insert", "check", "commit"}

Init ==
    /\ rows = {}
    /\ nextSeq = 1
    /\ lock = {}
    /\ pc = [e \in Events |-> "idle"]
    /\ attempt = [e \in Events |-> 1]
    /\ head = [e \in Events |-> NoPrev]
    /\ seqOf = [e \in Events |-> 0]
    /\ inserted = {}

\* Record and the head of append: metadata that cannot be marshalled ends
\* the call before any transaction.
Record(e) ==
    /\ pc[e] = "idle"
    /\ \E next \in {"begin", "dropped"} : pc' = [pc EXCEPT ![e] = next]
    /\ UNCHANGED <<rows, nextSeq, lock, attempt, head, seqOf, inserted>>

\* WithTx: Begin and the two set_config calls.
Begin(e) ==
    /\ pc[e] = "begin"
    /\ pc' = [pc EXCEPT ![e] = "lock"]
    /\ UNCHANGED <<rows, nextSeq, lock, attempt, head, seqOf, inserted>>

\* pg_advisory_xact_lock: waits while another transaction holds the key.
AcquireChainLock(e) ==
    /\ pc[e] = "lock"
    /\ IF e \in LockedEvents THEN lock = {} /\ lock' = {e} ELSE UNCHANGED lock
    /\ pc' = [pc EXCEPT ![e] = "read"]
    /\ UNCHANGED <<rows, nextSeq, attempt, head, seqOf, inserted>>

\* GetLatestAuditEntry under the ADMIN identity, so every row is visible.
GetLatest(e) ==
    /\ pc[e] = "read"
    /\ head' = [head EXCEPT ![e] = HeadOf(rows)]
    /\ pc' = [pc EXCEPT ![e] = "insert"]
    /\ UNCHANGED <<rows, nextSeq, lock, attempt, seqOf, inserted>>

\* INSERT, first half: the identity column draws its value.
DrawSeq(e) ==
    /\ pc[e] = "insert"
    /\ seqOf' = [seqOf EXCEPT ![e] = nextSeq]
    /\ nextSeq' = nextSeq + 1
    /\ pc' = [pc EXCEPT ![e] = "check"]
    /\ UNCHANGED <<rows, lock, attempt, head, inserted>>

\* INSERT, second half: waits for an uncommitted row with the same key.
Insert(e) ==
    /\ pc[e] = "check"
    /\ \A r \in rows : ~UniqueViolation(NewRow(e), r)
    /\ \A f \in inserted : ~UniqueViolation(NewRow(e), NewRow(f))
    /\ inserted' = inserted \cup {e}
    /\ pc' = [pc EXCEPT ![e] = "commit"]
    /\ UNCHANGED <<rows, nextSeq, lock, attempt, head, seqOf>>

\* INSERT fails with SQLSTATE 23505 on a chain index (isChainConflict).
InsertConflict(e) ==
    /\ pc[e] = "check"
    /\ \E r \in rows : UniqueViolation(NewRow(e), r)
    /\ pc' = [pc EXCEPT ![e] = "conflict"]
    /\ UNCHANGED <<rows, nextSeq, lock, attempt, head, seqOf, inserted>>

\* COMMIT makes the row visible and releases the lock.  The answer may be
\* lost on the way back: the row is there and append returns an error.
Commit(e) ==
    /\ pc[e] = "commit"
    /\ rows' = rows \cup {NewRow(e)}
    /\ inserted' = inserted \ {e}
    /\ lock' = lock \ {e}
    /\ \E reply \in {"recorded", "failed"} : pc' = [pc EXCEPT ![e] = reply]
    /\ UNCHANGED <<nextSeq, attempt, head, seqOf>>

\* Any statement may fail with an error that is no chain conflict: the
\* context is cancelled, the connection is lost, the process dies.
Fail(e) ==
    /\ pc[e] \in {"begin"} \cup InTransaction
    /\ pc' = [pc EXCEPT ![e] = "failed"]
    /\ UNCHANGED <<rows, nextSeq, lock, attempt, head, seqOf, inserted>>

\* Mutant: every error is tried again.
RetryAnyError(e) == IF attempt[e] < MaxAttempts THEN "begin" ELSE "dropped"

\* Mutant: one attempt too many.
RetryOffByOne(e) ==
    IF pc[e] = "conflict" /\ attempt[e] <= MaxAttempts THEN "begin" ELSE "dropped"

\* append's loop: only a chain conflict is tried again, MaxAttempts times
\* in all.
AfterRollback(e) ==
    IF pc[e] = "conflict" /\ attempt[e] < MaxAttempts THEN "begin" ELSE "dropped"

\* Mutant: a session-scoped lock, which outlives the transaction.
RollbackKeepsLock(e) ==
    /\ pc[e] \in {"conflict", "failed"}
    /\ inserted' = inserted \ {e}
    /\ pc' = [pc EXCEPT ![e] = AfterRollback(e)]
    /\ attempt' = [attempt EXCEPT ![e] =
                      IF AfterRollback(e) = "begin" THEN @ + 1 ELSE @]
    /\ UNCHANGED <<rows, nextSeq, lock, head, seqOf>>

\* The session ends without COMMIT: deferred Rollback, or the server notices
\* that its client is gone.  The lock and the uncommitted row disappear.
Rollback(e) ==
    /\ pc[e] \in {"conflict", "failed"}
    /\ inserted' = inserted \ {e}
    /\ lock' = lock \ {e}
    /\ pc' = [pc EXCEPT ![e] = AfterRollback(e)]
    /\ attempt' = [attempt EXCEPT ![e] =
                      IF AfterRollback(e) = "begin" THEN @ + 1 ELSE @]
    /\ UNCHANGED <<rows, nextSeq, head, seqOf>>

Append1(e) ==
    \/ Begin(e) \/ AcquireChainLock(e) \/ GetLatest(e) \/ DrawSeq(e)
    \/ Insert(e) \/ InsertConflict(e) \/ Commit(e) \/ Rollback(e)

Next == \E e \in Events : Record(e) \/ Append1(e) \/ Fail(e)

Spec == Init /\ [][Next]_vars

\* Go schedules every goroutine and PostgreSQL grants its locks in order:
\* a statement that can complete does.  Nothing obliges a caller to record
\* an event, and no failure is certain.
FairSpec == Spec /\ \A e \in Events : WF_vars(Append1(e))
-----------------------------------------------------------------------------
TypeOK ==
    /\ rows \subseteq Row
    /\ nextSeq \in Nat
    /\ lock \subseteq LockedEvents
    /\ pc \in [Events -> {"idle", "begin", "conflict", "failed", "recorded",
                          "dropped"} \cup InTransaction]
    /\ attempt \in [Events -> 1..MaxAttempts]
    /\ head \in [Events -> Hashes]
    /\ seqOf \in [Events -> Nat]
    /\ inserted \subseteq Events

Earlier(r) == {s \in rows : s.seq < r.seq}

(***************************************************************************)
(* The chain is one line in seq order: every row names the hash of the row *)
(* just before it (none, for the first) and carries the digest of its own  *)
(* contents.  This is what audit.VerifyBatch accepts; no interleaving of   *)
(* writers, crash or lost reply may fork the chain or misplace a row, even *)
(* if some writer bypasses the advisory lock.                              *)
(***************************************************************************)
ChainIntact ==
    \A r \in rows :
        /\ r.prev = HeadOf(Earlier(r))
        /\ r.hash = ComputeEntryHash(r.id, r.event, r.prev)

(***************************************************************************)
(* append never writes an event twice, although it tries again after some  *)
(* errors and although an error may hide a COMMIT that took effect.        *)
(***************************************************************************)
RecordedOnce ==
    \A r, s \in rows : r.event = s.event => r = s

(***************************************************************************)
(* A Record call that was started ends: no writer waits for ever for the   *)
(* advisory lock or for another transaction's uncommitted row, whoever     *)
(* fails while holding them.                                               *)
(***************************************************************************)
RecordReturns ==
    \A e \in Events : (pc[e] = "begin") ~> (pc[e] \in {"recorded", "dropped"})

\* The chain as its readers see it.  The head's digest lists all entries.
Log == INSTANCE AppendOnlyLog WITH log <- HeadOf(rows)

(***************************************************************************)
(* Concurrent, failing and retrying writers implement one append-only log. *)
(***************************************************************************)
RefinesAppendOnlyLog == Log!Spec
=============================================================================
