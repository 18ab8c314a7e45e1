-------------------------- MODULE AuditChainProofs --------------------------
(***************************************************************************)
(* Proofs about the audit chain: its writers (AuditChain), for any set of  *)
(* Record calls, any number of attempts and any subset of calls that takes *)
(* the advisory lock, and then its verification (ChainVerifier).           *)
(***************************************************************************)
EXTENDS AuditChain, ChainVerifier, FiniteSetTheorems, TLAPS

\* A call between its head read and the end of its transaction.
HasHead(e) == pc[e] \in {"insert", "check", "commit"}

\* Every row was drawn from the identity sequence.
SeqInv ==
    /\ \A r \in rows : r.seq < nextSeq
    /\ \A e \in Events : seqOf[e] < nextSeq

\* A head that was read is still the head, or some row has claimed it.
HeadInv ==
    \A e \in Events : HasHead(e) =>
        head[e] = HeadOf(rows) \/ \E r \in rows : r.prev = head[e]

\* A call whose head is still the head drew its seq after every row.
OrderInv ==
    \A e \in Events :
        pc[e] \in {"check", "commit"} /\ head[e] = HeadOf(rows) =>
            \A r \in rows : r.seq < seqOf[e]

\* At most one uncommitted row exists, and it extends the head.
PendingInv ==
    /\ \A e \in Events : pc[e] = "commit" => e \in inserted
    /\ \A e \in inserted : /\ pc[e] \in {"commit", "failed"}
                           /\ head[e] = HeadOf(rows)
                           /\ \A r \in rows : r.prev # head[e]
    /\ \A e, f \in inserted : e = f

\* A call that may still write has written nothing yet.
OnceInv ==
    /\ \A r \in rows : pc[r.event] \in {"recorded", "failed", "dropped"}
    /\ \A r \in rows : r.event \notin inserted
    /\ RecordedOnce

\* The head exists: some row has the greatest seq.
HeadExists == rows # {} => \E r \in rows : \A s \in rows : s.seq <= r.seq

\* No row is longer than the head: the head is at the end of the line.
LengthInv == \A r \in rows : Len(r.hash) <= Len(HeadOf(rows))

\* The head's digest lists exactly the events of the rows.
LogInv ==
    \A e \in Events :
        (\E i \in DOMAIN HeadOf(rows) : HeadOf(rows)[i].event = e)
            => \E r \in rows : r.event = e

IInv == /\ TypeOK /\ SeqInv /\ HeadExists /\ HeadInv /\ OrderInv
        /\ LengthInv /\ PendingInv /\ OnceInv /\ ChainIntact /\ LogInv
-----------------------------------------------------------------------------
\* The row a call is about to write, field by field.
LEMMA NewRowFields ==
    ASSUME TypeOK, NEW e \in Events
    PROVE  /\ NewRow(e) \in Row
           /\ NewRow(e).id \in Ids
           /\ NewRow(e).seq = seqOf[e]
           /\ NewRow(e).event = e
           /\ NewRow(e).prev = head[e]
           /\ NewRow(e).hash = ComputeEntryHash(NewRow(e).id, e, head[e])
<1>1. <<e, attempt[e]>> \in Ids
  BY DEF TypeOK, Ids
<1>2. ComputeEntryHash(<<e, attempt[e]>>, e, head[e]) \in Hashes
  <2>1. [id |-> <<e, attempt[e]>>, event |-> e] \in [id : Ids, event : Events]
    BY <1>1
  <2>2. head[e] \in Seq([id : Ids, event : Events])
    BY DEF TypeOK, Hashes
  <2> QED
    BY <2>1, <2>2 DEF Hashes, ComputeEntryHash
<1> QED
  BY <1>1, <1>2 DEF NewRow, Row, TypeOK

\* The row with the greatest seq becomes the head.
LEMMA NewestIsHead ==
    ASSUME NEW S \in SUBSET Row, NEW r \in Row, \A s \in S : s.seq < r.seq
    PROVE  HeadOf(S \cup {r}) = r.hash
<1>1. \A s \in S \cup {r} : s.seq <= r.seq
  BY DEF Row
<1>2. \A t \in S \cup {r} : (\A s \in S \cup {r} : s.seq <= t.seq) => t = r
  BY DEF Row
<1>3. Latest(S \cup {r}) = r
  BY <1>1, <1>2 DEF Latest
<1> QED
  BY <1>3 DEF HeadOf

\* A digest is one entry longer than its predecessor's.
LEMMA HashLength ==
    ASSUME NEW id \in Ids, NEW e \in Events, NEW prev \in Hashes
    PROVE  /\ ComputeEntryHash(id, e, prev) \in Hashes
           /\ Len(prev) \in Nat
           /\ Len(ComputeEntryHash(id, e, prev)) = Len(prev) + 1
<1>1. [id |-> id, event |-> e] \in [id : Ids, event : Events]
  OBVIOUS
<1> QED
  BY <1>1 DEF ComputeEntryHash, Hashes

LEMMA HeadType ==
    ASSUME TypeOK, HeadExists
    PROVE  HeadOf(rows) \in Hashes
<1>1. CASE rows = {}
  BY <1>1 DEF HeadOf, NoPrev, Hashes
<1>2. CASE rows # {}
  <2>1. PICK r \in rows : \A s \in rows : s.seq <= r.seq
    BY <1>2 DEF HeadExists
  <2>2. Latest(rows) \in rows
    BY <2>1 DEF Latest
  <2> QED
    BY <2>2, <1>2 DEF HeadOf, TypeOK, Row
<1> QED
  BY <1>1, <1>2

LEMMA InitIInv == Init => IInv
<1> SUFFICES ASSUME Init PROVE IInv
  OBVIOUS
<1>1. NoPrev \in Hashes
  BY DEF NoPrev, Hashes
<1>2. TypeOK
  BY <1>1, AttemptsAssumption DEF Init, TypeOK, InTransaction
<1>3. LogInv
  BY DEF Init, LogInv, HeadOf, NoPrev
<1> QED
  BY <1>2, <1>3 DEF Init, IInv, SeqInv, HeadExists, HeadInv, HasHead, OrderInv,
     LengthInv, PendingInv, OnceInv, RecordedOnce, ChainIntact

\* Every action keeps the types.
LEMMA TypeStep ==
    ASSUME TypeOK, HeadExists, NEW e \in Events,
           Record(e) \/ Append1(e) \/ Fail(e)
    PROVE  TypeOK'
<1> USE DEF TypeOK, InTransaction
<1>1. CASE Record(e)
  BY <1>1 DEF Record
<1>2. CASE Begin(e)
  BY <1>2 DEF Begin
<1>3. CASE AcquireChainLock(e)
  BY <1>3 DEF AcquireChainLock
<1>4. CASE GetLatest(e)
  BY <1>4, HeadType DEF GetLatest
<1>5. CASE DrawSeq(e)
  BY <1>5 DEF DrawSeq
<1>6. CASE Insert(e)
  BY <1>6 DEF Insert
<1>7. CASE InsertConflict(e)
  BY <1>7 DEF InsertConflict
<1>8. CASE Commit(e)
  BY <1>8, NewRowFields DEF Commit
<1>9. CASE Fail(e)
  BY <1>9 DEF Fail
<1>10. CASE Rollback(e)
  BY <1>10, AttemptsAssumption DEF Rollback, AfterRollback
<1> QED
  BY <1>1, <1>2, <1>3, <1>4, <1>5, <1>6, <1>7, <1>8, <1>9, <1>10
     DEF Append1

\* A transaction commits on the head, with the greatest seq.
LEMMA CommitFacts ==
    ASSUME IInv, NEW e \in Events, Commit(e)
    PROVE  /\ head[e] = HeadOf(rows)
           /\ \A r \in rows : r.seq < seqOf[e]
           /\ \A r \in rows : r.prev # head[e] /\ r.event # e
           /\ inserted = {e}
           /\ HeadOf(rows)' = NewRow(e).hash
<1>1. e \in inserted /\ head[e] = HeadOf(rows)
  BY DEF IInv, PendingInv, Commit
<1>2. inserted = {e}
  BY <1>1 DEF IInv, PendingInv
<1>3. \A r \in rows : r.seq < seqOf[e]
  BY <1>1 DEF IInv, OrderInv, Commit
<1>4. \A r \in rows : r.prev # head[e] /\ r.event # e
  BY <1>1 DEF IInv, PendingInv, OnceInv
<1>5. HeadOf(rows \cup {NewRow(e)}) = NewRow(e).hash
  BY <1>3, NewestIsHead, NewRowFields DEF IInv, TypeOK
<1> QED
  BY <1>1, <1>2, <1>3, <1>4, <1>5 DEF Commit

\* Committing keeps every part of the invariant.
LEMMA CommitStep ==
    ASSUME IInv, NEW e \in Events, Commit(e)
    PROVE  IInv'
<1> USE CommitFacts, NewRowFields
<1> DEFINE n == NewRow(e)
<1>1. TypeOK /\ TypeOK'
  BY TypeStep DEF IInv, Append1
<1>2. /\ rows' = rows \cup {n}
      /\ n \in Row /\ n.seq = seqOf[e] /\ n.event = e /\ n.prev = head[e]
      /\ n.hash = ComputeEntryHash(n.id, e, head[e])
  BY <1>1 DEF Commit
<1>3. SeqInv'
  BY <1>1, <1>2 DEF IInv, SeqInv, Commit
<1>4. HeadExists'
  BY <1>1, <1>2 DEF HeadExists, Row, TypeOK
<1>5. HeadInv'
  <2> SUFFICES ASSUME NEW f \in Events, HasHead(f)'
               PROVE  \E r \in rows' : r.prev = head[f]'
    BY DEF HeadInv
  <2>1. f # e /\ HasHead(f) /\ head' = head
    BY <1>1 DEF Commit, HasHead, TypeOK
  <2>2. head[f] = head[e] \/ \E r \in rows : r.prev = head[f]
    BY <2>1 DEF IInv, HeadInv
  <2> QED BY <2>1, <2>2, <1>2
<1>6. /\ HeadOf(rows) \in Hashes /\ HeadOf(rows)' \in Hashes
      /\ Len(HeadOf(rows)) \in Nat
      /\ Len(HeadOf(rows)') = Len(HeadOf(rows)) + 1
  <2>1. HeadOf(rows) \in Hashes
    BY HeadType DEF IInv
  <2>2. HeadOf(rows)' = ComputeEntryHash(n.id, e, HeadOf(rows)) /\ n.id \in Ids
    BY <1>1, <1>2
  <2> QED
    BY <2>1, <2>2, HashLength
<1>7. \A r \in rows : /\ Len(r.prev) \in Nat /\ Len(r.hash) = Len(r.prev) + 1
                      /\ Len(r.prev) < Len(HeadOf(rows))
  <2> TAKE r \in rows
  <2>1. r.id \in Ids /\ r.event \in Events /\ r.prev \in Hashes
    BY <1>1 DEF TypeOK, Row
  <2>2. r.hash = ComputeEntryHash(r.id, r.event, r.prev)
    BY DEF IInv, ChainIntact
  <2>3. Len(r.prev) \in Nat /\ Len(r.hash) = Len(r.prev) + 1
    BY <2>1, <2>2, HashLength
  <2>4. Len(r.hash) <= Len(HeadOf(rows))
    BY DEF IInv, LengthInv
  <2> QED
    BY <2>3, <2>4, <1>6
<1>8. OrderInv'
  <2> SUFFICES ASSUME NEW f \in Events, (pc[f] \in {"check", "commit"})',
                      (head[f] = HeadOf(rows))'
               PROVE  FALSE
    BY DEF OrderInv
  <2>1. f # e /\ pc[f] \in {"check", "commit"} /\ head[f] = HeadOf(rows)'
    BY <1>1 DEF Commit, TypeOK
  <2>2. head[f] = HeadOf(rows) \/ \E r \in rows : r.prev = head[f]
    BY <2>1 DEF IInv, HeadInv, HasHead
  <2> QED
    BY <2>1, <2>2, <1>6, <1>7
<1>9. LengthInv'
  <2> SUFFICES ASSUME NEW r \in rows' PROVE Len(r.hash) <= Len(HeadOf(rows)')
    BY DEF LengthInv
  <2>1. CASE r = n
    BY <2>1, <1>6
  <2>2. CASE r \in rows
    BY <2>2, <1>6, <1>7
  <2> QED BY <2>1, <2>2, <1>2
<1>10. PendingInv'
  BY <1>1, <1>2 DEF IInv, PendingInv, Commit, TypeOK
<1>11. OnceInv'
  BY <1>1, <1>2 DEF IInv, OnceInv, RecordedOnce, Commit, TypeOK, Row
<1>12. ChainIntact'
  <2> SUFFICES ASSUME NEW r \in rows'
               PROVE  /\ r.prev = HeadOf(Earlier(r))'
                      /\ r.hash = ComputeEntryHash(r.id, r.event, r.prev)
    BY DEF ChainIntact
  <2>1. CASE r = n
    <3>1. Earlier(r)' = rows
      BY <2>1, <1>1, <1>2 DEF Earlier, Row, TypeOK
    <3> QED BY <3>1, <2>1, <1>2
  <2>2. CASE r \in rows
    <3>1. Earlier(r)' = Earlier(r)
      BY <2>2, <1>1, <1>2 DEF Earlier, Row, TypeOK
    <3> QED BY <3>1, <2>2 DEF IInv, ChainIntact
  <2> QED BY <2>1, <2>2, <1>2
<1>13. LogInv'
  <2> SUFFICES ASSUME NEW f \in Events, NEW i \in DOMAIN HeadOf(rows)',
                      HeadOf(rows)'[i].event = f
               PROVE  \E r \in rows' : r.event = f
    BY DEF LogInv
  <2>1. HeadOf(rows)' = Append(HeadOf(rows), [id |-> n.id, event |-> e])
    BY <1>2 DEF ComputeEntryHash
  <2>2. CASE i \in DOMAIN HeadOf(rows)
    BY <2>1, <2>2, <1>2, <1>6 DEF IInv, LogInv, Hashes
  <2>3. CASE i \notin DOMAIN HeadOf(rows)
    BY <2>1, <2>3, <1>2, <1>6 DEF Hashes
  <2> QED BY <2>2, <2>3
<1> QED
  BY <1>1, <1>3, <1>4, <1>5, <1>8, <1>9, <1>10, <1>11, <1>12, <1>13 DEF IInv

\* The other actions write no row, so only the caller's own state moves.
LEMMA OtherStep ==
    ASSUME IInv, NEW e \in Events,
           Record(e) \/ Append1(e) \/ Fail(e), ~Commit(e)
    PROVE  IInv'
<1>1. TypeOK /\ TypeOK' /\ rows' = rows
  BY TypeStep DEF IInv, Record, Append1, Begin, AcquireChainLock, GetLatest,
     DrawSeq, Insert, InsertConflict, Fail, Rollback
<1>2. HeadExists' /\ LengthInv' /\ ChainIntact' /\ LogInv' /\ RecordedOnce'
  BY <1>1 DEF IInv, HeadExists, LengthInv, ChainIntact, Earlier, LogInv,
     OnceInv, RecordedOnce
<1> USE DEF IInv, SeqInv, HeadInv, HasHead, OrderInv, PendingInv, OnceInv, TypeOK
<1>3. CASE Record(e)
  BY <1>1, <1>2, <1>3 DEF Record
<1>4. CASE Begin(e)
  BY <1>1, <1>2, <1>4 DEF Begin
<1>5. CASE AcquireChainLock(e)
  BY <1>1, <1>2, <1>5 DEF AcquireChainLock
<1>6. CASE GetLatest(e)
  BY <1>1, <1>2, <1>6 DEF GetLatest
<1>7. CASE DrawSeq(e)
  <2>1. SeqInv' /\ OrderInv'
    BY <1>1, <1>7 DEF DrawSeq, Row
  <2>2. HeadInv' /\ PendingInv' /\ OnceInv'
    BY <1>1, <1>2, <1>7 DEF DrawSeq
  <2> QED BY <1>1, <1>2, <2>1, <2>2
<1>8. CASE Insert(e)
  <2>1. SeqInv' /\ HeadInv' /\ OrderInv' /\ OnceInv'
    BY <1>1, <1>2, <1>8 DEF Insert
  <2>2. \A r \in rows : r.prev # head[e]
    BY <1>1, <1>8, NewRowFields DEF Insert, UniqueViolation
  <2>3. head[e] = HeadOf(rows)
    BY <2>2, <1>8 DEF Insert
  <2>4. inserted = {}
    BY <2>3, <1>1, <1>8, NewRowFields DEF Insert, UniqueViolation
  <2>5. PendingInv'
    BY <2>2, <2>3, <2>4, <1>1, <1>8 DEF Insert
  <2> QED BY <1>1, <1>2, <2>1, <2>5
<1>9. CASE InsertConflict(e)
  BY <1>1, <1>2, <1>9 DEF InsertConflict
<1>10. CASE Fail(e)
  BY <1>1, <1>2, <1>10 DEF Fail, InTransaction
<1>11. CASE Rollback(e)
  BY <1>1, <1>2, <1>11 DEF Rollback, AfterRollback
<1> QED
  BY <1>3, <1>4, <1>5, <1>6, <1>7, <1>8, <1>9, <1>10, <1>11 DEF Append1

LEMMA IInvStep == IInv /\ [Next]_vars => IInv'
<1>1. ASSUME IInv, NEW e \in Events, Record(e) \/ Append1(e) \/ Fail(e)
      PROVE  IInv'
  BY <1>1, CommitStep, OtherStep
<1>2. ASSUME IInv, UNCHANGED vars PROVE IInv'
  <2>1. TypeOK' /\ SeqInv' /\ HeadInv' /\ OrderInv' /\ PendingInv' /\ OnceInv'
    BY <1>2 DEF vars, IInv, TypeOK, SeqInv, HeadInv, HasHead, OrderInv,
       PendingInv, OnceInv, RecordedOnce
  <2>2. HeadExists' /\ LengthInv' /\ ChainIntact' /\ LogInv'
    BY <1>2 DEF vars, IInv, HeadExists, LengthInv, ChainIntact, Earlier, LogInv
  <2> QED BY <2>1, <2>2 DEF IInv
<1> QED
  BY <1>1, <1>2 DEF Next

LEMMA IInvHolds == Spec => []IInv
BY InitIInv, IInvStep, PTL DEF Spec

(***************************************************************************)
(* The variables of AuditChain always have their types.                    *)
(***************************************************************************)
THEOREM TypeCorrect == Spec => []TypeOK
BY IInvHolds, PTL DEF IInv

(***************************************************************************)
(* No interleaving of Record calls, retry, crash or lost COMMIT reply      *)
(* forks the chain or misplaces a row, even if writers bypass the lock:    *)
(* the unique indexes alone keep it one line.                              *)
(***************************************************************************)
THEOREM ChainNeverForks == Spec => []ChainIntact
BY IInvHolds, PTL DEF IInv

(***************************************************************************)
(* append's retries never write an event twice.                            *)
(***************************************************************************)
THEOREM NeverRecordedTwice == Spec => []RecordedOnce
BY IInvHolds, PTL DEF IInv, OnceInv

(***************************************************************************)
(* The chain of rows implements one append-only log of distinct events.    *)
(***************************************************************************)
THEOREM ImplementsAppendOnlyLog == Spec => RefinesAppendOnlyLog
<1>1. Init => Log!Init
  BY DEF Init, Log!Init, HeadOf, NoPrev
<1>2. ASSUME IInv, NEW e \in Events, Commit(e)
      PROVE  Log!Next
  <2>1. NewRow(e).id \in Ids
    BY <1>2, NewRowFields DEF IInv
  <2>2. HeadOf(rows)' = Append(HeadOf(rows), [id |-> NewRow(e).id, event |-> e])
    BY <1>2, CommitFacts, NewRowFields DEF IInv, ComputeEntryHash
  <2>3. e \notin Log!Logged
    BY <1>2, CommitFacts DEF IInv, LogInv, Log!Logged
  <2> QED
    BY <2>1, <2>2, <2>3 DEF Log!Next, Log!AppendEntry
<1>3. ASSUME NEW e \in Events, Record(e) \/ Append1(e) \/ Fail(e), ~Commit(e)
      PROVE  UNCHANGED HeadOf(rows)
  BY <1>3 DEF Record, Append1, Begin, AcquireChainLock, GetLatest, DrawSeq,
     Insert, InsertConflict, Fail, Rollback
<1>4. IInv /\ [Next]_vars => [Log!Next]_(HeadOf(rows))
  BY <1>2, <1>3 DEF Next, vars
<1> QED
  BY <1>1, <1>4, IInvHolds, PTL DEF Spec, RefinesAppendOnlyLog, Log!Spec

-----------------------------------------------------------------------------
(***************************************************************************)
(* The verification of the chain (ChainVerifier), for any size of a page.  *)
(***************************************************************************)

\* The places of a table up to s, and how many they are: the rank of row s.
UpTo(T, s) == {u \in DOMAIN T : u <= s}
Below(T, s) == {u \in DOMAIN T : u < s}
Rank(T, s) == Cardinality(UpTo(T, s))

\* Row s names the hash of row p, which is the one just before it.
Follows(T, s, p) ==
    /\ p < s /\ \A u \in Below(T, s) : u <= p
    /\ T[s].prev = T[p].hash

\* What VerifyBatch accepts, said without pages: the first row has no
\* predecessor, every other names the row before it.
Linked(T, s) ==
    \/ Below(T, s) = {} /\ T[s].prev = NoHash
    \/ \E p \in DOMAIN T : Follows(T, s, p)
Hashed(T, s) == T[s].hash = Hash(T[s].id, T[s].data, T[s].prev)
Sound(T, s) == Linked(T, s) /\ Hashed(T, s)

\* Row s is the entry that was recorded in its place.
Faithful(T, R, s) == Rank(T, s) \in DOMAIN R /\ T[s] = R[Rank(T, s)]

\* Every row is sound and faithful, and nothing is missing ...
Whole(T, R) ==
    /\ \A s \in DOMAIN T : Sound(T, s) /\ Faithful(T, R, s)
    /\ Len(R) = Cardinality(DOMAIN T)
\* ... or the first row that is not sound has nothing wrong before it, but
\* for the last k rows before it ...
BrokenAt(T, R, b, k) ==
    /\ ~Sound(T, b)
    /\ \A s \in Below(T, b) :
          Sound(T, s) /\ (Rank(T, s) < Rank(T, b) - k => Faithful(T, R, s))
\* ... or every row is sound, and faithful before position n.
SoundTo(T, R, n) ==
    \A s \in DOMAIN T : Sound(T, s) /\ (Rank(T, s) < n => Faithful(T, R, s))

\* The row of an entry that ChainWriter appended and nobody touched.
Genuine(T, s) ==
    /\ T[s] = [id |-> s, data |-> "recorded", prev |-> T[s].prev,
               hash |-> Hash(s, "recorded", T[s].prev)]

TableInv ==
    /\ sequence \in Nat \ {0}
    /\ DOMAIN table \subseteq 1..(sequence - 1)
    /\ table = [s \in DOMAIN table |-> table[s]]
    /\ recorded \in Seq({recorded[i] : i \in DOMAIN recorded})
    /\ tampered \in {"no", "yes", "cut", "rehashed"} /\ newest \in Nat

\* A row rewritten with its own hash is noticed at the row behind it.
Blind == IF tampered = "rehashed" THEN 1 ELSE 0

ContentInv ==
    /\ tampered = "no" => newest = 0 /\ \A s \in DOMAIN table : Genuine(table, s)
    /\ newest <= Cardinality(DOMAIN table) + 1
    /\ tampered = "rehashed" => newest <= Cardinality(DOMAIN table)
    /\ \/ Whole(table, recorded)
       \/ /\ tampered \in {"yes", "rehashed"}
          /\ \E b \in DOMAIN table :
                /\ BrokenAt(table, recorded, b, Blind)
                /\ tampered = "rehashed" => Rank(table, b) <= newest
       \/ /\ tampered \in {"cut", "rehashed"}
          /\ SoundTo(table, recorded, newest)

ScanInv ==
    /\ scan = [status |-> scan.status, cursor |-> scan.cursor, prev |-> scan.prev,
               checked |-> scan.checked, from |-> scan.from]
    /\ scan.status \in {"no", "RUNNING", "VERIFIED", "INTEGRITY_FAILURE"}
    /\ scan.status = "no" =>
         scan.cursor = 0 /\ scan.prev = NoHash /\ scan.checked = 0
    /\ scan.status # "no" =>
         /\ scan.from \in Nat /\ scan.from <= Cardinality(DOMAIN table)
         /\ newest <= scan.from + 1
         /\ tampered = "rehashed" => newest <= scan.from
    /\ scan.status \in {"RUNNING", "VERIFIED"} =>
         /\ \/ scan.cursor = 0 /\ scan.prev = NoHash
            \/ scan.cursor \in DOMAIN table /\ scan.prev = table[scan.cursor].hash
         /\ \A s \in UpTo(table, scan.cursor) : Sound(table, s)
         /\ scan.checked = Rank(table, scan.cursor)
    /\ scan.status = "VERIFIED" => scan.checked >= scan.from
    /\ scan.status = "INTEGRITY_FAILURE" =>
         /\ scan.cursor \in DOMAIN table /\ ~Sound(table, scan.cursor)
         /\ \A s \in Below(table, scan.cursor) : Sound(table, s)
         /\ scan.checked = Cardinality(Below(table, scan.cursor))

VerifierInv == TableInv /\ ContentInv /\ ScanInv
-----------------------------------------------------------------------------
(* Least and greatest elements, and ranks                                   *)

LEMMA LeastExists ==
    ASSUME NEW S, S \subseteq Nat, S # {}
    PROVE  \E m \in S : \A x \in S : m <= x
<1> DEFINE Segments == {1..x : x \in S}
           Smaller == StrictSubsetOrdering(Nat)
<1>1. Segments \subseteq FiniteSubsetsOf(Nat) /\ Segments # {}
    <2>1. \A x \in S : IsFiniteSet(1..x)
        BY FS_Interval
    <2>2. \A x \in S : 1..x \in SUBSET Nat
        OBVIOUS
    <2>3. QED BY <2>1, <2>2, Zenon DEF FiniteSubsetsOf
<1>2. \E I \in Segments : \A J \in Segments : ~ (<<J, I>> \in Smaller)
    <2> HIDE DEF Segments
    <2>1. QED BY <1>1, FS_StrictSubsetOrderingWellFounded, WFMin, Zenon
<1>3. PICK m \in S : \A x \in S : ~ (<<1..x, 1..m>> \in Smaller)
    BY <1>2, Zenon
<1>4. ASSUME NEW x \in S, x < m PROVE FALSE
    <2>1. 1..x \in SUBSET Nat /\ 1..m \in SUBSET Nat
        OBVIOUS
    <2>2. 1..x \subseteq 1..m /\ m \in 1..m /\ m \notin 1..x
        BY <1>4
    <2>3. <<1..x, 1..m>> \in Smaller
        BY <2>1, <2>2, Zenon DEF StrictSubsetOrdering
    <2>4. QED BY <2>3, <1>3
<1>5. QED BY <1>4

LEMMA GreatestExists ==
    ASSUME NEW n \in Nat, NEW S, S \subseteq 0..n, S # {}
    PROVE  \E m \in S : \A x \in S : x <= m
<1> DEFINE W == {n - x : x \in S}
<1>1. W \subseteq Nat /\ W # {}
    <2>1. \A x \in S : n - x \in Nat
        OBVIOUS
    <2>2. PICK x \in S : TRUE
        OBVIOUS
    <2>3. n - x \in W
        BY <2>2
    <2>4. QED BY <2>1, <2>3
<1>2. PICK w \in W : \A v \in W : w <= v
    BY <1>1, LeastExists, Zenon
<1>3. PICK m \in S : w = n - m
    BY <1>2
<1>4. \A x \in S : x <= m
    BY <1>2, <1>3
<1>5. QED BY <1>4

LEMMA MinIs ==
    ASSUME NEW S, S \subseteq Int, NEW m \in S, \A x \in S : m <= x
    PROVE  Min(S) = m
<1>1. \A k \in S : (\A x \in S : k <= x) => k = m
    OBVIOUS
<1>2. Min(S) \in S /\ \A x \in S : Min(S) <= x
    BY Zenon DEF Min
<1>3. QED BY <1>1, <1>2

LEMMA MaxIs ==
    ASSUME NEW S, S \subseteq Int, NEW m \in S, \A x \in S : x <= m
    PROVE  Max(S) = m
<1>1. \A k \in S : (\A x \in S : x <= k) => k = m
    OBVIOUS
<1>2. \A k \in S : k >= m <=> m <= k
    OBVIOUS
<1>3. \A x, k \in S : k >= x <=> x <= k
    OBVIOUS
<1>4. Max(S) \in S /\ \A x \in S : x <= Max(S)
    BY <1>3, Zenon DEF Max
<1>5. QED BY <1>1, <1>4

\* A table has finitely many rows, at natural places.
Places(T) == \E n \in Nat : DOMAIN T \subseteq 1..n

LEMMA PlacesAreFinite ==
    ASSUME NEW T, Places(T)
    PROVE  /\ DOMAIN T \subseteq Nat \ {0}
           /\ IsFiniteSet(DOMAIN T)
           /\ Cardinality(DOMAIN T) \in Nat
           /\ \A S \in SUBSET DOMAIN T : IsFiniteSet(S) /\ Cardinality(S) \in Nat
<1>1. PICK n \in Nat : DOMAIN T \subseteq 1..n
    BY DEF Places
<1>2. IsFiniteSet(1..n)
    BY FS_Interval
<1>3. IsFiniteSet(DOMAIN T)
    BY <1>1, <1>2, FS_Subset, Zenon
<1>4. \A S \in SUBSET DOMAIN T : IsFiniteSet(S)
    BY <1>3, FS_Subset, Zenon
<1>5. \A S \in SUBSET DOMAIN T : Cardinality(S) \in Nat
    BY <1>4, FS_CardinalityType, Zenon
<1>6. QED BY <1>1, <1>3, <1>4, <1>5

LEMMA RanksIncrease ==
    ASSUME NEW T, Places(T)
    PROVE  /\ \A s : Rank(T, s) \in Nat
           /\ \A s \in DOMAIN T : Rank(T, s) \in 1..Cardinality(DOMAIN T)
           /\ \A s, t \in DOMAIN T : s < t => Rank(T, s) < Rank(T, t)
<1> USE DEF Rank
<1>1. \A s : UpTo(T, s) \in SUBSET DOMAIN T
    BY DEF UpTo
<1>2. \A s : IsFiniteSet(UpTo(T, s)) /\ Rank(T, s) \in Nat
    BY <1>1, PlacesAreFinite, Zenon
<1>3. \A s : Rank(T, s) <= Cardinality(DOMAIN T)
    BY <1>1, PlacesAreFinite, FS_Subset, Zenon
<1>4. \A s \in DOMAIN T : Rank(T, s) # 0
    <2> TAKE s \in DOMAIN T
    <2>1. s \in UpTo(T, s)
        BY PlacesAreFinite DEF UpTo
    <2>2. QED BY <2>1, <1>2, FS_EmptySet
<1>5. \A s, t \in DOMAIN T : s < t => Rank(T, s) < Rank(T, t)
    <2> TAKE s, t \in DOMAIN T
    <2> HAVE s < t
    <2>1. UpTo(T, s) \in SUBSET UpTo(T, t) /\ UpTo(T, s) # UpTo(T, t)
        BY PlacesAreFinite DEF UpTo
    <2>2. Rank(T, s) <= Rank(T, t) /\ Rank(T, s) # Rank(T, t)
        BY <2>1, <1>2, FS_Subset, Zenon
    <2>3. QED BY <2>2, <1>2
<1>6. Cardinality(DOMAIN T) \in Nat
    BY PlacesAreFinite
<1>7. QED BY <1>2, <1>3, <1>4, <1>5, <1>6

\* The rank of a row counts the rows in front of it, and the row.
LEMMA RankBelow ==
    ASSUME NEW T, Places(T), NEW s \in DOMAIN T
    PROVE  /\ IsFiniteSet(Below(T, s)) /\ Cardinality(Below(T, s)) \in Nat
           /\ Rank(T, s) = Cardinality(Below(T, s)) + 1
<1>1. Below(T, s) \in SUBSET DOMAIN T
    BY DEF Below
<1>2. IsFiniteSet(Below(T, s)) /\ Cardinality(Below(T, s)) \in Nat
    BY <1>1, PlacesAreFinite
<1>3. UpTo(T, s) = Below(T, s) \cup {s} /\ s \notin Below(T, s)
    BY PlacesAreFinite DEF UpTo, Below
<1>4. QED BY <1>2, <1>3, FS_AddElement DEF Rank

-----------------------------------------------------------------------------
(* What a row's verdict depends on                                          *)

LEMMA PlacesOfTable ==
    ASSUME TableInv
    PROVE  Places(table) /\ \A n : n \in DOMAIN table => n \in 1..(sequence - 1)
BY DEF TableInv, Places

\* Only the rows up to s say whether row s is sound and faithful.
LEMMA SamePrefix ==
    ASSUME NEW T, NEW V, Places(T), Places(V), NEW s \in DOMAIN T,
           UpTo(V, s) = UpTo(T, s), \A u \in UpTo(T, s) : V[u] = T[u]
    PROVE  /\ s \in DOMAIN V
           /\ Below(V, s) = Below(T, s)
           /\ Rank(V, s) = Rank(T, s)
           /\ Sound(V, s) <=> Sound(T, s)
           /\ \A R : Faithful(V, R, s) <=> Faithful(T, R, s)
<1>1. s \in UpTo(T, s) /\ s \in DOMAIN V
    BY PlacesAreFinite DEF UpTo
<1>2. Below(T, s) = UpTo(T, s) \ {s} /\ Below(V, s) = UpTo(V, s) \ {s}
    BY PlacesAreFinite DEF UpTo, Below
<1>3. Below(V, s) = Below(T, s) /\ V[s] = T[s]
    BY <1>1, <1>2
<1>4. \A p : Follows(V, s, p) /\ p \in DOMAIN V <=> Follows(T, s, p) /\ p \in DOMAIN T
    <2>1. \A p : p \in DOMAIN V /\ p < s <=> p \in Below(V, s)
        BY DEF Below
    <2>2. \A p : p \in DOMAIN T /\ p < s <=> p \in Below(T, s)
        BY DEF Below
    <2>3. \A p \in Below(T, s) : V[p] = T[p]
        BY <1>2
    <2>4. QED BY <2>1, <2>2, <2>3, <1>3, Zenon DEF Follows
<1>5. Linked(V, s) <=> Linked(T, s)
    BY <1>3, <1>4, Zenon DEF Linked
<1>6. Rank(V, s) = Rank(T, s)
    BY DEF Rank
<1>7. QED BY <1>1, <1>3, <1>5, <1>6, Zenon DEF Sound, Hashed, Faithful

\* The predecessor of a row is unique.
LEMMA OnePredecessor ==
    ASSUME NEW T, Places(T), NEW s \in DOMAIN T, NEW p \in Below(T, s),
           \A u \in Below(T, s) : u <= p
    PROVE  Linked(T, s) <=> T[s].prev = T[p].hash
<1>1. \A q \in DOMAIN T : q < s /\ (\A u \in Below(T, s) : u <= q) => q = p
    BY PlacesAreFinite DEF Below
<1>2. p \in DOMAIN T /\ p < s /\ Below(T, s) # {}
    BY DEF Below
<1>3. QED BY <1>1, <1>2, Zenon DEF Linked, Follows

LEMMA NoPredecessor ==
    ASSUME NEW T, NEW s, Below(T, s) = {}
    PROVE  Linked(T, s) <=> T[s].prev = NoHash
<1>1. \A p \in DOMAIN T : ~Follows(T, s, p)
    BY DEF Follows, Below
<1>2. QED BY <1>1, Zenon DEF Linked

\* The first row behind a place.
LEMMA NextRow ==
    ASSUME NEW T, Places(T), NEW s \in Nat, NEW w \in DOMAIN T, s < w
    PROVE  \E u \in DOMAIN T : s < u /\ \A v \in DOMAIN T : v <= s \/ u <= v
<1> DEFINE Later == {v \in DOMAIN T : s < v}
<1>1. Later \subseteq Nat /\ Later # {} /\ DOMAIN T \subseteq Nat
    BY PlacesAreFinite
<1>2. PICK u \in Later : \A v \in Later : u <= v
    BY <1>1, LeastExists, Zenon
<1>3. QED BY <1>1, <1>2

LEMMA PredecessorExists ==
    ASSUME NEW T, Places(T), NEW s, Below(T, s) # {}
    PROVE  \E p \in Below(T, s) : \A u \in Below(T, s) : u <= p
<1>1. PICK n \in Nat : DOMAIN T \subseteq 1..n
    BY DEF Places
<1>2. Below(T, s) \subseteq 0..n
    BY <1>1 DEF Below
<1>3. QED BY <1>2, GreatestExists, Zenon

-----------------------------------------------------------------------------
(* Appending                                                                *)

LEMMA InitInvariant == VerifierInit => VerifierInv
<1> SUFFICES ASSUME VerifierInit PROVE VerifierInv
    OBVIOUS
<1>1. table = <<>> /\ recorded = <<>> /\ DOMAIN table = {} /\ DOMAIN recorded = {}
    BY DEF VerifierInit
<1>2. TableInv
    BY <1>1 DEF VerifierInit, TableInv
<1>3. Cardinality(DOMAIN table) = 0 /\ Len(recorded) = 0
    BY <1>1, FS_EmptySet
<1>4. ContentInv
    <2>1. tampered = "no" /\ newest = 0
        BY DEF VerifierInit
    <2>2. Whole(table, recorded)
        BY <1>1, <1>3 DEF Whole
    <2>3. newest <= Cardinality(DOMAIN table) + 1
        BY <1>3, <2>1
    <2>4. QED BY <1>1, <2>1, <2>2, <2>3 DEF ContentInv
<1>5. ScanInv
    BY DEF VerifierInit, ScanInv
<1>6. QED BY <1>2, <1>4, <1>5 DEF VerifierInv

\* The head is the row that the new one follows.
LEMMA HeadIsLast ==
    ASSUME TableInv
    PROVE  \/ DOMAIN table = {} /\ HeadHash = NoHash
           \/ \E p \in DOMAIN table : /\ \A u \in DOMAIN table : u <= p
                                      /\ HeadHash = table[p].hash
                                      /\ p = Max(DOMAIN table)
<1>1. DOMAIN table \subseteq 0..(sequence - 1) /\ sequence - 1 \in Nat
    BY DEF TableInv
<1>2. CASE DOMAIN table = {}
    <2>1. table = <<>>
        BY <1>2 DEF TableInv
    <2>2. QED BY <1>2, <2>1 DEF HeadHash
<1>3. CASE DOMAIN table # {}
    <2>1. PICK p \in DOMAIN table : \A u \in DOMAIN table : u <= p
        BY <1>1, <1>3, GreatestExists
    <2>2. Max(DOMAIN table) = p
        BY <1>1, <2>1, MaxIs
    <2>3. table # <<>>
        BY <1>3
    <2>4. QED BY <2>1, <2>2, <2>3 DEF HeadHash
<1>4. QED BY <1>2, <1>3

\* A new row at the end leaves the others as they were.
LEMMA AppendedRow ==
    ASSUME TableInv, AppendEntry
    PROVE  /\ TableInv'
           /\ sequence \notin DOMAIN table /\ DOMAIN table' = DOMAIN table \cup {sequence}
           /\ \A s \in DOMAIN table : s < sequence /\ table'[s] = table[s]
           /\ table'[sequence] = NewEntry
           /\ \A s \in DOMAIN table : UpTo(table', s) = UpTo(table, s)
           /\ Cardinality(DOMAIN table') = Cardinality(DOMAIN table) + 1
           /\ Rank(table', sequence) = Cardinality(DOMAIN table) + 1
<1> USE DEF AppendEntry, With
<1>1. sequence \notin DOMAIN table /\ DOMAIN table' = DOMAIN table \cup {sequence}
    BY DEF TableInv
<1>2. \A s \in DOMAIN table : s < sequence /\ table'[s] = table[s]
    BY DEF TableInv
<1>3. table'[sequence] = NewEntry
    OBVIOUS
<1>4. TableInv'
    <2>1. sequence' \in Nat \ {0} /\ DOMAIN table' \subseteq 1..(sequence' - 1)
        BY <1>1 DEF TableInv
    <2>2. table' = [s \in DOMAIN table' |-> table'[s]]
        BY <1>1
    <2>3. recorded' \in Seq({recorded'[i] : i \in DOMAIN recorded'})
        <3> DEFINE A == {recorded[i] : i \in DOMAIN recorded} \cup {NewEntry}
        <3>1. recorded \in Seq(A) /\ NewEntry \in A
            BY DEF TableInv
        <3>2. recorded' \in Seq(A)
            BY <3>1
        <3>3. QED BY <3>2
    <2>4. QED BY <2>1, <2>2, <2>3 DEF TableInv
<1>5. \A s \in DOMAIN table : UpTo(table', s) = UpTo(table, s)
    BY <1>1, <1>2 DEF UpTo, TableInv
<1>6. UpTo(table', sequence) = DOMAIN table'
    BY <1>1, <1>2 DEF UpTo, TableInv
<1>7. Cardinality(DOMAIN table') = Cardinality(DOMAIN table) + 1
    BY <1>1, PlacesOfTable, PlacesAreFinite, FS_AddElement
<1>8. QED BY <1>1, <1>2, <1>3, <1>4, <1>5, <1>6, <1>7 DEF Rank

LEMMA AppendedPrefix ==
    ASSUME TableInv, AppendEntry, NEW s \in DOMAIN table
    PROVE  /\ Below(table', s) = Below(table, s)
           /\ UpTo(table', s) = UpTo(table, s)
           /\ Rank(table', s) = Rank(table, s)
           /\ Sound(table', s) <=> Sound(table, s)
           /\ \A R : Faithful(table', R, s) <=> Faithful(table, R, s)
<1>1. Places(table) /\ Places(table') /\ TableInv'
    BY AppendedRow, PlacesOfTable DEF TableInv, Places
<1>2. UpTo(table', s) = UpTo(table, s)
    BY AppendedRow
<1>3. \A u \in UpTo(table, s) : table'[u] = table[u]
    BY AppendedRow DEF UpTo
<1>4. QED BY <1>1, <1>2, <1>3, SamePrefix

\* What was faithful remains so when the history grows.
LEMMA HistoryGrows ==
    ASSUME TableInv, NEW e, NEW T, NEW s, Faithful(T, recorded, s)
    PROVE  Faithful(T, Append(recorded, e), s)
<1>1. recorded \in Seq({recorded[i] : i \in DOMAIN recorded})
    BY DEF TableInv
<1>2. \A i \in DOMAIN recorded : /\ i \in DOMAIN Append(recorded, e)
                                 /\ Append(recorded, e)[i] = recorded[i]
    BY <1>1
<1>3. QED BY <1>2 DEF Faithful

LEMMA AppendSound ==
    ASSUME TableInv, AppendEntry
    PROVE  Sound(table', sequence) /\ Genuine(table', sequence)
<1>1. table'[sequence] = NewEntry /\ sequence \in DOMAIN table' /\ Places(table')
    BY AppendedRow, PlacesOfTable DEF TableInv, Places
<1>2. Genuine(table', sequence) /\ Hashed(table', sequence)
    BY <1>1 DEF NewEntry, Genuine, Hashed
<1>3. Below(table', sequence) = DOMAIN table
    <2>1. /\ DOMAIN table' = DOMAIN table \cup {sequence} /\ sequence \notin DOMAIN table
          /\ \A s \in DOMAIN table : s < sequence
        BY AppendedRow
    <2>2. ~ (sequence < sequence)
        BY DEF TableInv
    <2>3. QED BY <2>1, <2>2 DEF Below
<1>4. Linked(table', sequence)
    <2>1. CASE DOMAIN table = {} /\ HeadHash = NoHash
        BY <2>1, <1>1, <1>3 DEF Linked, NewEntry
    <2>2. ASSUME NEW p \in DOMAIN table, \A u \in DOMAIN table : u <= p,
                 HeadHash = table[p].hash
          PROVE  Linked(table', sequence)
        <3>1. table'[p] = table[p] /\ p < sequence /\ p \in DOMAIN table'
            BY AppendedRow
        <3>2. Follows(table', sequence, p)
            BY <2>2, <3>1, <1>1, <1>3 DEF Follows, NewEntry
        <3>3. QED BY <3>1, <3>2 DEF Linked
    <2>3. QED BY <2>1, <2>2, HeadIsLast
<1>5. QED BY <1>2, <1>4 DEF Sound

LEMMA AppendContent ==
    ASSUME TableInv, ContentInv, AppendEntry
    PROVE  ContentInv'
<1>1. /\ DOMAIN table' = DOMAIN table \cup {sequence}
      /\ tampered' = tampered /\ newest' = newest
      /\ recorded' = Append(recorded, NewEntry)
      /\ \A s \in DOMAIN table : table'[s] = table[s]
      /\ table'[sequence] = NewEntry
    BY AppendedRow DEF AppendEntry
<1>2. \A s \in DOMAIN table :
        /\ Sound(table, s) => Sound(table', s)
        /\ Faithful(table, recorded, s) => Faithful(table', recorded', s)
    BY <1>1, AppendedPrefix, HistoryGrows
<1>3. tampered' = "no" => newest' = 0 /\ \A s \in DOMAIN table' : Genuine(table', s)
    BY <1>1, AppendSound DEF ContentInv, Genuine
<1>4. /\ Cardinality(DOMAIN table) \in Nat /\ newest \in Nat
      /\ Cardinality(DOMAIN table') = Cardinality(DOMAIN table) + 1
      /\ Rank(table', sequence) = Cardinality(DOMAIN table) + 1
      /\ \A s \in DOMAIN table : Rank(table', s) = Rank(table, s)
    BY PlacesOfTable, PlacesAreFinite, AppendedRow, AppendedPrefix DEF TableInv
<1>5. ASSUME Whole(table, recorded) PROVE Whole(table', recorded')
    <2>1. Len(recorded') = Len(recorded) + 1 /\ recorded'[Len(recorded) + 1] = NewEntry
          /\ Len(recorded) + 1 \in DOMAIN recorded'
        BY <1>1 DEF TableInv
    <2>2. Rank(table', sequence) = Len(recorded) + 1
        BY <1>5, AppendedRow DEF Whole
    <2>3. Faithful(table', recorded', sequence)
        BY <1>1, <2>1, <2>2 DEF Faithful
    <2>4. Len(recorded') = Cardinality(DOMAIN table')
        BY <1>5, <2>1, AppendedRow DEF Whole
    <2>5. QED BY <1>1, <1>2, <1>5, <2>3, <2>4, AppendSound DEF Whole
<1>6. ASSUME NEW b \in DOMAIN table, NEW k \in {0, 1}, BrokenAt(table, recorded, b, k)
      PROVE  b \in DOMAIN table' /\ BrokenAt(table', recorded', b, k)
    <2>1. Below(table', b) = Below(table, b) /\ ~Sound(table', b)
        BY <1>6, AppendedPrefix DEF BrokenAt
    <2>2. \A s \in Below(table, b) : s \in DOMAIN table
        BY DEF Below
    <2>3. QED BY <1>1, <1>2, <1>4, <1>6, <2>1, <2>2 DEF BrokenAt
<1>7. ASSUME SoundTo(table, recorded, newest)
      PROVE  SoundTo(table', recorded', newest)
    <2>1. ~(Rank(table', sequence) < newest)
        BY <1>4 DEF ContentInv
    <2>2. QED BY <1>1, <1>2, <1>4, <1>7, <2>1, AppendSound DEF SoundTo
<1>8. newest' <= Cardinality(DOMAIN table') + 1
      /\ (tampered' = "rehashed" => newest' <= Cardinality(DOMAIN table'))
    BY <1>1, <1>4 DEF ContentInv
<1>9. Blind' = Blind /\ Blind \in {0, 1}
    BY <1>1 DEF Blind
<1>10. \/ Whole(table', recorded')
       \/ /\ tampered' \in {"yes", "rehashed"}
          /\ \E b \in DOMAIN table' :
                /\ BrokenAt(table', recorded', b, Blind')
                /\ tampered' = "rehashed" => Rank(table', b) <= newest'
       \/ /\ tampered' \in {"cut", "rehashed"}
          /\ SoundTo(table', recorded', newest')
    <2>1. CASE Whole(table, recorded)
        BY <1>5, <2>1
    <2>2. ASSUME tampered \in {"yes", "rehashed"}, NEW b \in DOMAIN table,
                 BrokenAt(table, recorded, b, Blind),
                 tampered = "rehashed" => Rank(table, b) <= newest
          PROVE  \E c \in DOMAIN table' :
                    /\ BrokenAt(table', recorded', c, Blind')
                    /\ tampered' = "rehashed" => Rank(table', c) <= newest'
        BY <1>1, <1>4, <1>6, <1>9, <2>2
    <2>3. CASE tampered \in {"cut", "rehashed"} /\ SoundTo(table, recorded, newest)
        BY <1>1, <1>7, <2>3
    <2>4. QED BY <1>1, <2>1, <2>2, <2>3 DEF ContentInv
<1>11. QED BY <1>3, <1>8, <1>10 DEF ContentInv

LEMMA AppendScan ==
    ASSUME TableInv, ScanInv, AppendEntry
    PROVE  ScanInv'
<1>1. /\ scan' = scan /\ tampered' = tampered /\ newest' = newest
      /\ \A s \in DOMAIN table : s \in DOMAIN table' /\ table'[s] = table[s]
      /\ Cardinality(DOMAIN table') = Cardinality(DOMAIN table) + 1
    BY AppendedRow DEF AppendEntry
<1>2. Cardinality(DOMAIN table) \in Nat
    BY PlacesOfTable, PlacesAreFinite
<1>3. \A s \in DOMAIN table : /\ Below(table', s) = Below(table, s)
                              /\ UpTo(table', s) = UpTo(table, s)
                              /\ Rank(table', s) = Rank(table, s)
                              /\ Sound(table', s) <=> Sound(table, s)
    BY AppendedPrefix
<1>4. UpTo(table, 0) = {} /\ UpTo(table', 0) = {}
    BY AppendedRow DEF UpTo, TableInv
<1>5. Rank(table', 0) = Rank(table, 0)
    BY <1>4 DEF Rank
<1>6. \A s, c : s \in UpTo(table, c) \/ s \in Below(table, c) => s \in DOMAIN table
    BY DEF UpTo, Below
<1>7. QED BY <1>1, <1>2, <1>3, <1>4, <1>5, <1>6 DEF ScanInv

LEMMA AppendKeeps ==
    ASSUME VerifierInv, AppendEntry
    PROVE  VerifierInv'
BY AppendedRow, AppendContent, AppendScan DEF VerifierInv

LEMMA RolledBackKeeps ==
    ASSUME VerifierInv, RolledBack
    PROVE  VerifierInv'
<1>1. UNCHANGED <<table, recorded, tampered, newest, scan>> /\ sequence' = sequence + 1
    BY DEF RolledBack
<1>2. TableInv'
    BY <1>1 DEF VerifierInv, TableInv
<1>3. ContentInv' /\ ScanInv'
    BY <1>1 DEF VerifierInv, ContentInv, Blind, ScanInv
<1>4. QED BY <1>2, <1>3 DEF VerifierInv
-----------------------------------------------------------------------------
(* One statement of a privileged connection                                 *)

\* In front of the change all is as it was.
LEMMA FrontKept ==
    ASSUME NEW T, NEW V, NEW R, Places(T), Places(V), Whole(T, R),
           NEW b \in Nat, NEW c \in Nat,
           Below(V, b) = Below(T, c), \A u \in Below(T, c) : V[u] = T[u],
           NEW s \in Below(V, b)
    PROVE  Sound(V, s) /\ Faithful(V, R, s)
<1>1. s \in DOMAIN T /\ s \in DOMAIN V /\ s < b /\ s < c /\ s \in Nat
    BY PlacesAreFinite DEF Below
<1>2. \A u : u \in UpTo(V, s) => u \in Below(V, b)
    BY <1>1, PlacesAreFinite DEF UpTo, Below
<1>3. \A u : u \in UpTo(T, s) => u \in Below(T, c)
    BY <1>1, PlacesAreFinite DEF UpTo, Below
<1>4. \A u : u \in UpTo(V, s) <=> u \in UpTo(T, s)
    BY <1>2, <1>3 DEF UpTo, Below
<1>5. UpTo(V, s) = UpTo(T, s) /\ \A u \in UpTo(T, s) : V[u] = T[u]
    BY <1>3, <1>4
<1>6. Sound(T, s) /\ Faithful(T, R, s)
    BY <1>1 DEF Whole
<1>7. QED BY <1>1, <1>5, <1>6, SamePrefix

LEMMA BrokenThere ==
    ASSUME NEW T, NEW V, NEW R, Places(T), Places(V), Whole(T, R),
           NEW b \in Nat, NEW c \in Nat, ~Sound(V, b),
           Below(V, b) = Below(T, c), \A u \in Below(T, c) : V[u] = T[u]
    PROVE  BrokenAt(V, R, b, 0) /\ BrokenAt(V, R, b, 1)
BY FrontKept DEF BrokenAt

\* Before the change every row is genuine, so that two rows of one hash are one.
LEMMA BeforeChange ==
    ASSUME VerifierInv, NEW how, NEW n, Tamper(how, n)
    PROVE  /\ \A s \in DOMAIN table :
                /\ Genuine(table, s) /\ Sound(table, s)
                /\ table[s].id = s /\ table[s].data = "recorded"
                /\ table[s].hash = Hash(s, "recorded", table[s].prev)
           /\ \A s, t \in DOMAIN table : table[s].hash = table[t].hash => s = t
           /\ \A s \in DOMAIN table : table[s].hash # NoHash
           /\ Whole(table, recorded) /\ TableInv
           /\ tampered' = how /\ newest' = n /\ table' # table /\ UniqueColumns
           /\ sequence' = (IF sequence \in DOMAIN table' THEN sequence + 1 ELSE sequence)
           /\ UNCHANGED <<recorded, scan>> /\ ScanInv'
           /\ Len(recorded) = Cardinality(DOMAIN table) /\ Len(recorded) \in Nat
<1>1. /\ tampered = "no" /\ scan.status = "no" /\ tampered' = how /\ newest' = n
      /\ table' # table /\ UniqueColumns
      /\ sequence' = (IF sequence \in DOMAIN table' THEN sequence + 1 ELSE sequence)
      /\ UNCHANGED <<recorded, scan>>
    BY DEF Tamper
<1>2. Whole(table, recorded) /\ TableInv /\ \A s \in DOMAIN table : Genuine(table, s)
    BY <1>1 DEF VerifierInv, ContentInv
<1>3. \A s \in DOMAIN table :
        /\ table[s].id = s /\ table[s].data = "recorded"
        /\ table[s].hash = Hash(s, "recorded", table[s].prev)
    BY <1>2 DEF Genuine
<1>4. \A s, t \in DOMAIN table : table[s].hash = table[t].hash => s = t
    BY <1>3 DEF Hash
<1>5. \A s \in DOMAIN table : table[s].hash # NoHash
    BY <1>3 DEF Hash, NoHash
<1>6. \A s \in DOMAIN table : Sound(table, s)
    BY <1>2 DEF Whole
<1>7. ScanInv'
    BY <1>1 DEF VerifierInv, ScanInv
<1>8. Len(recorded) = Cardinality(DOMAIN table) /\ Len(recorded) \in Nat
    BY <1>2, PlacesOfTable, PlacesAreFinite DEF Whole
<1>9. QED BY <1>1, <1>2, <1>3, <1>4, <1>5, <1>6, <1>7, <1>8

\* The invariant behind a change that broke row b, or that left all in order.
LEMMA AfterChange ==
    ASSUME VerifierInv, NEW how \in {"yes", "cut", "rehashed"}, NEW n \in Nat,
           Tamper(how, n),
           DOMAIN table' \subseteq 1..sequence,
           table' = [s \in DOMAIN table' |-> table'[s]],
           n <= Cardinality(DOMAIN table') + 1,
           how = "rehashed" => n <= Cardinality(DOMAIN table'),
           \/ how = "yes" /\ Whole(table', recorded)
           \/ how = "yes" /\ \E b \in DOMAIN table' : BrokenAt(table', recorded, b, 0)
           \/ /\ how = "rehashed"
              /\ \E b \in DOMAIN table' : /\ BrokenAt(table', recorded, b, 1)
                                          /\ Rank(table', b) <= n
           \/ how \in {"cut", "rehashed"} /\ SoundTo(table', recorded, n)
    PROVE  VerifierInv'
<1>1. /\ TableInv /\ ScanInv' /\ tampered' = how /\ newest' = n
      /\ sequence' = (IF sequence \in DOMAIN table' THEN sequence + 1 ELSE sequence)
      /\ recorded' = recorded
    BY BeforeChange
<1>2. TableInv'
    <2>1. sequence \in Nat \ {0}
        BY <1>1 DEF TableInv
    <2>2. DOMAIN table' \subseteq 1..(sequence' - 1)
        BY <1>1, <2>1
    <2>3. QED BY <1>1, <2>1, <2>2 DEF TableInv
<1>3. ContentInv'
    BY <1>1 DEF ContentInv, Blind
<1>4. QED BY <1>1, <1>2, <1>3 DEF VerifierInv

\* The row behind one that vanished names a hash that no longer precedes it.
LEMMA LostPredecessor ==
    ASSUME VerifierInv, NEW how, NEW n, Tamper(how, n), Places(table'),
           NEW s \in DOMAIN table, NEW u \in DOMAIN table, s < u,
           \A v \in DOMAIN table : v <= s \/ u <= v,
           Below(table', u) = Below(table, s), u \in DOMAIN table',
           \A v \in Below(table, s) : table'[v] = table[v],
           table'[u] = table[u]
    PROVE  ~Sound(table', u)
<1>1. Places(table) /\ DOMAIN table \subseteq Nat
    BY BeforeChange, PlacesOfTable, PlacesAreFinite
<1>2. s \in Below(table, u) /\ \A v \in Below(table, u) : v <= s
    BY <1>1 DEF Below
<1>3. table[u].prev = table[s].hash
    BY <1>1, <1>2, OnePredecessor, BeforeChange DEF Sound
<1>4. CASE Below(table', u) = {}
    <2>1. table'[u].prev # NoHash
        BY <1>3, BeforeChange
    <2>2. \A p \in DOMAIN table' : ~Follows(table', u, p)
        BY <1>4 DEF Follows, Below
    <2>3. QED BY <1>4, <2>1, <2>2, Zenon DEF Sound, Linked
<1>5. CASE Below(table', u) # {}
    <2>1. PICK p \in Below(table', u) : \A v \in Below(table', u) : v <= p
        BY <1>5, PredecessorExists
    <2>2. p \in DOMAIN table /\ p # s /\ table'[p] = table[p]
        BY <1>1, <2>1 DEF Below
    <2>3. table'[p].hash # table'[u].prev
        BY <1>3, <2>2, BeforeChange
    <2>4. QED BY <2>1, <2>3, OnePredecessor DEF Sound
<1>6. QED BY <1>4, <1>5

LEMMA EditKeeps ==
    ASSUME VerifierInv, Edit
    PROVE  VerifierInv'
<1> DEFINE n == Len(recorded)
<1>0. PICK s \in DOMAIN table : \E d, p, h, r :
        /\ r = [id |-> table[s].id, data |-> d, prev |-> p, hash |-> h]
        /\ table' = [table EXCEPT ![s] = r] /\ Tamper(HowWritten(r), n)
    BY DEF Edit
<1>1. PICK d, p, h, r :
        /\ r = [id |-> table[s].id, data |-> d, prev |-> p, hash |-> h]
        /\ table' = [table EXCEPT ![s] = r] /\ Tamper(HowWritten(r), n)
    BY <1>0
<1>2. /\ TableInv /\ Whole(table, recorded) /\ table' # table
      /\ Genuine(table, s) /\ table[s].hash = Hash(s, "recorded", table[s].prev)
      /\ \A u \in DOMAIN table : Sound(table, u)
      /\ n = Cardinality(DOMAIN table) /\ n \in Nat
    BY <1>1, BeforeChange
<1>3. /\ DOMAIN table' = DOMAIN table /\ table' = [u \in DOMAIN table' |-> table'[u]]
      /\ \A u \in DOMAIN table : u # s => table'[u] = table[u]
      /\ table'[s] = r /\ r = [id |-> s, data |-> d, prev |-> p, hash |-> h]
      /\ DOMAIN table' \subseteq 1..sequence
    <2>1. table[s].id = s
        BY <1>2 DEF Genuine
    <2>2. r = [id |-> s, data |-> d, prev |-> p, hash |-> h]
        BY <1>1, <2>1
    <2>3. table = [u \in DOMAIN table |-> table[u]] /\ DOMAIN table \subseteq 1..sequence
        BY <1>2 DEF TableInv
    <2>4. table' = [u \in DOMAIN table |-> IF u = s THEN r ELSE table[u]]
        BY <1>1, <2>3
    <2>5. QED BY <2>2, <2>3, <2>4
<1>4. /\ Places(table) /\ Places(table') /\ DOMAIN table \subseteq Nat /\ s \in Nat
      /\ \A u : /\ Below(table', u) = Below(table, u) /\ UpTo(table', u) = UpTo(table, u)
               /\ Rank(table', u) = Rank(table, u)
    BY <1>2, <1>3, PlacesOfTable, PlacesAreFinite DEF Places, Below, UpTo, Rank
<1>5. n <= Cardinality(DOMAIN table') + 1 /\ n <= Cardinality(DOMAIN table')
      /\ \A u \in DOMAIN table' : Rank(table', u) <= n
    BY <1>2, <1>3, <1>4, RanksIncrease
<1>6. \A u \in Below(table, s) : table'[u] = table[u]
    BY <1>3, <1>4 DEF Below
<1>7. ~Sound(table', s) =>
        BrokenAt(table', recorded, s, 0) /\ BrokenAt(table', recorded, s, 1)
    BY <1>2, <1>4, <1>6, BrokenThere
<1> HIDE DEF n
<1>8. CASE h # Hash(s, d, p)
    <2>1. ~Sound(table', s) /\ HowWritten(r) = "yes"
        BY <1>3, <1>8 DEF Sound, Hashed, HowWritten
    <2>2. \E b \in DOMAIN table' : BrokenAt(table', recorded, b, 0)
        BY <1>3, <1>7, <2>1
    <2>3. /\ Tamper("yes", n) /\ n \in Nat /\ DOMAIN table' \subseteq 1..sequence
          /\ table' = [u \in DOMAIN table' |-> table'[u]]
          /\ n <= Cardinality(DOMAIN table') + 1
        BY <1>1, <1>2, <1>3, <1>5, <2>1
    <2>4. QED BY <2>2, <2>3, AfterChange
<1>9. CASE h = Hash(s, d, p)
    <2>1. Hashed(table', s) /\ HowWritten(r) = "rehashed"
        BY <1>3, <1>9 DEF Hashed, HowWritten
    <2> /\ Tamper("rehashed", n) /\ n \in Nat /\ DOMAIN table' \subseteq 1..sequence
        /\ table' = [u \in DOMAIN table' |-> table'[u]]
        /\ n <= Cardinality(DOMAIN table') + 1 /\ n <= Cardinality(DOMAIN table')
        BY <1>1, <1>2, <1>3, <1>5, <2>1
    <2>2. CASE ~Sound(table', s)
        <3>1. \E b \in DOMAIN table' : /\ BrokenAt(table', recorded, b, 1)
                                       /\ Rank(table', b) <= n
            BY <1>3, <1>5, <1>7, <2>2
        <3>2. QED BY <3>1, AfterChange
    <2>3. CASE Sound(table', s)
        <3>1. p = table[s].prev
            <4>1. Linked(table, s) /\ Linked(table', s)
                BY <1>2, <2>3 DEF Sound
            <4>2. CASE Below(table, s) = {}
                BY <1>3, <1>4, <4>1, <4>2, NoPredecessor
            <4>3. CASE Below(table, s) # {}
                <5>1. PICK q \in Below(table, s) : \A u \in Below(table, s) : u <= q
                    BY <1>4, <4>3, PredecessorExists
                <5>2. table[s].prev = table[q].hash
                    BY <1>4, <4>1, <5>1, OnePredecessor
                <5>3. table'[s].prev = table'[q].hash
                    BY <1>3, <1>4, <4>1, <5>1, OnePredecessor
                <5>4. QED BY <1>3, <1>6, <5>1, <5>2, <5>3
            <4>4. QED BY <4>2, <4>3
        <3>2. h # table[s].hash
            <4>1. SUFFICES ASSUME h = table[s].hash PROVE FALSE
                OBVIOUS
            <4>2. d = "recorded"
                BY <1>2, <1>9, <4>1 DEF Hash
            <4>3. table'[s] = table[s]
                BY <1>2, <1>3, <3>1, <4>1, <4>2 DEF Genuine
            <4>4. table' = table
                BY <1>2, <1>3, <4>3 DEF TableInv
            <4>5. QED BY <1>2, <4>4
        <3>3. \A u \in Below(table, s) : Sound(table', u) /\ Faithful(table', recorded, u)
            BY <1>2, <1>4, <1>6, FrontKept
        \* The newest row: nothing behind it names its old hash.
        <3>4. CASE \A u \in DOMAIN table : u <= s
            <4>1. UpTo(table', s) = DOMAIN table
                BY <1>3, <1>4, <3>4 DEF UpTo
            <4>2. Rank(table', s) = n
                BY <1>2, <4>1 DEF Rank
            <4>3. \A u \in DOMAIN table' : u = s \/ u \in Below(table, s)
                BY <1>3, <1>4, <3>4 DEF Below
            <4>4. SoundTo(table', recorded, n)
                BY <1>2, <2>3, <3>3, <4>2, <4>3 DEF SoundTo
            <4>5. QED BY <4>4, AfterChange
        \* Any other: the row behind it does.
        <3>5. CASE \E u \in DOMAIN table : ~(u <= s)
            <4>1. PICK u \in DOMAIN table : s < u /\ \A v \in DOMAIN table : v <= s \/ u <= v
                <5>1. PICK w \in DOMAIN table : s < w
                    BY <1>4, <3>5
                <5>2. QED BY <1>4, <5>1, NextRow
            <4>2. s \in Below(table, u) /\ \A v \in Below(table, u) : v <= s
                BY <1>4, <4>1 DEF Below
            <4>3. table[u].prev = table[s].hash
                BY <1>2, <1>4, <4>1, <4>2, OnePredecessor DEF Sound
            <4>4. u # s /\ u \in DOMAIN table' /\ table'[u].prev # table'[s].hash
                BY <1>3, <1>4, <3>2, <4>1, <4>3
            <4>5. ~Sound(table', u)
                BY <1>4, <4>2, <4>4, OnePredecessor DEF Sound
            <4>6. Below(table', u) = UpTo(table', s)
                BY <1>3, <1>4, <4>1, <4>2 DEF Below, UpTo
            <4>7. Rank(table', u) = Rank(table', s) + 1 /\ Rank(table', s) \in Nat
                BY <1>4, <4>4, <4>6, RankBelow, RanksIncrease DEF Rank
            <4>8. \A v \in Below(table', u) : v = s \/ v \in Below(table, s)
                BY <1>3, <1>4, <4>1, <4>2 DEF Below
            <4>9. BrokenAt(table', recorded, u, 1)
                BY <2>3, <3>3, <4>5, <4>7, <4>8 DEF BrokenAt
            <4>10. \E b \in DOMAIN table' : /\ BrokenAt(table', recorded, b, 1)
                                            /\ Rank(table', b) <= n
                BY <1>5, <4>4, <4>9
            <4>11. QED BY <4>10, AfterChange
        <3>6. QED BY <3>4, <3>5
    <2>4. QED BY <2>2, <2>3
<1>10. QED BY <1>8, <1>9

LEMMA DeleteKeeps ==
    ASSUME VerifierInv, Delete
    PROVE  VerifierInv'
<1>1. PICK s \in DOMAIN table :
        /\ table' = Without(s)
        /\ Tamper(IF s = Max(DOMAIN table) THEN "cut" ELSE "yes", Len(recorded))
    BY DEF Delete
<1>2. /\ TableInv /\ Whole(table, recorded)
      /\ \A u \in DOMAIN table : Sound(table, u)
      /\ Len(recorded) = Cardinality(DOMAIN table) /\ Len(recorded) \in Nat
    BY <1>1, BeforeChange
<1>3. /\ DOMAIN table' = DOMAIN table \ {s} /\ table' = [u \in DOMAIN table' |-> table'[u]]
      /\ \A u \in DOMAIN table' : table'[u] = table[u]
      /\ DOMAIN table' \subseteq 1..sequence
    BY <1>1, <1>2 DEF Without, TableInv
<1>4. Places(table) /\ Places(table') /\ DOMAIN table \subseteq Nat
    BY <1>2, <1>3, PlacesOfTable, PlacesAreFinite DEF Places, TableInv
<1>c. Len(recorded) <= Cardinality(DOMAIN table') + 1
    BY <1>2, <1>3, <1>4, PlacesAreFinite, FS_RemoveElement
<1>5. CASE \A u \in DOMAIN table : u <= s
    <2>1. s = Max(DOMAIN table)
        BY <1>4, <1>5, MaxIs
    <2>2. ASSUME NEW u \in DOMAIN table'
          PROVE  Sound(table', u) /\ Faithful(table', recorded, u)
        <3>1. u \in DOMAIN table /\ u # s /\ u <= s
            BY <1>3, <1>5, <2>2
        <3>2. UpTo(table', u) = UpTo(table, u)
            BY <1>3, <1>4, <3>1 DEF UpTo
        <3>3. \A v \in UpTo(table, u) : table'[v] = table[v]
            BY <1>3, <3>2 DEF UpTo
        <3>4. QED BY <1>2, <1>4, <3>1, <3>2, <3>3, SamePrefix DEF Whole
    <2>3. Tamper("cut", Len(recorded))
        BY <1>1, <2>1
    <2>4. SoundTo(table', recorded, Len(recorded))
        BY <2>2 DEF SoundTo
    <2>5. QED BY <1>2, <1>3, <1>c, <2>3, <2>4, AfterChange
<1>6. CASE \E u \in DOMAIN table : ~(u <= s)
    <2>1. s # Max(DOMAIN table)
        <3>1. PICK m \in DOMAIN table : \A u \in DOMAIN table : u <= m
            <4>1. DOMAIN table \subseteq 0..(sequence - 1) /\ sequence - 1 \in Nat
                BY <1>2 DEF TableInv
            <4>2. QED BY <1>6, <4>1, GreatestExists
        <3>2. Max(DOMAIN table) = m
            BY <1>4, <3>1, MaxIs
        <3>3. QED BY <1>6, <3>1, <3>2
    <2>2. PICK u \in DOMAIN table : s < u /\ \A v \in DOMAIN table : v <= s \/ u <= v
        <3> DEFINE Later == {v \in DOMAIN table : s < v}
        <3>1. Later \subseteq Nat /\ Later # {}
            BY <1>4, <1>6
        <3>2. PICK u \in Later : \A v \in Later : u <= v
            BY <3>1, LeastExists, Zenon
        <3>3. QED BY <1>4, <3>2
    <2>3. /\ Below(table', u) = Below(table, s) /\ u \in DOMAIN table'
          /\ \A v \in Below(table, s) : table'[v] = table[v]
        BY <1>3, <1>4, <2>2 DEF Below
    <2>4. Tamper("yes", Len(recorded))
        BY <1>1, <2>1
    <2>5. ~Sound(table', u)
        BY <1>3, <1>4, <2>2, <2>3, <2>4, LostPredecessor
    <2>6. BrokenAt(table', recorded, u, 0)
        BY <1>2, <1>4, <2>3, <2>5, BrokenThere
    <2>7. QED BY <1>2, <1>3, <1>c, <2>3, <2>4, <2>6, AfterChange
<1>7. QED BY <1>5, <1>6

LEMMA ForgeKeeps ==
    ASSUME VerifierInv, Forge
    PROVE  VerifierInv'
<1> DEFINE n == Len(recorded) + 1
<1>0. PICK t \in FreePlaces : \E p, h, r :
        /\ r = [id |-> 0, data |-> "altered", prev |-> p, hash |-> h]
        /\ table' = With(t, r) /\ Tamper(HowWritten(r), n)
    BY DEF Forge
<1>1. PICK p, h, r :
        /\ r = [id |-> 0, data |-> "altered", prev |-> p, hash |-> h]
        /\ table' = With(t, r) /\ Tamper(HowWritten(r), n)
    BY <1>0
<1>2. /\ TableInv /\ Whole(table, recorded) /\ UniqueColumns
      /\ \A u \in DOMAIN table : Sound(table, u)
      /\ Len(recorded) = Cardinality(DOMAIN table) /\ n \in Nat
    BY <1>1, BeforeChange
<1>3. /\ DOMAIN table' = DOMAIN table \cup {t} /\ table' = [u \in DOMAIN table' |-> table'[u]]
      /\ t \notin DOMAIN table /\ t \in Nat /\ t \in 1..sequence /\ sequence \in Nat
      /\ \A u \in DOMAIN table : table'[u] = table[u]
      /\ table'[t] = r /\ DOMAIN table' \subseteq 1..sequence
    BY <1>1, <1>2 DEF With, TableInv, FreePlaces
<1>4. Places(table) /\ Places(table') /\ DOMAIN table \subseteq Nat
    BY <1>2, <1>3, PlacesOfTable, PlacesAreFinite DEF Places
<1>5. Cardinality(DOMAIN table') = n
    BY <1>2, <1>3, <1>4, PlacesAreFinite, FS_AddElement
<1>6. n <= Cardinality(DOMAIN table') + 1 /\ n <= Cardinality(DOMAIN table')
      /\ \A u \in DOMAIN table' : Rank(table', u) <= n
    BY <1>2, <1>4, <1>5, RanksIncrease
<1>7. Below(table', t) = Below(table, t) /\ \A u \in Below(table, t) : table'[u] = table[u]
    BY <1>3, <1>4 DEF Below
<1>8. ~Sound(table', t) =>
        BrokenAt(table', recorded, t, 0) /\ BrokenAt(table', recorded, t, 1)
    BY <1>2, <1>3, <1>4, <1>7, BrokenThere
<1> HIDE DEF n
<1>9. CASE h # Hash(0, "altered", p)
    <2>1. ~Sound(table', t) /\ HowWritten(r) = "yes"
        BY <1>1, <1>3, <1>9 DEF Sound, Hashed, HowWritten
    <2>2. QED BY <1>1, <1>2, <1>3, <1>6, <1>8, <2>1, AfterChange
<1>10. CASE h = Hash(0, "altered", p)
    <2>1. HowWritten(r) = "rehashed"
        BY <1>1, <1>10 DEF HowWritten
    <2>2. CASE ~Sound(table', t)
        BY <1>1, <1>2, <1>3, <1>6, <1>8, <2>1, <2>2, AfterChange
    <2>3. CASE Sound(table', t)
        \* Between two rows it would name the hash that the second names.
        <3>1. ASSUME NEW w \in DOMAIN table, ~(w < t) PROVE FALSE
            <4>1. t < w
                BY <1>3, <1>4, <3>1
            <4>2. PICK u \in DOMAIN table : t < u /\ \A v \in DOMAIN table : v <= t \/ u <= v
                BY <1>3, <1>4, <4>1, NextRow
            <4>3. Below(table, u) = Below(table, t)
                BY <1>3, <1>4, <4>2 DEF Below
            <4>4. Linked(table, u) /\ Linked(table', t)
                BY <1>2, <2>3 DEF Sound
            <4>5. table[u].prev = p
                <5>1. CASE Below(table, t) = {}
                    BY <1>1, <1>3, <1>7, <4>3, <4>4, <5>1, NoPredecessor
                <5>2. CASE Below(table, t) # {}
                    <6>1. PICK q \in Below(table, t) : \A v \in Below(table, t) : v <= q
                        BY <1>4, <5>2, PredecessorExists
                    <6>2. table[u].prev = table[q].hash
                        BY <1>4, <4>3, <4>4, <6>1, OnePredecessor
                    <6>3. table'[t].prev = table'[q].hash
                        BY <1>3, <1>4, <1>7, <4>4, <6>1, OnePredecessor
                    <6>4. QED BY <1>1, <1>3, <1>7, <6>1, <6>2, <6>3
                <5>3. QED BY <5>1, <5>2
            <4>6. table'[u].prev = table'[t].prev /\ u # t
                BY <1>1, <1>3, <4>2, <4>5
            <4>7. QED BY <1>2, <1>3, <4>6 DEF UniqueColumns
        <3>2. Below(table', t) = DOMAIN table /\ UpTo(table', t) = DOMAIN table'
            BY <1>3, <1>4, <1>7, <3>1 DEF Below, UpTo
        <3>3. \A u \in DOMAIN table : Sound(table', u) /\ Faithful(table', recorded, u)
            BY <1>2, <1>3, <1>4, <1>7, <3>2, FrontKept
        <3>4. Rank(table', t) = n
            BY <1>5, <3>2 DEF Rank
        <3>5. SoundTo(table', recorded, n)
            BY <1>2, <1>3, <2>3, <3>3, <3>4 DEF SoundTo
        <3>6. QED BY <1>1, <1>2, <1>3, <1>6, <2>1, <3>5, AfterChange
    <2>4. QED BY <2>2, <2>3
<1>11. QED BY <1>9, <1>10

\* Ranks count places: to change one place for another leaves them alone.
LEMMA SwapCounts ==
    ASSUME NEW S, IsFiniteSet(S), NEW s \in S, NEW t, t \notin S
    PROVE  Cardinality((S \ {s}) \cup {t}) = Cardinality(S)
<1>1. IsFiniteSet(S \ {s}) /\ Cardinality(S \ {s}) = Cardinality(S) - 1
    BY FS_RemoveElement
<1>2. Cardinality((S \ {s}) \cup {t}) = Cardinality(S \ {s}) + 1
    BY <1>1, FS_AddElement
<1>3. Cardinality(S) \in Nat
    BY FS_CardinalityType
<1>4. QED BY <1>1, <1>2, <1>3

\* A row that moved, but past no other, is still the same entry of the chain.
LEMMA MovedInPlace ==
    ASSUME VerifierInv, NEW n, Tamper("yes", n),
           NEW s \in DOMAIN table, NEW t \in FreePlaces,
           table' = [u \in (DOMAIN table \cup {t}) \ {s} |->
                         IF u = t THEN table[s] ELSE table[u]],
           \A u \in DOMAIN table \ {s} : (u < s <=> u < t)
    PROVE  Whole(table', recorded)
<1>1. TableInv /\ Whole(table, recorded)
    BY BeforeChange
<1>2. /\ DOMAIN table' = (DOMAIN table \ {s}) \cup {t}
      /\ table'[t] = table[s] /\ t # s
      /\ \A u \in DOMAIN table \ {s} : table'[u] = table[u]
      /\ s \in Nat /\ t \in Nat /\ t \in 1..sequence /\ t \notin DOMAIN table
    BY <1>1 DEF TableInv, FreePlaces
<1>3. Places(table) /\ Places(table') /\ DOMAIN table \subseteq Nat
    <2>1. sequence \in Nat /\ DOMAIN table' \subseteq 1..sequence
        BY <1>1, <1>2 DEF TableInv
    <2>2. QED BY <1>1, <2>1, PlacesOfTable, PlacesAreFinite DEF Places
<1>4. Below(table', t) = Below(table, s)
    BY <1>2, <1>3 DEF Below
<1>5. Sound(table', t)
    <2>1. CASE Below(table, s) = {}
        <3>1. table[s].prev = NoHash
            BY <1>1, <2>1 DEF Whole, Sound, Linked, Follows, Below
        <3>2. QED BY <1>1, <1>2, <1>4, <2>1, <3>1 DEF Whole, Sound, Linked, Hashed
    <2>2. CASE Below(table, s) # {}
        <3>1. PICK p \in Below(table, s) : \A u \in Below(table, s) : u <= p
            BY <1>3, <2>2, PredecessorExists
        <3>2. table[s].prev = table[p].hash
            BY <1>1, <1>3, <3>1, OnePredecessor DEF Whole, Sound
        <3>3. table'[p] = table[p]
            BY <1>2, <1>3, <3>1 DEF Below
        <3>4. Linked(table', t)
            BY <1>2, <1>3, <1>4, <3>1, <3>2, <3>3, OnePredecessor
        <3>5. QED BY <1>1, <1>2, <3>4 DEF Whole, Sound, Hashed
    <2>3. QED BY <2>1, <2>2
<1>6. ASSUME NEW u \in DOMAIN table \ {s}
      PROVE  Sound(table', u)
    <2>1. Below(table', u) = IF u < s THEN Below(table, u)
                                      ELSE (Below(table, u) \ {s}) \cup {t}
        BY <1>2, <1>3, <1>6 DEF Below
    <2>2. CASE Below(table, u) = {}
        <3>1. table[u].prev = NoHash /\ u < s
            BY <1>1, <1>2, <1>3, <1>6, <2>2 DEF Whole, Sound, Linked, Follows, Below
        <3>2. QED BY <1>1, <1>2, <1>6, <2>1, <2>2, <3>1 DEF Whole, Sound, Linked, Hashed
    <2>3. CASE Below(table, u) # {}
        <3>1. PICK p \in Below(table, u) : \A v \in Below(table, u) : v <= p
            BY <1>3, <2>3, PredecessorExists
        <3>2. table[u].prev = table[p].hash
            BY <1>1, <1>3, <1>6, <3>1, OnePredecessor DEF Whole, Sound
        <3>3. p \in DOMAIN table /\ p < u /\ u \in Nat /\ u \in DOMAIN table'
            BY <1>2, <1>3, <1>6, <3>1 DEF Below
        <3> DEFINE q == IF p = s THEN t ELSE p
        <3>4. q \in Below(table', u) /\ table'[q] = table[p]
            BY <1>2, <1>3, <1>6, <3>3 DEF Below
        <3>5. \A v \in Below(table', u) : v <= q
            BY <1>2, <1>3, <1>6, <3>1, <3>3 DEF Below
        <3>6. Linked(table', u)
            BY <1>2, <1>3, <1>6, <3>2, <3>3, <3>4, <3>5, OnePredecessor
        <3>7. QED BY <1>1, <1>2, <1>6, <3>6 DEF Whole, Sound, Hashed
    <2>4. QED BY <2>2, <2>3
<1>7. Rank(table', t) = Rank(table, s)
    <2>1. UpTo(table', t) = (UpTo(table, s) \ {s}) \cup {t}
        BY <1>2, <1>3 DEF UpTo
    <2>2. s \in UpTo(table, s) /\ t \notin UpTo(table, s) /\ IsFiniteSet(UpTo(table, s))
        BY <1>2, <1>3, PlacesAreFinite DEF UpTo
    <2>3. Cardinality((UpTo(table, s) \ {s}) \cup {t}) = Cardinality(UpTo(table, s))
        BY <2>2, SwapCounts
    <2>4. QED BY <2>1, <2>3 DEF Rank
<1>8. ASSUME NEW u \in DOMAIN table \ {s}
      PROVE  Rank(table', u) = Rank(table, u)
    <2>1. CASE u < s
        <3>1. UpTo(table', u) = UpTo(table, u)
            BY <1>2, <1>3, <1>8, <2>1 DEF UpTo
        <3>2. QED BY <3>1 DEF Rank
    <2>2. CASE ~(u < s)
        <3>1. UpTo(table', u) = (UpTo(table, u) \ {s}) \cup {t}
            BY <1>2, <1>3, <1>8, <2>2 DEF UpTo
        <3>2. s \in UpTo(table, u) /\ t \notin UpTo(table, u) /\ IsFiniteSet(UpTo(table, u))
            BY <1>2, <1>3, <1>8, <2>2, PlacesAreFinite DEF UpTo
        <3>3. Cardinality((UpTo(table, u) \ {s}) \cup {t}) = Cardinality(UpTo(table, u))
            BY <3>2, SwapCounts
        <3>4. QED BY <3>1, <3>3 DEF Rank
    <2>3. QED BY <2>1, <2>2
<1>9. Cardinality(DOMAIN table') = Cardinality(DOMAIN table)
    BY <1>2, <1>3, PlacesAreFinite, SwapCounts
<1>10. \A u \in DOMAIN table' : Faithful(table', recorded, u)
    BY <1>1, <1>2, <1>7, <1>8 DEF Whole, Faithful
<1>11. \A u \in DOMAIN table' : Sound(table', u)
    BY <1>2, <1>5, <1>6
<1>12. QED BY <1>1, <1>9, <1>10, <1>11 DEF Whole

LEMMA MoveKeeps ==
    ASSUME VerifierInv, Move
    PROVE  VerifierInv'
<1> DEFINE n == Len(recorded)
<1>1. PICK s \in DOMAIN table, t \in FreePlaces :
        /\ table' = [u \in (DOMAIN table \cup {t}) \ {s} |->
                         IF u = t THEN table[s] ELSE table[u]]
        /\ Tamper("yes", n)
    BY DEF Move
<1>2. /\ TableInv /\ Whole(table, recorded) /\ \A u \in DOMAIN table : Sound(table, u)
      /\ n = Cardinality(DOMAIN table) /\ n \in Nat
    BY <1>1, BeforeChange
<1>3. /\ DOMAIN table' = (DOMAIN table \ {s}) \cup {t}
      /\ table'[t] = table[s] /\ t # s /\ t \notin DOMAIN table
      /\ \A u \in DOMAIN table \ {s} : table'[u] = table[u]
      /\ s \in Nat /\ t \in Nat
      /\ table' = [u \in DOMAIN table' |-> table'[u]]
      /\ DOMAIN table' \subseteq 1..sequence
    BY <1>1, <1>2 DEF TableInv, FreePlaces
<1>4. Places(table) /\ Places(table') /\ DOMAIN table \subseteq Nat
    <2>1. sequence \in Nat
        BY <1>2 DEF TableInv
    <2>2. QED BY <1>2, <1>3, <2>1, PlacesOfTable, PlacesAreFinite DEF Places
<1>c. n <= Cardinality(DOMAIN table') + 1
    BY <1>2, <1>3, <1>4, PlacesAreFinite, SwapCounts
<1> HIDE DEF n
<1>5. CASE \A u \in DOMAIN table \ {s} : (u < s <=> u < t)
    <2>1. Whole(table', recorded)
        BY <1>1, <1>5, MovedInPlace
    <2>2. QED BY <1>1, <1>2, <1>3, <1>c, <2>1, AfterChange
\* Moved forward, past a row: the first row behind its old place shows it.
<1>6. CASE s < t /\ \E u \in DOMAIN table \ {s} : ~(u < s <=> u < t)
    <2> DEFINE Later == {v \in DOMAIN table : s < v}
    <2>1. PICK u \in Later : \A v \in Later : u <= v
        <3>1. Later \subseteq Nat /\ Later # {}
            BY <1>3, <1>4, <1>6
        <3>2. QED BY <3>1, LeastExists, Zenon
    <2>2. u < t /\ u \in DOMAIN table /\ s < u /\ \A v \in DOMAIN table : v <= s \/ u <= v
        BY <1>3, <1>4, <1>6, <2>1
    <2>3. /\ Below(table', u) = Below(table, s) /\ u \in DOMAIN table'
          /\ \A v \in Below(table, s) : table'[v] = table[v]
          /\ table'[u] = table[u] /\ u \in Nat
        BY <1>3, <1>4, <2>2 DEF Below
    <2>4. ~Sound(table', u)
        BY <1>1, <1>4, <2>2, <2>3, LostPredecessor
    <2>5. BrokenAt(table', recorded, u, 0)
        BY <1>2, <1>3, <1>4, <2>3, <2>4, BrokenThere
    <2>6. QED BY <1>1, <1>2, <1>3, <1>c, <2>3, <2>5, AfterChange
\* Moved back, past a row: in its new place it names the wrong predecessor.
<1>7. CASE t < s /\ \E u \in DOMAIN table \ {s} : ~(u < s <=> u < t)
    <2>1. PICK u \in DOMAIN table : t < u /\ u < s
        BY <1>3, <1>4, <1>7
    <2>2. PICK p \in Below(table, s) : \A v \in Below(table, s) : v <= p
        <3>1. u \in Below(table, s)
            BY <2>1 DEF Below
        <3>2. QED BY <1>4, <3>1, PredecessorExists
    <2>3. table[s].prev = table[p].hash
        BY <1>2, <1>4, <2>2, OnePredecessor DEF Sound
    <2>4. t < p /\ p \in DOMAIN table
        BY <1>3, <1>4, <2>1, <2>2 DEF Below
    <2>5. /\ Below(table', t) = Below(table, t) /\ t \in DOMAIN table'
          /\ \A v \in Below(table, t) : table'[v] = table[v]
        BY <1>3, <1>4, <1>7 DEF Below
    <2>6. ~Linked(table', t)
        <3>1. CASE Below(table', t) = {}
            <4>1. table'[t].prev # NoHash
                BY <1>1, <1>3, <2>3, <2>4, BeforeChange
            <4>2. \A q \in DOMAIN table' : ~Follows(table', t, q)
                BY <3>1 DEF Follows, Below
            <4>3. QED BY <3>1, <4>1, <4>2, Zenon DEF Linked
        <3>2. CASE Below(table', t) # {}
            <4>1. PICK q \in Below(table', t) : \A v \in Below(table', t) : v <= q
                BY <1>4, <3>2, PredecessorExists
            <4>2. q \in DOMAIN table /\ q # p /\ table'[q] = table[q]
                BY <1>3, <1>4, <2>4, <2>5, <4>1 DEF Below
            <4>3. table'[q].hash # table'[t].prev
                BY <1>1, <1>3, <2>3, <2>4, <4>2, BeforeChange
            <4>4. QED BY <1>4, <2>5, <4>1, <4>3, OnePredecessor
        <3>3. QED BY <3>1, <3>2
    <2>7. BrokenAt(table', recorded, t, 0)
        BY <1>2, <1>3, <1>4, <2>5, <2>6, BrokenThere DEF Sound
    <2>8. QED BY <1>1, <1>2, <1>3, <1>c, <2>5, <2>7, AfterChange
<1>8. s < t \/ t < s
    BY <1>3
<1>9. QED BY <1>5, <1>6, <1>7, <1>8

LEMMA TamperingKeeps ==
    ASSUME VerifierInv, Edit \/ Delete \/ Move \/ Forge
    PROVE  VerifierInv'
BY EditKeeps, DeleteKeeps, MoveKeeps, ForgeKeeps

-----------------------------------------------------------------------------
(* The scan                                                                 *)

\* A page goes on where the last one ended, leaves nothing out, and is not
\* full only if nothing follows it.
LEMMA PageIsNext ==
    ASSUME TableInv, NEW c \in Nat
    PROVE  /\ Page(c) \subseteq DOMAIN table /\ \A s \in Page(c) : c < s
           /\ \A s \in Page(c), u \in DOMAIN table : c < u /\ u <= s => u \in Page(c)
           /\ IsFiniteSet(Page(c)) /\ Cardinality(Page(c)) \in Nat
           /\ Cardinality(Page(c)) < BatchSize =>
                \A u \in DOMAIN table : c < u => u \in Page(c)
<1> DEFINE after == {s \in DOMAIN table : s > c}
           upTo(s) == {t \in after : t <= s}
<1>1. Page(c) = {s \in after : Cardinality(upTo(s)) <= BatchSize}
    BY DEF Page
<1>2. DOMAIN table \subseteq Nat /\ Places(table)
    BY PlacesOfTable, PlacesAreFinite
<1>3. \A s : IsFiniteSet(upTo(s)) /\ Cardinality(upTo(s)) \in Nat
    BY <1>2, PlacesAreFinite
<1>4. Page(c) \subseteq DOMAIN table /\ \A s \in Page(c) : c < s
    BY <1>1, <1>2
<1>5. IsFiniteSet(Page(c)) /\ Cardinality(Page(c)) \in Nat
    BY <1>2, <1>4, PlacesAreFinite
<1>6. ASSUME NEW s \in Page(c), NEW u \in DOMAIN table, c < u, u <= s
      PROVE  u \in Page(c)
    <2>1. upTo(u) \subseteq upTo(s)
        BY <1>2, <1>4, <1>6
    <2>2. Cardinality(upTo(u)) <= Cardinality(upTo(s))
        BY <2>1, <1>3, FS_Subset, Zenon
    <2>3. Cardinality(upTo(s)) <= BatchSize
        BY <1>1
    <2>4. u \in after
        BY <1>2, <1>6
    <2>5. Cardinality(upTo(u)) <= BatchSize
        BY <1>3, <2>2, <2>3, BatchSizeAssumption
    <2>6. QED BY <1>1, <2>4, <2>5
<1>7. ASSUME Cardinality(Page(c)) < BatchSize, NEW u \in DOMAIN table, c < u,
             u \notin Page(c)
      PROVE  FALSE
    <2> DEFINE rest == after \ Page(c)
    <2>1. rest \subseteq Nat /\ rest # {}
        BY <1>2, <1>7
    <2>2. PICK x \in rest : \A v \in rest : x <= v
        BY <2>1, LeastExists, Zenon
    <2>3. upTo(x) = Page(c) \cup {x}
        BY <1>1, <1>2, <1>4, <1>6, <2>2
    <2>4. Cardinality(upTo(x)) = Cardinality(Page(c)) + 1
        BY <1>5, <2>2, <2>3, FS_AddElement
    <2>5. Cardinality(upTo(x)) <= BatchSize
        BY <1>5, <1>7, <2>4, BatchSizeAssumption
    <2>6. QED BY <1>1, <2>2, <2>5
<1>8. QED BY <1>4, <1>5, <1>6, <1>7

\* Where the scan stands: everything up to the cursor was accepted, and the
\* hash that it carries is that of the row at the cursor.
Standing(c, prev) ==
    \/ c = 0 /\ prev = NoHash
    \/ c \in DOMAIN table /\ prev = table[c].hash

\* VerifyBatch accepts a row of a page exactly if it is sound: the predecessor
\* that it compares with, in the page or carried over, is the one in the table.
LEMMA VerifyBatchIsSound ==
    ASSUME TableInv, NEW c, NEW prev, Standing(c, prev)
    PROVE  BadRows(Page(c), prev) = {s \in Page(c) : ~Sound(table, s)}
<1>1. DOMAIN table \subseteq Nat \ {0} /\ Places(table) /\ c \in Nat
    BY PlacesOfTable, PlacesAreFinite DEF Standing
<1>2. ASSUME NEW s \in Page(c)
      PROVE  table[s].prev = ExpectedPrev(Page(c), s, prev) <=> Linked(table, s)
    <2> DEFINE before == {t \in Page(c) : t < s}
    <2>1. s \in DOMAIN table /\ s \in Nat /\ c < s
        BY <1>1, PageIsNext
    <2>2. \A u \in DOMAIN table : c < u /\ u <= s => u \in Page(c)
        BY <1>1, PageIsNext
    <2>3. before \subseteq Below(table, s)
        BY <1>1, PageIsNext DEF Below
    <2>4. CASE before = {}
        <3>1. ExpectedPrev(Page(c), s, prev) = prev
            BY <2>4 DEF ExpectedPrev
        <3>2. \A u \in Below(table, s) : u <= c
            BY <1>1, <2>1, <2>2, <2>4 DEF Below
        <3>3. CASE c \in DOMAIN table /\ prev = table[c].hash
            <4>1. c \in Below(table, s)
                BY <2>1, <3>3 DEF Below
            <4>2. QED BY <1>1, <2>1, <3>1, <3>2, <3>3, <4>1, OnePredecessor
        <3>4. CASE c = 0 /\ prev = NoHash
            <4>1. Below(table, s) = {}
                BY <1>1, <3>2, <3>4 DEF Below
            <4>2. \A p \in DOMAIN table : ~Follows(table, s, p)
                BY <4>1 DEF Follows, Below
            <4>3. QED BY <3>1, <3>4, <4>1, <4>2, Zenon DEF Linked
        <3>5. QED BY <3>3, <3>4 DEF Standing
    <2>5. CASE before # {}
        <3>1. before \subseteq 0..s
            BY <1>1, <2>1, <2>3 DEF Below
        <3>2. PICK p \in before : \A u \in before : u <= p
            BY <2>1, <2>5, <3>1, GreatestExists
        <3>3. Max(before) = p
            BY <3>1, <3>2, MaxIs
        <3>4. ExpectedPrev(Page(c), s, prev) = table[p].hash
            BY <2>5, <3>3 DEF ExpectedPrev
        <3>5. p \in Below(table, s) /\ c < p
            BY <1>1, <2>3, <3>2, PageIsNext
        <3>6. \A u \in Below(table, s) : u <= p
            BY <1>1, <2>1, <2>2, <3>1, <3>2, <3>5 DEF Below
        <3>7. QED BY <1>1, <2>1, <3>4, <3>5, <3>6, OnePredecessor
    <2>6. QED BY <2>4, <2>5
<1>3. QED BY <1>2 DEF BadRows, Sound, Hashed, HashMatches

LEMMA StartScanKeeps ==
    ASSUME VerifierInv, StartScan
    PROVE  VerifierInv'
<1>1. /\ UNCHANGED <<table, sequence, recorded, tampered, newest>> /\ scan.status = "no"
      /\ scan' = [scan EXCEPT !.status = "RUNNING", !.from = Cardinality(DOMAIN table)]
    BY DEF StartScan
<1>2. TableInv' /\ ContentInv'
    BY <1>1 DEF VerifierInv, TableInv, ContentInv, Blind
<1>3. /\ Cardinality(DOMAIN table) \in Nat /\ Places(table)
      /\ DOMAIN table \subseteq Nat \ {0}
      /\ newest <= Cardinality(DOMAIN table) + 1
      /\ tampered = "rehashed" => newest <= Cardinality(DOMAIN table)
    BY PlacesOfTable, PlacesAreFinite DEF VerifierInv, ContentInv
<1>4. UpTo(table, 0) = {} /\ Rank(table, 0) = 0
    BY <1>3, FS_EmptySet DEF UpTo, Rank
<1>5. scan.cursor = 0 /\ scan.prev = NoHash /\ scan.checked = 0
    BY <1>1 DEF VerifierInv, ScanInv
<1>6. scan' = [status |-> "RUNNING", cursor |-> 0, prev |-> NoHash, checked |-> 0,
               from |-> Cardinality(DOMAIN table)]
    BY <1>1, <1>5 DEF VerifierInv, ScanInv
<1>7. /\ scan'.status = "RUNNING" /\ scan'.cursor = 0 /\ scan'.prev = NoHash
      /\ scan'.checked = 0 /\ scan'.from = Cardinality(DOMAIN table)
      /\ scan' = [status |-> scan'.status, cursor |-> scan'.cursor, prev |-> scan'.prev,
                  checked |-> scan'.checked, from |-> scan'.from]
    BY <1>6
<1>8. /\ UpTo(table', 0) = {} /\ Rank(table', 0) = 0
      /\ Cardinality(DOMAIN table') = Cardinality(DOMAIN table)
    BY <1>1, <1>4
<1>9. /\ scan'.from \in Nat /\ scan'.from <= Cardinality(DOMAIN table')
      /\ newest' <= scan'.from + 1
      /\ tampered' = "rehashed" => newest' <= scan'.from
    BY <1>1, <1>3, <1>7, <1>8
<1>10. ScanInv'
    BY <1>7, <1>8, <1>9 DEF ScanInv
<1>11. QED BY <1>2, <1>10 DEF VerifierInv

\* Facts about a scan that is under way.
LEMMA Scanning ==
    ASSUME VerifierInv, scan.status = "RUNNING"
    PROVE  /\ TableInv /\ Places(table) /\ DOMAIN table \subseteq Nat \ {0}
           /\ scan.cursor \in Nat /\ Standing(scan.cursor, scan.prev)
           /\ \A s \in UpTo(table, scan.cursor) : Sound(table, s)
           /\ scan.checked = Rank(table, scan.cursor) /\ scan.checked \in Nat
           /\ scan.from \in Nat /\ scan.from <= Cardinality(DOMAIN table)
           /\ Cardinality(DOMAIN table) \in Nat
<1>1. TableInv /\ Places(table) /\ DOMAIN table \subseteq Nat \ {0}
      /\ Cardinality(DOMAIN table) \in Nat
    BY PlacesOfTable, PlacesAreFinite DEF VerifierInv
<1>2. /\ Standing(scan.cursor, scan.prev)
      /\ \A s \in UpTo(table, scan.cursor) : Sound(table, s)
      /\ scan.checked = Rank(table, scan.cursor)
      /\ scan.from \in Nat /\ scan.from <= Cardinality(DOMAIN table)
    BY DEF VerifierInv, ScanInv, Standing
<1>3. scan.checked \in Nat
    BY <1>1, <1>2, RanksIncrease
<1>4. scan.cursor \in Nat
    BY <1>1, <1>2 DEF Standing
<1>5. QED BY <1>1, <1>2, <1>3, <1>4

LEMMA DisjointCounts ==
    ASSUME NEW S, NEW T, IsFiniteSet(S), IsFiniteSet(T), S \cap T = {}
    PROVE  Cardinality(S \cup T) = Cardinality(S) + Cardinality(T)
<1>1. Cardinality(S \cup T) = Cardinality(S) + Cardinality(T) - Cardinality(S \cap T)
    BY FS_Union
<1>2. Cardinality(S) \in Nat /\ Cardinality(T) \in Nat
    BY FS_CardinalityType
<1>3. Cardinality(S \cap T) = 0
    BY FS_EmptySet
<1>4. QED BY <1>1, <1>2, <1>3

\* An empty page: the cursor is at the end.
LEMMA VerifiedKeeps ==
    ASSUME VerifierInv, scan.status = "RUNNING", Page(scan.cursor) = {}, Verified,
           UNCHANGED <<table, tampered, newest>>
    PROVE  ScanInv'
<1>1. Cardinality(Page(scan.cursor)) < BatchSize
    BY FS_EmptySet, BatchSizeAssumption
<1>2. \A u \in DOMAIN table : u <= scan.cursor
    <2>1. TableInv /\ scan.cursor \in Nat /\ DOMAIN table \subseteq Nat \ {0}
        BY Scanning
    <2>2. \A u \in DOMAIN table : scan.cursor < u => u \in Page(scan.cursor)
        BY <1>1, <2>1, PageIsNext
    <2>3. QED BY <2>1, <2>2
<1>3. UpTo(table, scan.cursor) = DOMAIN table
    BY <1>2 DEF UpTo
<1>4. scan.checked >= scan.from
    BY <1>3, Scanning DEF Rank
<1>5. scan' = [scan EXCEPT !.status = "VERIFIED"]
    BY DEF Verified
<1>6. QED BY <1>4, <1>5 DEF VerifierInv, ScanInv

\* A page without a bad row.
LEMMA NextPageKeeps ==
    ASSUME VerifierInv, scan.status = "RUNNING", NEW page, page = Page(scan.cursor),
           page # {}, BadRows(page, scan.prev) = {}, NextPage(page), UNCHANGED <<table, tampered, newest>>
    PROVE  ScanInv'
<1> DEFINE c == scan.cursor
<1>1. /\ TableInv /\ Places(table) /\ c \in Nat /\ DOMAIN table \subseteq Nat \ {0}
      /\ scan.checked = Rank(table, c) /\ \A s \in UpTo(table, c) : Sound(table, s)
      /\ scan.from \in Nat /\ scan.from <= Cardinality(DOMAIN table)
    BY Scanning
<1>2. /\ page \subseteq DOMAIN table /\ \A s \in page : c < s
      /\ \A s \in page, u \in DOMAIN table : c < u /\ u <= s => u \in page
      /\ IsFiniteSet(page) /\ Cardinality(page) \in Nat
      /\ Cardinality(page) < BatchSize => \A u \in DOMAIN table : c < u => u \in page
    BY <1>1, PageIsNext
<1>3. PICK m \in page : \A s \in page : s <= m
    <2>1. PICK n \in Nat : DOMAIN table \subseteq 1..n
        BY <1>1 DEF Places
    <2>2. page \subseteq 0..n
        BY <1>2, <2>1
    <2>3. QED BY <2>2, GreatestExists
<1>4. Max(page) = m
    BY <1>1, <1>2, <1>3, MaxIs
<1>5. UpTo(table, m) = UpTo(table, c) \cup page /\ UpTo(table, c) \cap page = {}
    BY <1>1, <1>2, <1>3 DEF UpTo
<1>6. Rank(table, m) = scan.checked + Cardinality(page)
    <2>1. IsFiniteSet(UpTo(table, c))
        BY <1>1, PlacesAreFinite DEF UpTo
    <2>2. Cardinality(UpTo(table, c) \cup page)
            = Cardinality(UpTo(table, c)) + Cardinality(page)
        BY <1>2, <1>5, <2>1, DisjointCounts
    <2>3. QED BY <1>1, <1>5, <2>2 DEF Rank
<1>7. \A s \in UpTo(table, m) : Sound(table, s)
    <2>1. BadRows(page, scan.prev) = {s \in page : ~Sound(table, s)}
        BY Scanning, VerifyBatchIsSound
    <2>2. QED BY <1>1, <1>5, <2>1
<1>8. Cardinality(page) < BatchSize => Rank(table, m) >= scan.from
    <2>1. SUFFICES ASSUME Cardinality(page) < BatchSize PROVE Rank(table, m) >= scan.from
        OBVIOUS
    <2>2. UpTo(table, m) = DOMAIN table
        BY <1>1, <1>2, <1>3, <1>5, <2>1 DEF UpTo
    <2>3. QED BY <1>1, <2>2, Scanning DEF Rank
<1>9. scan' = [scan EXCEPT !.checked = @ + Cardinality(page),
                           !.cursor = m, !.prev = table[m].hash,
                           !.status = IF Cardinality(page) < BatchSize
                                      THEN "VERIFIED" ELSE "RUNNING"]
    BY <1>4 DEF NextPage
<1>10. m \in DOMAIN table
    BY <1>2
<1>11. QED BY <1>6, <1>7, <1>8, <1>9, <1>10 DEF VerifierInv, ScanInv

\* A page with a bad row: the scan stops at the first.
LEMMA FailAtKeeps ==
    ASSUME VerifierInv, scan.status = "RUNNING", NEW page, page = Page(scan.cursor),
           NEW bad, bad = BadRows(page, scan.prev), bad # {}, FailAt(page, bad),
           UNCHANGED <<table, tampered, newest>>
    PROVE  ScanInv'
<1> DEFINE c == scan.cursor
<1>1. /\ TableInv /\ Places(table) /\ c \in Nat /\ DOMAIN table \subseteq Nat \ {0}
      /\ scan.checked = Rank(table, c) /\ \A s \in UpTo(table, c) : Sound(table, s)
    BY Scanning
<1>2. /\ page \subseteq DOMAIN table /\ \A s \in page : c < s
      /\ \A s \in page, u \in DOMAIN table : c < u /\ u <= s => u \in page
      /\ IsFiniteSet(page) /\ Cardinality(page) \in Nat
    BY <1>1, PageIsNext
<1>3. bad = {s \in page : ~Sound(table, s)}
    BY Scanning, VerifyBatchIsSound
<1>4. PICK b \in bad : \A s \in bad : b <= s
    BY <1>1, <1>2, <1>3, LeastExists
<1>5. Min(bad) = b
    BY <1>1, <1>2, <1>3, <1>4, MinIs
<1> DEFINE before == {t \in page : t < b}
<1>6. Below(table, b) = UpTo(table, c) \cup before /\ UpTo(table, c) \cap before = {}
    BY <1>1, <1>2, <1>3, <1>4 DEF UpTo, Below
<1>7. Cardinality(Below(table, b)) = scan.checked + Cardinality(before)
    <2>1. IsFiniteSet(UpTo(table, c)) /\ IsFiniteSet(before)
        BY <1>1, <1>2, PlacesAreFinite DEF UpTo
    <2>2. Cardinality(UpTo(table, c) \cup before)
            = Cardinality(UpTo(table, c)) + Cardinality(before)
        BY <1>6, <2>1, DisjointCounts
    <2>3. QED BY <1>1, <1>6, <2>2 DEF Rank
<1>8. \A s \in Below(table, b) : Sound(table, s)
    BY <1>1, <1>2, <1>3, <1>4, <1>6
<1>9. scan' = [scan EXCEPT !.status = "INTEGRITY_FAILURE", !.cursor = b,
                           !.checked = @ + Cardinality(before)]
    BY <1>5 DEF FailAt
<1>10. b \in DOMAIN table /\ ~Sound(table, b)
    BY <1>2, <1>3, <1>4
<1>11. QED BY <1>7, <1>8, <1>9, <1>10 DEF VerifierInv, ScanInv

LEMMA ScanPageKeeps ==
    ASSUME VerifierInv, ScanPage
    PROVE  VerifierInv'
<1>1. UNCHANGED <<table, sequence, recorded, tampered, newest>> /\ scan.status = "RUNNING"
    BY DEF ScanPage
<1>2. TableInv' /\ ContentInv'
    BY <1>1 DEF VerifierInv, TableInv, ContentInv, Blind
<1>3. ScanInv'
    BY <1>1, VerifiedKeeps, NextPageKeeps, FailAtKeeps DEF ScanPage
<1>4. QED BY <1>2, <1>3 DEF VerifierInv

LEMMA VerifierInvariant == VerifierSpec => []VerifierInv
<1>1. VerifierInv /\ [VerifierNext]_verifierVars => VerifierInv'
    <2> SUFFICES ASSUME VerifierInv, [VerifierNext]_verifierVars PROVE VerifierInv'
        OBVIOUS
    <2>1. CASE UNCHANGED verifierVars
        BY <2>1 DEF verifierVars, VerifierInv, TableInv, ContentInv, Blind, ScanInv
    <2>2. QED
        BY <2>1, AppendKeeps, RolledBackKeeps, TamperingKeeps, StartScanKeeps,
           ScanPageKeeps DEF VerifierNext
<1>2. QED BY <1>1, InitInvariant, PTL DEF VerifierSpec

-----------------------------------------------------------------------------
(* The verdict                                                              *)

\* RowsUpTo lists the rows by rank.
LEMMA RowsByRank ==
    ASSUME TableInv, NEW s \in Int, NEW n, n = Rank(table, s)
    PROVE  /\ DOMAIN RowsUpTo(s) = 1..n
           /\ \A i \in 1..n : \E t \in UpTo(table, s) :
                 Rank(table, t) = i /\ RowsUpTo(s)[i] = table[t]
<1> DEFINE seqs == UpTo(table, s)
<1>1. Places(table) /\ n \in Nat /\ DOMAIN table \subseteq Nat \ {0}
      /\ seqs \subseteq DOMAIN table /\ IsFiniteSet(seqs)
    BY PlacesOfTable, PlacesAreFinite, RanksIncrease DEF UpTo
<1>2. \A t \in seqs : {u \in seqs : u <= t} = UpTo(table, t)
    BY <1>1 DEF UpTo
<1>3. \A t, u \in seqs : Rank(table, t) = Rank(table, u) => t = u
    <2>1. \A t, u \in DOMAIN table : t < u => Rank(table, t) < Rank(table, u)
        BY <1>1, RanksIncrease
    <2>2. \A t : Rank(table, t) \in Nat
        BY <1>1, RanksIncrease
    <2>3. QED BY <1>1, <2>1, <2>2
\* Every rank is taken.
<1>4. ASSUME NEW i \in 1..n PROVE \E t \in seqs : Rank(table, t) = i
    <2> DEFINE high == {t \in seqs : i <= Rank(table, t)}
    <2>1. high # {}
        <3>1. seqs # {}
            BY <1>1, <1>4, FS_EmptySet DEF Rank
        <3>2. PICK k \in Nat : DOMAIN table \subseteq 1..k
            BY <1>1 DEF Places
        <3>3. seqs \subseteq 0..k
            BY <1>1, <3>2
        <3>4. PICK m \in seqs : \A t \in seqs : t <= m
            BY <3>1, <3>3, GreatestExists
        <3>5. UpTo(table, m) = seqs
            BY <1>1, <3>4 DEF UpTo
        <3>6. Rank(table, m) = n
            BY <3>5 DEF Rank
        <3>7. QED BY <1>1, <1>4, <3>4, <3>6
    <2>2. PICK t \in high : \A u \in high : t <= u
        <3>1. high \subseteq Nat
            BY <1>1
        <3>2. QED BY <2>1, <3>1, LeastExists
    <2>3. /\ t \in DOMAIN table /\ t \in Nat /\ t <= s /\ i <= Rank(table, t)
          /\ Rank(table, t) \in Nat
        BY <1>1, <2>2, RanksIncrease DEF UpTo
    <2>4. CASE i < Rank(table, t)
        <3>1. Below(table, t) = UpTo(table, t) \ {t} /\ t \in UpTo(table, t)
            BY <1>1, <2>3 DEF UpTo, Below
        <3>2. Cardinality(Below(table, t)) = Rank(table, t) - 1
            <4>1. UpTo(table, t) \in SUBSET DOMAIN table
                BY DEF UpTo
            <4>2. IsFiniteSet(UpTo(table, t))
                BY <1>1, <4>1, PlacesAreFinite
            <4>3. QED BY <3>1, <4>2, FS_RemoveElement DEF Rank
        <3>3. Below(table, t) # {}
            <4>1. Cardinality(Below(table, t)) # 0
                BY <1>4, <2>3, <2>4, <3>2
            <4>2. QED BY <4>1, FS_EmptySet
        <3>4. PICK p \in Below(table, t) : \A u \in Below(table, t) : u <= p
            BY <1>1, <3>3, PredecessorExists
        <3>5. p \in seqs /\ p < t /\ p \in Nat
            BY <1>1, <2>3, <3>4 DEF UpTo, Below
        <3>6. UpTo(table, p) = Below(table, t)
            BY <1>1, <2>3, <3>4, <3>5 DEF UpTo, Below
        <3>7. Rank(table, p) = Rank(table, t) - 1
            BY <3>2, <3>6 DEF Rank
        <3>8. p \in high
            BY <2>3, <2>4, <3>5, <3>7
        <3>9. QED BY <2>2, <2>3, <3>5, <3>8
    <2>5. QED BY <2>2, <2>3, <2>4
<1> DEFINE at(i) == CHOOSE t \in seqs : Cardinality({u \in seqs : u <= t}) = i
<1>5. \A t \in seqs : Cardinality({u \in seqs : u <= t}) = Rank(table, t)
    BY <1>2 DEF Rank
<1>6. ASSUME NEW i \in 1..n PROVE at(i) \in seqs /\ Rank(table, at(i)) = i
    <2> HIDE DEF seqs
    <2>1. \E t \in seqs : Cardinality({u \in seqs : u <= t}) = i
        BY <1>4, <1>5
    <2>2. at(i) \in seqs /\ Cardinality({u \in seqs : u <= at(i)}) = i
        BY <2>1
    <2>3. QED BY <1>5, <2>2
<1>7. RowsUpTo(s) = [i \in 1..n |-> table[at(i)]]
    <2>1. seqs = {t \in DOMAIN table : t <= s}
        BY DEF UpTo
    <2>2. n = Cardinality(seqs)
        BY DEF Rank
    <2>3. QED BY <2>1, <2>2 DEF RowsUpTo
<1>8. QED
    <2> HIDE DEF at, seqs
    <2>1. /\ DOMAIN RowsUpTo(s) = 1..n
          /\ \A i \in 1..n : \E t \in seqs : Rank(table, t) = i /\ RowsUpTo(s)[i] = table[t]
        BY <1>6, <1>7
    <2>2. QED BY <2>1 DEF seqs

\* If the first k rows are faithful, they are the first k entries.
LEMMA FirstRows ==
    ASSUME TableInv, NEW s \in Int, NEW k \in Int, k <= Rank(table, s),
           \A t \in UpTo(table, s) : Rank(table, t) <= k => Faithful(table, recorded, t)
    PROVE  AsRecorded(s, Rank(table, s), k)
<1>1. Rank(table, s) \in Nat /\ recorded \in Seq({recorded[i] : i \in DOMAIN recorded})
    BY PlacesOfTable, RanksIncrease DEF TableInv
<1>2. /\ DOMAIN RowsUpTo(s) = 1..Rank(table, s)
      /\ \A i \in 1..Rank(table, s) : \E t \in UpTo(table, s) :
            Rank(table, t) = i /\ RowsUpTo(s)[i] = table[t]
    BY RowsByRank
<1>3. ASSUME NEW i \in 1..k PROVE i \in DOMAIN recorded /\ RowsUpTo(s)[i] = recorded[i]
    <2>1. PICK t \in UpTo(table, s) : Rank(table, t) = i /\ RowsUpTo(s)[i] = table[t]
        BY <1>1, <1>2
    <2>2. QED BY <2>1 DEF Faithful
<1>4. k <= Len(recorded)
    <2>1. CASE k <= 0
        BY <1>1, <2>1
    <2>2. CASE k > 0
        BY <1>1, <1>3, <2>2
    <2>3. QED BY <2>1, <2>2
<1>5. QED BY <1>2, <1>3, <1>4 DEF AsRecorded

LEMMA VerifiedIsGenuine ==
    ASSUME VerifierInv, scan.status = "VERIFIED"
    PROVE  AsRecorded(scan.cursor, scan.checked,
                      IF tampered \in {"cut", "rehashed"} THEN newest - 1 ELSE scan.checked)
<1> DEFINE c == scan.cursor
           k == IF tampered \in {"cut", "rehashed"} THEN newest - 1 ELSE scan.checked
<1>1. /\ TableInv /\ Places(table) /\ DOMAIN table \subseteq Nat \ {0} /\ newest \in Nat
      /\ UpTo(table, c) \subseteq DOMAIN table
    BY PlacesOfTable, PlacesAreFinite DEF VerifierInv, TableInv, UpTo
<1>2. /\ \A s \in UpTo(table, c) : Sound(table, s)
      /\ scan.checked = Rank(table, c) /\ (c = 0 \/ c \in DOMAIN table)
      /\ scan.checked >= scan.from /\ scan.from \in Nat /\ newest <= scan.from + 1
      /\ tampered = "rehashed" => newest <= scan.from
    BY DEF VerifierInv, ScanInv
<1>3. c \in Int /\ Rank(table, c) \in Nat /\ \A t : Rank(table, t) \in Nat
    BY <1>1, <1>2, RanksIncrease
<1>4. k \in Int /\ k <= Rank(table, c)
    BY <1>1, <1>2, <1>3
<1>5. ASSUME NEW t \in UpTo(table, c), Rank(table, t) <= k
      PROVE  Faithful(table, recorded, t)
    <2>1. CASE Whole(table, recorded)
        BY <1>1, <2>1 DEF Whole
    <2>2. ASSUME tampered \in {"yes", "rehashed"}, NEW b \in DOMAIN table,
                 BrokenAt(table, recorded, b, Blind),
                 tampered = "rehashed" => Rank(table, b) <= newest
          PROVE  Faithful(table, recorded, t)
        <3>1. b \notin UpTo(table, c) /\ c < b
            BY <1>1, <1>2, <1>3, <2>2 DEF BrokenAt, UpTo
        <3>2. t \in Below(table, b) /\ Rank(table, t) < Rank(table, b)
            <4>1. t < b /\ t \in DOMAIN table
                BY <1>1, <1>3, <3>1 DEF UpTo
            <4>2. QED BY <1>1, <4>1, RanksIncrease DEF Below
        \* The scan reached the end of the chain, and b is not behind it.
        <3>3. tampered # "rehashed"
            <4>1. SUFFICES ASSUME tampered = "rehashed" PROVE FALSE
                OBVIOUS
            <4>2. Rank(table, c) < Rank(table, b)
                <5>1. CASE c = 0
                    <6>1. UpTo(table, 0) = {}
                        BY <1>1 DEF UpTo
                    <6>2. Rank(table, 0) = 0
                        BY <6>1, FS_EmptySet DEF Rank
                    <6>3. Rank(table, b) \in 1..Cardinality(DOMAIN table)
                        BY <1>1, RanksIncrease
                    <6>4. QED BY <5>1, <6>2, <6>3
                <5>2. CASE c \in DOMAIN table
                    BY <1>1, <3>1, <5>2, RanksIncrease
                <5>3. QED BY <1>2, <5>1, <5>2
            <4>3. QED BY <1>1, <1>2, <1>3, <2>2, <4>1, <4>2
        <3>4. Rank(table, t) < Rank(table, b) - Blind
            BY <1>3, <3>2, <3>3 DEF Blind
        <3>5. QED BY <2>2, <3>2, <3>4 DEF BrokenAt
    <2>3. CASE tampered \in {"cut", "rehashed"} /\ SoundTo(table, recorded, newest)
        <3>1. Rank(table, t) < newest /\ t \in DOMAIN table
            BY <1>1, <1>3, <1>5, <2>3
        <3>2. QED BY <2>3, <3>1 DEF SoundTo
    <2>4. QED BY <2>1, <2>2, <2>3 DEF VerifierInv, ContentInv
<1>6. QED
    <2> HIDE DEF k
    <2>1. AsRecorded(c, scan.checked, k)
        BY <1>1, <1>2, <1>3, <1>4, <1>5, FirstRows
    <2>2. QED BY <2>1 DEF k

LEMMA FailureIsGenuine ==
    ASSUME VerifierInv, scan.status = "INTEGRITY_FAILURE"
    PROVE  AsRecorded(scan.cursor - 1, scan.checked,
                      IF tampered = "rehashed" THEN scan.checked - 1 ELSE scan.checked)
<1> DEFINE c == scan.cursor
           k == IF tampered = "rehashed" THEN scan.checked - 1 ELSE scan.checked
<1>1. TableInv /\ Places(table) /\ DOMAIN table \subseteq Nat \ {0}
    BY PlacesOfTable, PlacesAreFinite DEF VerifierInv
<1>2. /\ c \in DOMAIN table /\ ~Sound(table, c)
      /\ \A s \in Below(table, c) : Sound(table, s)
      /\ scan.checked = Cardinality(Below(table, c))
    BY DEF VerifierInv, ScanInv
<1>3. c - 1 \in Int /\ c \in Nat /\ UpTo(table, c - 1) = Below(table, c)
    BY <1>1, <1>2 DEF UpTo, Below
<1>4. /\ Rank(table, c - 1) = scan.checked /\ scan.checked \in Nat
      /\ Rank(table, c) = scan.checked + 1 /\ \A t : Rank(table, t) \in Nat
    BY <1>1, <1>2, <1>3, RankBelow, RanksIncrease DEF Rank
<1>5. k \in Int /\ k <= scan.checked /\ k = scan.checked - Blind
    BY <1>4 DEF Blind
<1>6. PICK b \in DOMAIN table : BrokenAt(table, recorded, b, Blind)
    BY <1>2 DEF VerifierInv, ContentInv, Whole, SoundTo
<1>7. b = c
    <2>1. ~(b < c)
        BY <1>2, <1>6 DEF BrokenAt, Below
    <2>2. ~(c < b)
        BY <1>2, <1>6 DEF BrokenAt, Below
    <2>3. QED BY <1>1, <1>2, <2>1, <2>2
<1>8. ASSUME NEW t \in UpTo(table, c - 1), Rank(table, t) <= k
      PROVE  Faithful(table, recorded, t)
    <2>1. Rank(table, t) < Rank(table, c) - Blind
        BY <1>4, <1>5, <1>8 DEF Blind
    <2>2. QED BY <1>3, <1>6, <1>7, <2>1 DEF BrokenAt
<1>9. QED
    <2> HIDE DEF k
    <2>1. AsRecorded(c - 1, scan.checked, k)
        BY <1>1, <1>3, <1>4, <1>5, <1>8, FirstRows
    <2>2. QED BY <2>1 DEF k

(***************************************************************************)
(* On a chain that nobody touched no verification of verifier.go reports a *)
(* failure, and it has checked every entry that was there when it started, *)
(* whatever the gaps in seq, the size of a page and the appends meanwhile. *)
(***************************************************************************)
THEOREM UntouchedIsVerified == VerifierSpec => []NoFalseAlarm
<1>1. VerifierInv => NoFalseAlarm
    <2> SUFFICES ASSUME VerifierInv, tampered = "no", Done
                 PROVE  scan.status = "VERIFIED" /\ scan.checked >= scan.from
        BY DEF NoFalseAlarm
    <2>1. \A s \in DOMAIN table : Sound(table, s)
        BY DEF VerifierInv, ContentInv, Whole
    <2>2. scan.status # "INTEGRITY_FAILURE"
        BY <2>1 DEF VerifierInv, ScanInv
    <2>3. QED BY <2>2 DEF Done, VerifierInv, ScanInv
<1>2. QED BY <1>1, VerifierInvariant, PTL

(***************************************************************************)
(* A verdict of verifier.go tells the truth about the entries that were    *)
(* recorded, whichever row one statement touched and whether or not it     *)
(* recomputed the row's hash.  VERIFIED: the rows scanned are the first    *)
(* entries, all of them, or, after a change at the end of the chain that   *)
(* leaves nothing to contradict, all in front of that change.              *)
(* INTEGRITY_FAILURE: the rows in front of the one it names are, or all    *)
(* but the last of them, if that carries the hash of its new contents.     *)
(***************************************************************************)
THEOREM VerdictsAreGenuine == VerifierSpec => []VerdictIsGenuine
<1>1. VerifierInv => VerdictIsGenuine
    BY VerifiedIsGenuine, FailureIsGenuine DEF VerdictIsGenuine
<1>2. QED BY <1>1, VerifierInvariant, PTL
=============================================================================
