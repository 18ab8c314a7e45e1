---------------------------- MODULE ChainVerifier ----------------------------
(***************************************************************************)
(* What the verification of the audit chain can and cannot see.  Entries   *)
(* are recorded one after the other (AuditChain shows that they are); then *)
(* a privileged connection changes audit_log once; then verifyBatches      *)
(* reads the table page by page while entries are still being recorded.    *)
(*                                                                         *)
(* A SHA-256 hash is modelled by the value it is computed from, so that    *)
(* equal hashes mean equal entries.  The fields that the hash covers, all  *)
(* but prev_hash, are one field: data.                                     *)
(***************************************************************************)
EXTENDS Integers, FiniteSets, FiniteSetsExt, Sequences

CONSTANTS
    BatchSize,  \* defaultVerifyBatchSize
    MaxSeq      \* bound on audit_log.seq

ASSUME BatchSizeAssumption == BatchSize \in Nat \ {0}
ASSUME MaxSeqAssumption == MaxSeq \in Nat \ {0}

VARIABLES
    table,      \* audit_log: a row for each seq in use
    sequence,   \* the identity sequence behind audit_log.seq
    recorded,   \* history: the entries that ChainWriter appended, in order
    tampered,   \* history: the kind of change that was made, or "no"
    newest,     \* history: the position of the newest row that it could touch
    scan        \* the state of verifyBatches

verifierVars == <<table, sequence, recorded, tampered, newest, scan>>

NoHash == <<>>
Hash(id, data, prev) == <<id, data, prev>>
ForeignHash == <<"foreign">>  \* a hash that no entry of the table has

VerifierInit ==
    /\ table = <<>>
    /\ sequence = 1
    /\ recorded = <<>>
    /\ tampered = "no"
    /\ newest = 0
    /\ scan = [status |-> "no", cursor |-> 0, prev |-> NoHash, checked |-> 0,
               from |-> 0]

With(seq, row) == [s \in DOMAIN table \cup {seq} |-> IF s = seq THEN row ELSE table[s]]
Without(seq) == [s \in DOMAIN table \ {seq} |-> table[s]]

\* The unique indexes on prev_hash, on the genesis entry and on hash.
UniqueColumns ==
    \A s, t \in DOMAIN table' :
        \/ table'[s].prev = table'[t].prev
        \/ table'[s].hash = table'[t].hash
        => s = t

-----------------------------------------------------------------------------
(* ChainWriter.append, alone *)

HeadHash == IF table = <<>> THEN NoHash ELSE table[Max(DOMAIN table)].hash

NewEntry == [id |-> sequence, data |-> "recorded", prev |-> HeadHash,
             hash |-> Hash(sequence, "recorded", HeadHash)]

AppendEntry ==
    /\ sequence <= MaxSeq
    /\ table' = With(sequence, NewEntry)
    /\ UniqueColumns
    /\ recorded' = Append(recorded, NewEntry)
    /\ sequence' = sequence + 1
    /\ UNCHANGED <<tampered, newest, scan>>

\* A rolled back append leaves a gap in seq.
RolledBack ==
    /\ sequence <= MaxSeq
    /\ sequence' = sequence + 1
    /\ UNCHANGED <<table, recorded, tampered, newest, scan>>

-----------------------------------------------------------------------------
(* One statement of a privileged connection, which touches one row, before *)
(* the scan.  ComputeEntryHash has no key: whoever can write a row can     *)
(* write the hash of its contents.  A statement that rewrites a row and    *)
(* every row behind it is out of this model: nothing outside the table     *)
(* could contradict it.                                                    *)

KnownHashes == {ForeignHash} \cup {table[s].hash : s \in DOMAIN table}

\* Gaps in seq, and the place that the identity column gives out next.
FreePlaces == {t \in (1..sequence) \ DOMAIN table : t <= MaxSeq}

Tamper(how, position) ==
    /\ tampered = "no" /\ scan.status = "no"
    /\ tampered' = how
    /\ newest' = position
    /\ table' # table
    /\ UniqueColumns
    /\ sequence' = IF sequence \in DOMAIN table' THEN sequence + 1 ELSE sequence
    /\ UNCHANGED <<recorded, scan>>

\* Does the row that was written carry the hash of its own contents?
HowWritten(r) == IF r.hash = Hash(r.id, r.data, r.prev) THEN "rehashed" ELSE "yes"

\* UPDATE: any of the columns at once.
Edit ==
    \E s \in DOMAIN table, d \in {"recorded", "altered"}, p \in KnownHashes \cup {NoHash} :
    \E h \in KnownHashes \cup {Hash(table[s].id, d, p)} :
        LET r == [id |-> table[s].id, data |-> d, prev |-> p, hash |-> h] IN
        /\ table' = [table EXCEPT ![s] = r]
        /\ Tamper(HowWritten(r), Len(recorded))

Delete == \E s \in DOMAIN table :
    /\ table' = Without(s)
    /\ Tamper(IF s = Max(DOMAIN table) THEN "cut" ELSE "yes", Len(recorded))

\* A row moved to another place, its content untouched.
Move == \E s \in DOMAIN table, t \in FreePlaces :
    /\ table' = [u \in (DOMAIN table \cup {t}) \ {s} |->
                     IF u = t THEN table[s] ELSE table[u]]
    /\ Tamper("yes", Len(recorded))

\* INSERT: a foreign row, in a gap or behind the newest row.
Forge ==
    \E t \in FreePlaces, p \in KnownHashes \cup {NoHash} :
    \E h \in KnownHashes \cup {Hash(0, "altered", p)} :
        LET r == [id |-> 0, data |-> "altered", prev |-> p, hash |-> h] IN
        /\ table' = With(t, r)
        /\ Tamper(HowWritten(r), Len(recorded) + 1)

-----------------------------------------------------------------------------
(* VerifyBatch and verifyBatches *)

\* ListAuditEntriesFromSeq: the first BatchSize rows after the cursor.
Page(cursor) ==
    LET after == {s \in DOMAIN table : s > cursor}
    IN {s \in after : Cardinality({t \in after : t <= s}) <= BatchSize}

\* The prev_hash that VerifyBatch expects of row s of a page.
ExpectedPrev(page, s, prev) ==
    LET before == {t \in page : t < s}
    IN IF before = {} THEN prev ELSE table[Max(before)].hash

HashMatches(s) == table[s].hash = Hash(table[s].id, table[s].data, table[s].prev)

\* Mutant: the link is not checked.
BadRowsNoLink(page, prev) == {s \in page : ~HashMatches(s)}

BadRows(page, prev) ==
    {s \in page : table[s].prev # ExpectedPrev(page, s, prev) \/ ~HashMatches(s)}

StartScan ==
    /\ scan.status = "no"
    /\ scan' = [scan EXCEPT !.status = "RUNNING", !.from = Cardinality(DOMAIN table)]
    /\ UNCHANGED <<table, sequence, recorded, tampered, newest>>

Verified == scan' = [scan EXCEPT !.status = "VERIFIED"]

\* The first bad row of a page ends the scan.
FailAt(page, bad) ==
    LET s == Min(bad) IN
    scan' = [scan EXCEPT !.status = "INTEGRITY_FAILURE", !.cursor = s,
                         !.checked = @ + Cardinality({t \in page : t < s})]

\* Mutant: LastHash is not carried over to the next page.
NextPageUnlinked(page) ==
    scan' = [scan EXCEPT !.checked = @ + Cardinality(page), !.cursor = Max(page),
                         !.status = IF Cardinality(page) < BatchSize
                                    THEN "VERIFIED" ELSE "RUNNING"]

\* LastHash of a page is the expected prev_hash of the next.
NextPage(page) ==
    scan' = [scan EXCEPT !.checked = @ + Cardinality(page),
                         !.cursor = Max(page), !.prev = table[Max(page)].hash,
                         !.status = IF Cardinality(page) < BatchSize
                                    THEN "VERIFIED" ELSE "RUNNING"]

ScanPage ==
    LET page == Page(scan.cursor)
        bad  == BadRows(page, scan.prev)
    IN
    /\ scan.status = "RUNNING"
    /\ \/ page = {} /\ Verified
       \/ page # {} /\ bad = {} /\ NextPage(page)
       \/ bad # {} /\ FailAt(page, bad)
    /\ UNCHANGED <<table, sequence, recorded, tampered, newest>>

VerifierNext ==
    \/ AppendEntry \/ RolledBack
    \/ Edit \/ Delete \/ Move \/ Forge
    \/ StartScan \/ ScanPage

VerifierSpec == VerifierInit /\ [][VerifierNext]_verifierVars
-----------------------------------------------------------------------------
Done == scan.status \in {"VERIFIED", "INTEGRITY_FAILURE"}

\* The rows up to seq s, in seq order, without their seq.
RowsUpTo(s) ==
    LET seqs == {t \in DOMAIN table : t <= s}
    IN [i \in 1..Cardinality(seqs) |->
          table[CHOOSE t \in seqs : Cardinality({u \in seqs : u <= t}) = i]]

(***************************************************************************)
(* No false alarm: on a chain that nobody touched the verdict is VERIFIED  *)
(* whatever the gaps in seq, the size of the pages and the appends during  *)
(* the scan, and every entry that was there at the start was checked.      *)
(***************************************************************************)
NoFalseAlarm ==
    tampered = "no" /\ Done =>
        scan.status = "VERIFIED" /\ scan.checked >= scan.from

\* Up to place s there are n rows, and at least the first k of them are the
\* first k entries that were recorded, in the order they were recorded.
AsRecorded(s, n, k) ==
    /\ DOMAIN RowsUpTo(s) = 1..n
    /\ k <= n /\ k <= Len(recorded)
    /\ \A i \in 1..k : RowsUpTo(s)[i] = recorded[i]

(***************************************************************************)
(* VERIFIED means that the rows that were scanned are the first entries    *)
(* that were recorded.  One place is out of its sight: at the end of the   *)
(* chain the newest entry may have been deleted, or rewritten with the     *)
(* hash of its new contents, or a row that carries its own hash may have   *)
(* been added; then everything in front of that place is as recorded and   *)
(* was scanned.  No other change of one row goes unnoticed, the hash of    *)
(* the row recomputed or not, wherever pages begin.                        *)
(*   INTEGRITY_FAILURE names a row such that everything in front of it is  *)
(* as recorded, except that the change may be in the row directly in front *)
(* of it if that carries the hash of its new contents; and entries_checked *)
(* counts the rows in front.                                               *)
(***************************************************************************)
VerdictIsGenuine ==
    /\ scan.status = "VERIFIED" =>
          AsRecorded(scan.cursor, scan.checked,
                     IF tampered \in {"cut", "rehashed"} THEN newest - 1 ELSE scan.checked)
    /\ scan.status = "INTEGRITY_FAILURE" =>
          AsRecorded(scan.cursor - 1, scan.checked,
                     IF tampered = "rehashed" THEN scan.checked - 1 ELSE scan.checked)

(***************************************************************************)
(* What docs/AUDIT_CHAIN.md:328-338 lists as detected: a modified, deleted *)
(* or inserted entry, whichever it is.  The code does not keep it at the   *)
(* end of the chain.                                                       *)
(***************************************************************************)
EveryChangeIsDetected ==
    scan.status = "VERIFIED" => AsRecorded(scan.cursor, scan.checked, scan.checked)
                                /\ (tampered # "no" => scan.checked >= newest)
=============================================================================
