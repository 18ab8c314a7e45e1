------------------------ MODULE BlockchainAnchorProofs ------------------------
(***************************************************************************)
(* Proofs about BlockchainAnchor, for any number of documents, workers,    *)
(* retries and faults: what the database says of the ledger is true, and   *)
(* no verification accuses a document that nobody changed.                 *)
(***************************************************************************)
EXTENDS BlockchainAnchor, TLAPS

LEMMA AnchorFacts ==
    ASSUME NEW a \in Anchors
    PROVE  /\ DocumentOf(a) \in Documents /\ EventOf(a) \in Events
           /\ HashOf(a) \in Anchors /\ HashOf(a) # None
           /\ EventAllowed(EventOf(a)) => HashOf(a) = Registered(DocumentOf(a))
BY NoneAssumption
   DEF Anchors, DocumentOf, EventOf, HashOf, Events, EventAllowed, Registered

(***************************************************************************)
(* The inductive invariant                                                 *)
(***************************************************************************)
\* A worker that is not idle works on an anchor.
Working == \A w \in Workers : exec[w].pc # "idle" => exec[w].job \in Anchors

\* Transaction ids are drawn in order.
IdsInv ==
    /\ \A t \in inflight : t.tx <= submitted
    /\ \A d \in Documents : ledger[d].tx <= submitted
    /\ \A w \in Workers : exec[w].tx <= submitted

\* A worker waits for a transaction of its own making.
WaitInv ==
    \A w \in Workers :
        exec[w].pc = "wait" =>
            /\ \A t \in inflight :
                  t.tx = exec[w].tx => t.doc = DocumentOf(exec[w].job)
                                       /\ t.hash = HashOf(exec[w].job)
            /\ ledger[DocumentOf(exec[w].job)].tx = exec[w].tx =>
                  ledger[DocumentOf(exec[w].job)].hash = HashOf(exec[w].job)

\* What a worker is about to write down, or has, is on the ledger.
ConfirmInv ==
    \A w \in Workers :
        /\ exec[w].pc = "confirm" =>
              ledger[DocumentOf(exec[w].job)] = [hash |-> HashOf(exec[w].job), tx |-> exec[w].tx]
        /\ exec[w].pc = "announce" =>
              ledger[DocumentOf(exec[w].job)].hash = HashOf(exec[w].job)

\* Nothing but an event that the table takes gets as far as the ledger.
AllowedInv ==
    /\ \A a \in Anchors :
          row[a].status # "none" \/ request[a] = "enqueue" \/ task[a] # "none" =>
              EventAllowed(EventOf(a))
    /\ \A w \in Workers : exec[w].pc # "idle" => EventAllowed(EventOf(exec[w].job))
    /\ \A t \in inflight : t.hash = Registered(t.doc)
    /\ \A d \in Documents : ledger[d].hash \in {None, Registered(d)}

\* A verification that found a confirmed anchor asks about a known document.
CheckInv ==
    /\ \A d \in Documents : latest[d] # None => DocumentOf(latest[d]) = d
    /\ check.chain = "asked" => check.doc \in Documents /\ ledger[check.doc].hash # None
    /\ LedgerVerdictJust

LedgerInv == TypeOK /\ Working /\ IdsInv /\ WaitInv /\ ConfirmInv /\ ConfirmedOnLedger
AnchorInv == LedgerInv /\ AllowedInv /\ CheckInv

-----------------------------------------------------------------------------
(***************************************************************************)
(* Types                                                                   *)
(***************************************************************************)
RowRecord == [status : {"none", "PENDING", "CONFIRMED", "FAILED"},
              tx : Nat, retryCount : Nat]
ExecRecord == [pc : {"idle", "load", "submit", "wait", "increment", "confirm",
                     "announce", "nil", "error", "giveup"},
               job : Anchors \cup {None}, tx : Nat]

At(w, p) == [pc |-> p, job |-> exec[w].job, tx |-> exec[w].tx]

LEMMA InitType == Init => TypeOK /\ Working
BY RetryAssumption, FaultsAssumption
   DEF Init, TypeOK, Working, NoRow, NoRecord, Idle, NoVerdict

\* A step of worker w that takes it to record t.
LEMMA ExecType ==
    ASSUME TypeOK, Working, NEW w \in Workers, NEW t \in ExecRecord,
           exec' = [exec EXCEPT ![w] = t], t.pc # "idle" => t.job \in Anchors
    PROVE  exec' \in [Workers -> ExecRecord] /\ Working'
BY DEF TypeOK, Working, ExecRecord

LEMMA GotoType ==
    ASSUME TypeOK, Working, NEW w \in Workers, exec[w].pc # "idle",
           NEW p \in {"submit", "increment", "confirm", "announce", "nil", "error",
                      "giveup"},
           Goto(w, p)
    PROVE  /\ exec' = [exec EXCEPT ![w] = At(w, p)]
           /\ exec' \in [Workers -> ExecRecord] /\ Working'
<1>1. exec' = [exec EXCEPT ![w] = At(w, p)]
  <2>1. [exec[w] EXCEPT !.pc = p] = At(w, p)
    BY DEF At, TypeOK
  <2> QED  BY <2>1 DEF Goto
<1>2. At(w, p) \in ExecRecord /\ At(w, p).job \in Anchors
  BY DEF At, TypeOK, Working, ExecRecord
<1> QED  BY <1>1, <1>2, ExecType

LEMMA IdleType ==
    ASSUME TypeOK, Working, NEW w \in Workers, exec' = [exec EXCEPT ![w] = Idle]
    PROVE  exec' \in [Workers -> ExecRecord] /\ Working'
<1>1. Idle \in ExecRecord /\ Idle.pc = "idle"
  BY DEF Idle, ExecRecord
<1> QED  BY <1>1, ExecType

LEMMA RetryType ==
    ASSUME TypeOK, NEW a \in Anchors, RetryOrArchive(a)
    PROVE  /\ task' \in [Anchors -> {"none", "pending", "active", "retry", "completed",
                                     "archived"}]
           /\ retried' \in [Anchors -> 0..MaxRetry]
<1>1. CASE retried[a] < MaxRetry
  <2>1. retried[a] + 1 \in 0..MaxRetry
    BY <1>1, RetryAssumption DEF TypeOK
  <2> QED  BY <1>1, <2>1 DEF TypeOK, RetryOrArchive
<1>2. CASE ~(retried[a] < MaxRetry)
  BY <1>2 DEF TypeOK, RetryOrArchive
<1> QED  BY <1>1, <1>2

\* What the chaincode makes of a proposal: it endorses the write, it reports
\* the transaction that the ledger has, or it refuses.
LEMMA EvidenceExec ==
    ASSUME TypeOK, NEW w \in Workers, exec[w].job \in Anchors,
           AnchorEvidence(w, exec[w].job)
    PROVE  LET a == exec[w].job
               r == ledger[DocumentOf(a)]
           IN  \E t \in ExecRecord :
                  /\ exec' = [exec EXCEPT ![w] = t] /\ t.job = a
                  /\ \/ /\ r.hash = None /\ t.pc = "wait" /\ t.tx = submitted + 1
                        /\ submitted' = submitted + 1
                        /\ inflight' = inflight \cup {[doc |-> DocumentOf(a),
                                          hash |-> HashOf(a), tx |-> submitted + 1]}
                     \/ /\ r.hash = HashOf(a) /\ t.pc = "confirm" /\ t.tx = r.tx
                        /\ UNCHANGED <<inflight, submitted>>
                     \/ /\ t.pc = "increment" /\ t.tx = exec[w].tx
                        /\ UNCHANGED <<inflight, submitted>>
<1> DEFINE a == exec[w].job
           r == ledger[DocumentOf(a)]
<1>0. r.tx \in Nat /\ submitted \in Nat /\ exec[w].tx \in Nat
  BY AnchorFacts DEF TypeOK
<1>e. exec[w] \in ExecRecord
  BY DEF TypeOK, ExecRecord
<1>1. CASE r.hash = None
  <2>n. PICK n \in Nat : n = submitted + 1
    BY <1>0
  <2> DEFINE t == [exec[w] EXCEPT !.pc = "wait", !.tx = n]
  <2>0. t = [exec[w] EXCEPT !.pc = "wait", !.tx = n]
    OBVIOUS
  <2>1. t \in ExecRecord /\ t.pc = "wait" /\ t.job = a /\ t.tx = n
    <3> HIDE DEF t
    <3> QED  BY <1>0, <1>e, <2>0 DEF ExecRecord
  <2>2. exec' = [exec EXCEPT ![w] = t]
    BY <1>1, <2>n DEF AnchorEvidence, Propose, TypeOK
  <2> HIDE DEF t
  <2> QED  BY <1>1, <2>n, <2>1, <2>2 DEF AnchorEvidence, Propose
<1>2. CASE r.hash # None /\ r.hash = HashOf(a)
  <2> DEFINE t == [exec[w] EXCEPT !.pc = "confirm", !.tx = r.tx]
  <2>0. t = [exec[w] EXCEPT !.pc = "confirm", !.tx = r.tx]
    OBVIOUS
  <2>1. t \in ExecRecord /\ t.pc = "confirm" /\ t.job = a /\ t.tx = r.tx
    <3> HIDE DEF t
    <3> QED  BY <1>0, <1>e, <2>0 DEF ExecRecord
  <2>2. exec' = [exec EXCEPT ![w] = t]
    BY <1>2 DEF AnchorEvidence
  <2> HIDE DEF t
  <2> QED  BY <1>2, <2>1, <2>2 DEF AnchorEvidence
<1>3. CASE r.hash # None /\ r.hash # HashOf(a)
  <2> DEFINE t == [exec[w] EXCEPT !.pc = "increment"]
  <2>1. t \in ExecRecord /\ t.pc = "increment" /\ t.job = a /\ t.tx = exec[w].tx
    BY <1>0 DEF TypeOK, ExecRecord
  <2>2. exec' = [exec EXCEPT ![w] = t]
    BY <1>3 DEF AnchorEvidence
  <2> HIDE DEF t
  <2> QED  BY <1>3, <2>1, <2>2 DEF AnchorEvidence
<1> QED  BY <1>1, <1>2, <1>3

Verdicts == [doc : Documents \cup {None}, confirmed : BOOLEAN,
             chain : {"none", "asked", "MATCH", "CHAIN_MISMATCH", "NOT_ANCHORED",
                      "UNAVAILABLE"},
             status : {"none", "VERIFIED", "CHAIN_MISMATCH", "INTEGRITY_FAILURE"},
             onLedger : BOOLEAN]

\* The verdict of a check is resolved from what was found.
LEMMA ResolveCheck ==
    ASSUME NEW d \in Documents \cup {None}, NEW onChain,
           NEW chain \in {"MATCH", "CHAIN_MISMATCH", "NOT_ANCHORED", "UNAVAILABLE"},
           NEW confirmed \in BOOLEAN, Resolve(d, confirmed, chain, onChain)
    PROVE  /\ check' \in Verdicts
           /\ check'.doc = d /\ check'.chain = chain /\ check'.confirmed = confirmed
           /\ check'.status = "CHAIN_MISMATCH" => chain = "CHAIN_MISMATCH"
           /\ check'.status = "INTEGRITY_FAILURE" /\ check'.onLedger =>
                 chain \in {"MATCH", "CHAIN_MISMATCH"} /\ onChain # Registered(d)
<1>1. PICK file \in Files(d) :
        check' = [doc |-> d, confirmed |-> confirmed, chain |-> chain,
                  onLedger |-> chain \in {"MATCH", "CHAIN_MISMATCH"} /\ file = onChain,
                  status |-> CASE file # Registered(d) -> "INTEGRITY_FAILURE"
                               [] file = Registered(d) /\ chain = "CHAIN_MISMATCH" -> chain
                               [] OTHER -> "VERIFIED"]
  BY DEF Resolve
<1>2. check'.status \in {"VERIFIED", "CHAIN_MISMATCH", "INTEGRITY_FAILURE"}
  BY <1>1
<1>3. check'.onLedger \in BOOLEAN
  BY <1>1
<1>4. check' \in Verdicts
  BY <1>1, <1>2, <1>3 DEF Verdicts
<1> QED  BY <1>1, <1>4

LEMMA CheckType ==
    ASSUME TypeOK, FindAnchor \/ VerifyEvidence
    PROVE  check' \in Verdicts
<1>1. CASE FindAnchor
  <2>1. PICK d \in Documents :
           \/ check' = [NoVerdict EXCEPT !.doc = d, !.confirmed = TRUE, !.chain = "asked"]
           \/ \E chain \in {"NOT_ANCHORED", "UNAVAILABLE"} : Resolve(d, FALSE, chain, None)
    BY <1>1 DEF FindAnchor
  <2>2. CASE check' = [NoVerdict EXCEPT !.doc = d, !.confirmed = TRUE, !.chain = "asked"]
    BY <2>2 DEF NoVerdict, Verdicts
  <2>3. CASE \E chain \in {"NOT_ANCHORED", "UNAVAILABLE"} : Resolve(d, FALSE, chain, None)
    BY <2>3, ResolveCheck
  <2> QED  BY <2>1, <2>2, <2>3
<1>2. CASE VerifyEvidence
  <2>1. PICK chain \in {"MATCH", "CHAIN_MISMATCH", "NOT_ANCHORED", "UNAVAILABLE"} :
             \E onChain : Resolve(check.doc, TRUE, chain, onChain)
    BY <1>2 DEF VerifyEvidence
  <2>2. check.doc \in Documents \cup {None}
    BY DEF TypeOK
  <2> QED  BY <2>1, <2>2, ResolveCheck
<1> QED  BY <1>1, <1>2

LEMMA StepType == TypeOK /\ Working /\ [Next]_vars => (TypeOK /\ Working)'
<1> SUFFICES ASSUME TypeOK /\ Working, [Next]_vars
             PROVE  (TypeOK /\ Working)'
  OBVIOUS
<1> USE AnchorFacts DEF TypeOK, Working
<1>1. ASSUME NEW a \in Anchors, CreateRow(a)
      PROVE  (TypeOK /\ Working)'
  <2>1. row' \in [Anchors -> RowRecord]
    <3> DEFINE t == [row[a] EXCEPT !.status = "PENDING"]
    <3>1. t \in RowRecord
      BY DEF RowRecord
    <3>2. row' = row \/ row' = [row EXCEPT ![a] = t]
      BY <1>1 DEF CreateRow
    <3> HIDE DEF t
    <3> QED  BY <3>1, <3>2 DEF RowRecord
  <2>2. latest' \in [Documents -> Anchors \cup {None}]
    BY <1>1 DEF CreateRow
  <2> QED  BY <1>1, <2>1, <2>2 DEF CreateRow, Fault, RowRecord
<1>2. ASSUME NEW a \in Anchors, Enqueue(a)
      PROVE  (TypeOK /\ Working)'
  BY <1>2 DEF Enqueue, Fault
<1>3. ASSUME NEW w \in Workers, Dequeue(w)
      PROVE  (TypeOK /\ Working)'
  BY <1>3 DEF Dequeue
<1>4. ASSUME NEW w \in Workers, Abandon(w)
      PROVE  (TypeOK /\ Working)'
  <2>1. exec' = [exec EXCEPT ![w] = Idle] /\ exec[w].job \in Anchors
    BY <1>4 DEF Abandon
  <2>2. /\ task' \in [Anchors -> {"none", "pending", "active", "retry", "completed",
                                  "archived"}]
        /\ retried' \in [Anchors -> 0..MaxRetry]
    BY <1>4, <2>1, RetryType DEF Abandon
  <2>3. exec' \in [Workers -> ExecRecord] /\ Working'
    BY <2>1, IdleType
  <2> QED  BY <1>4, <2>2, <2>3 DEF Abandon, Fault, ExecRecord
<1>5. ASSUME NEW w \in Workers, ReturnNil(w)
      PROVE  (TypeOK /\ Working)'
  BY <1>5 DEF ReturnNil, Idle
<1>6. ASSUME NEW w \in Workers, Load(w)
      PROVE  (TypeOK /\ Working)'
  BY <1>6 DEF Load, Goto, Fault
<1>7. ASSUME NEW w \in Workers, Submit(w)
      PROVE  (TypeOK /\ Working)'
  <2>1. exec' \in [Workers -> ExecRecord] /\ Working'
    <3>1. CASE Goto(w, "increment")
      BY <1>7, <3>1, GotoType DEF Submit
    <3>2. CASE AnchorEvidence(w, exec[w].job)
      BY <1>7, <3>2, EvidenceExec, ExecType DEF Submit
    <3> QED  BY <1>7, <3>1, <3>2 DEF Submit
  <2>2. submitted' \in Nat
        /\ inflight' \subseteq [doc : Documents, hash : Anchors, tx : Nat]
    BY <1>7 DEF Submit, AnchorEvidence, Propose
  <2> QED  BY <1>7, <2>1, <2>2 DEF Submit, Fault, ExecRecord
<1>8. ASSUME NEW w \in Workers, AwaitCommit(w)
      PROVE  (TypeOK /\ Working)'
  <2>1. exec' \in [Workers -> ExecRecord] /\ Working'
    BY <1>8, GotoType DEF AwaitCommit
  <2> QED  BY <1>8, <2>1 DEF AwaitCommit, Fault, ExecRecord
<1>9. ASSUME NEW w \in Workers, IncrementRetry(w)
      PROVE  (TypeOK /\ Working)'
  <2>1. exec' \in [Workers -> ExecRecord] /\ Working'
    BY <1>9, GotoType DEF IncrementRetry
  <2>2. row' \in [Anchors -> RowRecord]
    BY <1>9 DEF IncrementRetry, RowRecord
  <2> QED  BY <1>9, <2>1, <2>2 DEF IncrementRetry, Fault, ExecRecord, RowRecord
<1>10. ASSUME NEW w \in Workers, MarkConfirmed(w)
      PROVE  (TypeOK /\ Working)'
  <2>1. exec' \in [Workers -> ExecRecord] /\ Working'
    BY <1>10, GotoType DEF MarkConfirmed
  <2>2. row' \in [Anchors -> RowRecord]
    BY <1>10 DEF MarkConfirmed, RowRecord
  <2> QED  BY <1>10, <2>1, <2>2 DEF MarkConfirmed, Fault, ExecRecord, RowRecord
<1>11. ASSUME NEW w \in Workers, Announce(w)
      PROVE  (TypeOK /\ Working)'
  BY <1>11 DEF Announce, Goto
<1>12. ASSUME NEW w \in Workers, HandleError(w)
      PROVE  (TypeOK /\ Working)'
  <2>1. CASE retried[exec[w].job] >= MaxRetry
    BY <1>12, <2>1, GotoType DEF HandleError, ExecRecord
  <2>2. CASE ~(retried[exec[w].job] >= MaxRetry)
    BY <1>12, <2>2, IdleType, RetryType DEF HandleError, ExecRecord
  <2> QED  BY <2>1, <2>2
<1>13. ASSUME NEW w \in Workers, GiveUp(w)
      PROVE  (TypeOK /\ Working)'
  <2>1. exec' = [exec EXCEPT ![w] = Idle] /\ exec[w].job \in Anchors /\ row' = row
    BY <1>13 DEF GiveUp, MarkFailed
  <2> QED  BY <1>13, <2>1, IdleType, RetryType DEF GiveUp, ExecRecord
<1>14. ASSUME NEW t \in inflight, CommitTransaction(t)
      PROVE  (TypeOK /\ Working)'
  BY <1>14 DEF CommitTransaction
<1>15. ASSUME NEW t \in inflight, DropTransaction(t)
      PROVE  (TypeOK /\ Working)'
  BY <1>15 DEF DropTransaction, Fault
<1>16. ASSUME FindAnchor
      PROVE  (TypeOK /\ Working)'
  BY <1>16, CheckType DEF FindAnchor, Verdicts
<1>17. ASSUME VerifyEvidence
      PROVE  (TypeOK /\ Working)'
  BY <1>17, CheckType DEF VerifyEvidence, Verdicts
<1>18. CASE UNCHANGED vars
  BY <1>18 DEF vars
<1> QED
  BY <1>1, <1>2, <1>3, <1>4, <1>5, <1>6, <1>7, <1>8, <1>9, <1>10, <1>11, <1>12, <1>13, <1>14, <1>15, <1>16, <1>17, <1>18
     DEF Next, WorkerStep, OrderingStep

-----------------------------------------------------------------------------
(***************************************************************************)
(* The ledger and what is known of it                                      *)
(***************************************************************************)
\* Worker w moves to record t, and the ledger stands still.
LEMMA WorkerMoves ==
    ASSUME LedgerInv, NEW w \in Workers, NEW t \in ExecRecord,
           exec' = [exec EXCEPT ![w] = t],
           UNCHANGED <<inflight, ledger, submitted>>,
           t.tx <= submitted, t.pc # "wait",
           t.pc = "confirm" =>
              ledger[DocumentOf(t.job)] = [hash |-> HashOf(t.job), tx |-> t.tx],
           t.pc = "announce" => ledger[DocumentOf(t.job)].hash = HashOf(t.job)
    PROVE  IdsInv' /\ WaitInv' /\ ConfirmInv'
<1>1. exec'[w] = t /\ \A v \in Workers : v # w => exec'[v] = exec[v]
  BY DEF LedgerInv, TypeOK
<1>2. IdsInv'
  BY <1>1 DEF LedgerInv, IdsInv
<1>3. WaitInv'
  BY <1>1 DEF LedgerInv, WaitInv
<1>4. ConfirmInv'
  BY <1>1 DEF LedgerInv, ConfirmInv
<1> QED  BY <1>2, <1>3, <1>4

LEMMA WorkerStops ==
    ASSUME LedgerInv, NEW w \in Workers, exec' = [exec EXCEPT ![w] = Idle],
           UNCHANGED <<inflight, ledger, submitted>>
    PROVE  IdsInv' /\ WaitInv' /\ ConfirmInv'
<1>1. Idle \in ExecRecord /\ Idle.pc = "idle" /\ Idle.tx = 0
  BY DEF Idle, ExecRecord
<1>2. Idle.tx <= submitted
  BY <1>1 DEF LedgerInv, TypeOK
<1> QED  BY <1>1, <1>2, WorkerMoves

LEMMA WorkerGoes ==
    ASSUME LedgerInv, NEW w \in Workers, exec[w].pc # "idle",
           NEW p \in {"submit", "increment", "confirm", "announce", "nil", "error",
                      "giveup"},
           Goto(w, p), UNCHANGED <<inflight, ledger, submitted>>,
           LET a == exec[w].job IN
           /\ p = "confirm" =>
                 ledger[DocumentOf(a)] = [hash |-> HashOf(a), tx |-> exec[w].tx]
           /\ p = "announce" => ledger[DocumentOf(a)].hash = HashOf(a)
    PROVE  IdsInv' /\ WaitInv' /\ ConfirmInv'
<1>1. exec' = [exec EXCEPT ![w] = At(w, p)]
  BY GotoType DEF LedgerInv
<1>2. /\ At(w, p) \in ExecRecord
      /\ At(w, p).pc = p /\ At(w, p).job = exec[w].job /\ At(w, p).tx = exec[w].tx
  BY DEF LedgerInv, At, TypeOK, Working, ExecRecord
<1>3. At(w, p).tx <= submitted
  BY <1>2 DEF LedgerInv, IdsInv
<1> QED  BY <1>1, <1>2, <1>3, WorkerMoves

\* A step behind which no row says more than before.
LEMMA RowsStay ==
    ASSUME LedgerInv, UNCHANGED <<ledger, announced>>,
           \A a \in Anchors : row'[a].status = "CONFIRMED" =>
              row[a].status = "CONFIRMED" /\ row'[a].tx = row[a].tx
    PROVE  ConfirmedOnLedger'
BY DEF LedgerInv, ConfirmedOnLedger

LEMMA StepLedger == LedgerInv /\ [Next]_vars => LedgerInv'
<1> SUFFICES ASSUME LedgerInv, [Next]_vars
             PROVE  LedgerInv'
  OBVIOUS
<1>0. TypeOK' /\ Working'
  BY StepType DEF LedgerInv
<1>s. SUFFICES (IdsInv' /\ WaitInv' /\ ConfirmInv') /\ ConfirmedOnLedger'
  BY <1>0 DEF LedgerInv
<1>i. ASSUME UNCHANGED <<exec, inflight, ledger, submitted>>
      PROVE  IdsInv' /\ WaitInv' /\ ConfirmInv'
  BY <1>i DEF LedgerInv, IdsInv, WaitInv, ConfirmInv
<1>1. ASSUME NEW a \in Anchors, CreateRow(a)
      PROVE  (IdsInv' /\ WaitInv' /\ ConfirmInv') /\ ConfirmedOnLedger'
  <2>1. \A b \in Anchors : row'[b].status = "CONFIRMED" => row'[b] = row[b]
    BY <1>1 DEF CreateRow, LedgerInv, TypeOK
  <2>2. ConfirmedOnLedger'
    BY <1>1, <2>1, RowsStay DEF CreateRow
  <2> QED  BY <1>1, <1>i, <2>2 DEF CreateRow
<1>2. ASSUME NEW a \in Anchors, Enqueue(a)
      PROVE  (IdsInv' /\ WaitInv' /\ ConfirmInv') /\ ConfirmedOnLedger'
  BY <1>2, <1>i, RowsStay DEF Enqueue
<1>3. ASSUME NEW w \in Workers, Dequeue(w)
      PROVE  (IdsInv' /\ WaitInv' /\ ConfirmInv') /\ ConfirmedOnLedger'
  <2>1. PICK a \in Anchors : exec' = [exec EXCEPT ![w] = [pc |-> "load", job |-> a, tx |-> 0]]
    BY <1>3 DEF Dequeue
  <2> DEFINE t == [pc |-> "load", job |-> a, tx |-> 0]
  <2>2. t \in ExecRecord /\ t.pc = "load" /\ t.tx <= submitted
    BY DEF ExecRecord, LedgerInv, TypeOK
  <2> HIDE DEF t
  <2>3. UNCHANGED <<inflight, ledger, submitted, row, announced>>
    BY <1>3 DEF Dequeue
  <2>4. IdsInv' /\ WaitInv' /\ ConfirmInv'
    BY <2>1, <2>2, <2>3, WorkerMoves DEF t
  <2> QED  BY <2>3, <2>4, RowsStay
<1>4. ASSUME NEW w \in Workers, Abandon(w)
      PROVE  (IdsInv' /\ WaitInv' /\ ConfirmInv') /\ ConfirmedOnLedger'
  BY <1>4, WorkerStops, RowsStay DEF Abandon
<1>5. ASSUME NEW w \in Workers, ReturnNil(w)
      PROVE  (IdsInv' /\ WaitInv' /\ ConfirmInv') /\ ConfirmedOnLedger'
  BY <1>5, WorkerStops, RowsStay DEF ReturnNil
<1>6. ASSUME NEW w \in Workers, Load(w)
      PROVE  (IdsInv' /\ WaitInv' /\ ConfirmInv') /\ ConfirmedOnLedger'
  BY <1>6, WorkerGoes, RowsStay DEF Load
<1>7. ASSUME NEW w \in Workers, Submit(w)
      PROVE  (IdsInv' /\ WaitInv' /\ ConfirmInv') /\ ConfirmedOnLedger'
  <2>0. ConfirmedOnLedger'
    BY <1>7, RowsStay DEF Submit
  <2>1. CASE Goto(w, "increment") /\ UNCHANGED <<inflight, submitted>>
    BY <1>7, <2>0, <2>1, WorkerGoes DEF Submit
  <2>2. CASE AnchorEvidence(w, exec[w].job)
    <3> DEFINE a == exec[w].job
               r == ledger[DocumentOf(a)]
               new == [doc |-> DocumentOf(a), hash |-> HashOf(a), tx |-> submitted + 1]
    <3>0. a \in Anchors /\ ledger' = ledger
      BY <1>7 DEF Submit, LedgerInv, Working
    <3>1. PICK t \in ExecRecord :
                  /\ exec' = [exec EXCEPT ![w] = t] /\ t.job = a
                  /\ \/ /\ r.hash = None /\ t.pc = "wait" /\ t.tx = submitted + 1
                        /\ submitted' = submitted + 1
                        /\ inflight' = inflight \cup {new}
                     \/ /\ r.hash = HashOf(a) /\ t.pc = "confirm" /\ t.tx = r.tx
                        /\ UNCHANGED <<inflight, submitted>>
                     \/ /\ t.pc = "increment" /\ t.tx = exec[w].tx
                        /\ UNCHANGED <<inflight, submitted>>
      BY <2>2, <3>0, EvidenceExec DEF LedgerInv
    <3>2. CASE inflight' = inflight \cup {new} /\ submitted' = submitted + 1
               /\ t.pc = "wait" /\ t.tx = submitted + 1
      <4>1. exec'[w] = t /\ \A v \in Workers : v # w => exec'[v] = exec[v]
        BY <3>1 DEF LedgerInv, TypeOK
      <4>2. /\ submitted \in Nat /\ \A d \in Documents : ledger[d].tx \in Nat
            /\ \A v \in Workers : exec[v].tx \in Nat
            /\ \A u \in inflight : u.tx \in Nat
        BY DEF LedgerInv, TypeOK
      <4>3. new.tx = submitted + 1 /\ new.doc = DocumentOf(a) /\ new.hash = HashOf(a)
        OBVIOUS
      <4> HIDE DEF new
      <4>4. IdsInv'
        BY <3>0, <3>2, <4>1, <4>2, <4>3 DEF LedgerInv, IdsInv
      <4>5. WaitInv'
        <5> SUFFICES ASSUME NEW v \in Workers, exec'[v].pc = "wait"
                     PROVE  /\ \A u \in inflight' :
                                 u.tx = exec'[v].tx => u.doc = DocumentOf(exec'[v].job)
                                                       /\ u.hash = HashOf(exec'[v].job)
                            /\ ledger'[DocumentOf(exec'[v].job)].tx = exec'[v].tx =>
                                 ledger'[DocumentOf(exec'[v].job)].hash
                                    = HashOf(exec'[v].job)
          BY DEF WaitInv
        <5>1. CASE v = w
          <6>1. \A u \in inflight : u.tx # submitted + 1
            BY <4>2 DEF LedgerInv, IdsInv
          <6>2. r.tx # submitted + 1
            BY <3>0, <4>2, AnchorFacts DEF LedgerInv, IdsInv
          <6> QED  BY <3>0, <3>1, <3>2, <4>1, <4>3, <5>1, <6>1, <6>2
        <5>2. CASE v # w
          <6>1. exec[v].tx # submitted + 1
            BY <4>2 DEF LedgerInv, IdsInv
          <6> QED  BY <3>0, <3>2, <4>1, <4>3, <5>2, <6>1 DEF LedgerInv, WaitInv
        <5> QED  BY <5>1, <5>2
      <4>6. ConfirmInv'
        BY <3>0, <3>2, <4>1 DEF LedgerInv, ConfirmInv
      <4> QED  BY <2>0, <4>4, <4>5, <4>6
    <3>3. CASE r.hash = HashOf(a) /\ t.pc = "confirm" /\ t.tx = r.tx
               /\ UNCHANGED <<inflight, submitted>>
      <4>1. r = [hash |-> HashOf(a), tx |-> t.tx] /\ t.tx <= submitted
        BY <3>0, <3>3, AnchorFacts DEF LedgerInv, TypeOK, IdsInv
      <4> QED  BY <2>0, <3>0, <3>1, <3>3, <4>1, WorkerMoves
    <3>4. CASE t.pc = "increment" /\ t.tx = exec[w].tx
               /\ UNCHANGED <<inflight, submitted>>
      <4>1. t.tx <= submitted
        BY <3>4 DEF LedgerInv, IdsInv
      <4> QED  BY <2>0, <3>0, <3>1, <3>4, <4>1, WorkerMoves
    <3> QED  BY <3>1, <3>2, <3>3, <3>4
  <2> QED  BY <1>7, <2>1, <2>2 DEF Submit
<1>8. ASSUME NEW w \in Workers, AwaitCommit(w)
      PROVE  (IdsInv' /\ WaitInv' /\ ConfirmInv') /\ ConfirmedOnLedger'
  <2> DEFINE a == exec[w].job
             r == ledger[DocumentOf(a)]
  <2>0. UNCHANGED <<inflight, ledger, submitted, row, announced>> /\ exec[w].pc = "wait"
    BY <1>8 DEF AwaitCommit
  <2>1. ConfirmedOnLedger'
    BY <2>0, RowsStay
  <2>2. CASE r.tx = exec[w].tx /\ Goto(w, "confirm")
    <3>1. a \in Anchors /\ r.hash = HashOf(a)
      BY <2>0, <2>2 DEF LedgerInv, Working, WaitInv
    <3>2. r = [hash |-> HashOf(a), tx |-> exec[w].tx]
      BY <2>2, <3>1, AnchorFacts DEF LedgerInv, TypeOK
    <3> QED  BY <2>0, <2>1, <2>2, <3>2, WorkerGoes
  <2>3. CASE Goto(w, "increment")
    BY <2>0, <2>1, <2>3, WorkerGoes
  <2> QED  BY <1>8, <2>2, <2>3 DEF AwaitCommit
<1>9. ASSUME NEW w \in Workers, IncrementRetry(w)
      PROVE  (IdsInv' /\ WaitInv' /\ ConfirmInv') /\ ConfirmedOnLedger'
  <2>1. \A b \in Anchors : row'[b].status = row[b].status /\ row'[b].tx = row[b].tx
    BY <1>9 DEF IncrementRetry, LedgerInv, TypeOK
  <2> QED  BY <1>9, <2>1, WorkerGoes, RowsStay DEF IncrementRetry
<1>10. ASSUME NEW w \in Workers, MarkConfirmed(w)
      PROVE  (IdsInv' /\ WaitInv' /\ ConfirmInv') /\ ConfirmedOnLedger'
  <2> DEFINE a == exec[w].job
  <2>0. a \in Anchors /\ UNCHANGED <<inflight, ledger, submitted, announced>>
    BY <1>10 DEF MarkConfirmed, LedgerInv, Working
  <2>1. ledger[DocumentOf(a)] = [hash |-> HashOf(a), tx |-> exec[w].tx]
    BY <1>10 DEF MarkConfirmed, LedgerInv, ConfirmInv
  <2>2. \A b \in Anchors : row'[b].status = "CONFIRMED" =>
            \/ row[b].status = "CONFIRMED" /\ row'[b].tx = row[b].tx
            \/ b = a /\ row'[b].tx = exec[w].tx
    BY <1>10 DEF MarkConfirmed, LedgerInv, TypeOK
  <2>3. ConfirmedOnLedger'
    BY <2>0, <2>1, <2>2 DEF LedgerInv, ConfirmedOnLedger
  <2> QED  BY <1>10, <2>0, <2>1, <2>3, WorkerGoes DEF MarkConfirmed
<1>11. ASSUME NEW w \in Workers, Announce(w)
      PROVE  (IdsInv' /\ WaitInv' /\ ConfirmInv') /\ ConfirmedOnLedger'
  <2>1. ledger[DocumentOf(exec[w].job)].hash = HashOf(exec[w].job)
    BY <1>11 DEF Announce, LedgerInv, ConfirmInv
  <2>2. ConfirmedOnLedger'
    BY <1>11, <2>1 DEF Announce, LedgerInv, ConfirmedOnLedger
  <2> QED  BY <1>11, <2>2, WorkerGoes DEF Announce
<1>12. ASSUME NEW w \in Workers, HandleError(w)
      PROVE  (IdsInv' /\ WaitInv' /\ ConfirmInv') /\ ConfirmedOnLedger'
  BY <1>12, WorkerGoes, WorkerStops, RowsStay DEF HandleError
<1>13. ASSUME NEW w \in Workers, GiveUp(w)
      PROVE  (IdsInv' /\ WaitInv' /\ ConfirmInv') /\ ConfirmedOnLedger'
  <2>1. row' = row
    BY <1>13 DEF GiveUp, MarkFailed
  <2> QED  BY <1>13, <2>1, WorkerStops, RowsStay DEF GiveUp
<1>14. ASSUME NEW t \in inflight, CommitTransaction(t)
      PROVE  (IdsInv' /\ WaitInv' /\ ConfirmInv') /\ ConfirmedOnLedger'
  <2>0. /\ UNCHANGED <<exec, submitted, row, announced>> /\ inflight' \subseteq inflight
        /\ t.doc \in Documents
    BY <1>14 DEF CommitTransaction, LedgerInv, TypeOK
  <2>1. \A d \in Documents :
           \/ ledger'[d] = ledger[d]
           \/ /\ d = t.doc /\ ledger[d].hash = None
              /\ ledger'[d].hash = t.hash /\ ledger'[d].tx = t.tx
    BY <1>14 DEF CommitTransaction, LedgerInv, TypeOK
  <2>2. IdsInv'
    BY <2>0, <2>1 DEF LedgerInv, IdsInv
  <2>3. WaitInv'
    BY <2>0, <2>1, AnchorFacts DEF LedgerInv, Working, WaitInv
  <2>4. ConfirmInv'
    BY <2>0, <2>1, AnchorFacts DEF LedgerInv, Working, ConfirmInv
  <2>5. ConfirmedOnLedger'
    <3>1. \A a \in Anchors : ledger[DocumentOf(a)].hash = HashOf(a) =>
                ledger'[DocumentOf(a)] = ledger[DocumentOf(a)]
      BY <2>1, AnchorFacts
    <3> QED  BY <2>0, <3>1 DEF LedgerInv, ConfirmedOnLedger
  <2> QED  BY <2>2, <2>3, <2>4, <2>5
<1>15. ASSUME NEW t \in inflight, DropTransaction(t)
      PROVE  (IdsInv' /\ WaitInv' /\ ConfirmInv') /\ ConfirmedOnLedger'
  <2>1. IdsInv' /\ WaitInv' /\ ConfirmInv'
    BY <1>15 DEF DropTransaction, LedgerInv, IdsInv, WaitInv, ConfirmInv
  <2> QED  BY <1>15, <2>1, RowsStay DEF DropTransaction
<1>16. CASE FindAnchor \/ VerifyEvidence \/ UNCHANGED vars
  BY <1>16, <1>i, RowsStay DEF FindAnchor, VerifyEvidence, vars
<1> QED
  BY <1>1, <1>2, <1>3, <1>4, <1>5, <1>6, <1>7, <1>8, <1>9, <1>10, <1>11, <1>12, <1>13,
     <1>14, <1>15, <1>16
     DEF Next, WorkerStep, OrderingStep

(***************************************************************************)
(* What the table says of the ledger is true: a row is CONFIRMED only when *)
(* the ledger has its hash under the transaction that the row names, and   *)
(* an anchor is only announced (BLOCKCHAIN_ANCHOR_CONFIRMED) when its hash *)
(* is there.  RunAnchor may have submitted several times before.           *)
(***************************************************************************)
THEOREM ConfirmedIsOnLedger == Spec => [](TypeOK /\ ConfirmedOnLedger)
<1>1. Init => LedgerInv
  <2> SUFFICES ASSUME Init
               PROVE  IdsInv /\ WaitInv /\ ConfirmInv /\ ConfirmedOnLedger
    BY InitType DEF LedgerInv
  <2> QED  BY DEF Init, IdsInv, WaitInv, ConfirmInv, ConfirmedOnLedger, Idle, NoRow, NoRecord
<1>2. LedgerInv => TypeOK /\ ConfirmedOnLedger
  BY DEF LedgerInv
<1> QED  BY <1>1, <1>2, StepLedger, PTL DEF Spec

-----------------------------------------------------------------------------
(***************************************************************************)
(* Verifications against the ledger                                        *)
(***************************************************************************)
\* Only Dequeue gives a worker a job.
LEMMA WorkersKeepJobs ==
    ASSUME TypeOK, Working, NEW w \in Workers,
           \/ exec' = exec \/ exec' = [exec EXCEPT ![w] = Idle]
           \/ /\ exec[w].pc # "idle"
              /\ \/ \E p \in {"submit", "increment", "confirm", "announce", "nil",
                              "error", "giveup"} : Goto(w, p)
                 \/ \E t \in ExecRecord : t.job = exec[w].job /\ exec' = [exec EXCEPT ![w] = t]
    PROVE  \A v \in Workers : exec'[v].pc # "idle" =>
              exec[v].pc # "idle" /\ exec'[v].job = exec[v].job
<1>1. CASE exec[w].pc # "idle" /\ \E p \in {"submit", "increment", "confirm", "announce",
                                            "nil", "error", "giveup"} : Goto(w, p)
  BY <1>1 DEF Goto, TypeOK
<1>2. CASE exec[w].pc # "idle" /\ \E t \in ExecRecord :
                t.job = exec[w].job /\ exec' = [exec EXCEPT ![w] = t]
  BY <1>2 DEF TypeOK
<1>3. CASE exec' = exec \/ exec' = [exec EXCEPT ![w] = Idle]
  BY <1>3 DEF TypeOK, Idle
<1> QED  BY <1>1, <1>2, <1>3

LEMMA AllowedKept ==
    ASSUME AllowedInv,
           \A a \in Anchors :
              row'[a].status # "none" \/ request'[a] = "enqueue" \/ task'[a] # "none" =>
                 \/ row[a].status # "none" \/ request[a] = "enqueue" \/ task[a] # "none"
                 \/ EventAllowed(EventOf(a)),
           \A w \in Workers : exec'[w].pc # "idle" =>
              \/ exec[w].pc # "idle" /\ exec'[w].job = exec[w].job
              \/ EventAllowed(EventOf(exec'[w].job)),
           \A t \in inflight' : t \in inflight \/ t.hash = Registered(t.doc),
           \A d \in Documents : ledger'[d].hash \in {ledger[d].hash, Registered(d)}
    PROVE  AllowedInv'
BY DEF AllowedInv

LEMMA StepAllowed == LedgerInv /\ AllowedInv /\ [Next]_vars => AllowedInv'
<1> SUFFICES ASSUME LedgerInv, AllowedInv, [Next]_vars
             PROVE  AllowedInv'
  OBVIOUS
<1>0. TypeOK /\ Working /\ \A w \in Workers : exec[w].pc # "idle" =>
           exec[w].job \in Anchors /\ EventAllowed(EventOf(exec[w].job))
  BY DEF LedgerInv, Working, AllowedInv
<1>1. ASSUME NEW a \in Anchors, CreateRow(a) \/ Enqueue(a)
      PROVE  AllowedInv'
  <2>1. UNCHANGED <<exec, inflight, ledger>>
    BY <1>1 DEF CreateRow, Enqueue
  <2>2. \A b \in Anchors :
           row'[b].status # "none" \/ request'[b] = "enqueue" \/ task'[b] # "none" =>
              \/ row[b].status # "none" \/ request[b] = "enqueue" \/ task[b] # "none"
              \/ EventAllowed(EventOf(b))
    BY <1>0, <1>1 DEF CreateRow, Enqueue, TypeOK
  <2> QED  BY <2>1, <2>2, AllowedKept
<1>2. ASSUME NEW w \in Workers, Dequeue(w)
      PROVE  AllowedInv'
  <2>1. PICK a \in Anchors :
           /\ task[a] \in {"pending", "retry"}
           /\ task' = [task EXCEPT ![a] = "active"]
           /\ exec' = [exec EXCEPT ![w] = [pc |-> "load", job |-> a, tx |-> 0]]
    BY <1>2 DEF Dequeue
  <2>2. UNCHANGED <<row, request, inflight, ledger>>
    BY <1>2 DEF Dequeue
  <2>3. EventAllowed(EventOf(a))
    BY <2>1 DEF AllowedInv
  <2>4. \A v \in Workers : exec'[v].pc # "idle" =>
           \/ exec[v].pc # "idle" /\ exec'[v].job = exec[v].job
           \/ EventAllowed(EventOf(exec'[v].job))
    BY <1>0, <2>1, <2>3 DEF TypeOK
  <2>5. \A b \in Anchors : task'[b] # "none" => task[b] # "none" \/ EventAllowed(EventOf(b))
    BY <1>0, <2>1, <2>3 DEF TypeOK
  <2> QED  BY <2>2, <2>4, <2>5, AllowedKept
<1>r. ASSUME NEW w \in Workers, exec[w].pc # "idle", RetryOrArchive(exec[w].job)
               \/ \E st : task' = [task EXCEPT ![exec[w].job] = st]
      PROVE  \A b \in Anchors : task'[b] # "none" =>
                task[b] # "none" \/ EventAllowed(EventOf(b))
  BY <1>0, <1>r DEF RetryOrArchive, TypeOK
<1>3. ASSUME NEW w \in Workers, Abandon(w) \/ ReturnNil(w) \/ HandleError(w) \/ GiveUp(w)
      PROVE  AllowedInv'
  <2>1. exec[w].pc # "idle" /\ UNCHANGED <<row, request, inflight, ledger>>
    BY <1>3 DEF Abandon, ReturnNil, HandleError, GiveUp, MarkFailed
  <2>2. exec' = [exec EXCEPT ![w] = Idle] \/ Goto(w, "giveup")
    BY <1>3 DEF Abandon, ReturnNil, HandleError, GiveUp
  <2>3. \/ RetryOrArchive(exec[w].job) \/ UNCHANGED task
        \/ \E st : task' = [task EXCEPT ![exec[w].job] = st]
    BY <1>3 DEF Abandon, ReturnNil, HandleError, GiveUp
  <2> QED  BY <1>0, <1>r, <2>1, <2>2, <2>3, WorkersKeepJobs, AllowedKept
<1>4. ASSUME NEW w \in Workers,
             Load(w) \/ AwaitCommit(w) \/ IncrementRetry(w) \/ MarkConfirmed(w) \/ Announce(w)
      PROVE  AllowedInv'
  <2>1. exec[w].pc # "idle" /\ UNCHANGED <<request, task, inflight, ledger>>
    BY <1>4 DEF Load, AwaitCommit, IncrementRetry, MarkConfirmed, Announce
  <2>2. \E p \in {"submit", "increment", "confirm", "announce", "nil", "error"} : Goto(w, p)
    BY <1>4 DEF Load, AwaitCommit, IncrementRetry, MarkConfirmed, Announce
  <2>3. \A b \in Anchors : row'[b].status # "none" => row[b].status # "none"
    BY <1>0, <1>4 DEF Load, AwaitCommit, IncrementRetry, MarkConfirmed, Announce, TypeOK
  <2> QED  BY <1>0, <2>1, <2>2, <2>3, WorkersKeepJobs, AllowedKept
<1>5. ASSUME NEW w \in Workers, Submit(w)
      PROVE  AllowedInv'
  <2>1. exec[w].pc # "idle" /\ UNCHANGED <<row, request, task, ledger>>
    BY <1>5 DEF Submit
  <2>2. CASE Goto(w, "increment") /\ UNCHANGED <<inflight, submitted>>
    BY <1>0, <2>1, <2>2, WorkersKeepJobs, AllowedKept
  <2>3. CASE AnchorEvidence(w, exec[w].job)
    <3> DEFINE a == exec[w].job
               new == [doc |-> DocumentOf(a), hash |-> HashOf(a), tx |-> submitted + 1]
    <3>1. \E t \in ExecRecord :
             /\ t.job = exec[w].job /\ exec' = [exec EXCEPT ![w] = t]
             /\ inflight' = inflight \/ inflight' = inflight \cup {new}
      BY <1>0, <2>1, <2>3, EvidenceExec
    <3>2. new.hash = Registered(new.doc)
      BY <1>0, <2>1, AnchorFacts
    <3> HIDE DEF new
    <3> QED  BY <1>0, <2>1, <3>1, <3>2, WorkersKeepJobs, AllowedKept
  <2> QED  BY <1>5, <2>2, <2>3 DEF Submit
<1>6. ASSUME NEW t \in inflight, CommitTransaction(t) \/ DropTransaction(t)
      PROVE  AllowedInv'
  <2>1. UNCHANGED <<exec, row, request, task>> /\ inflight' \subseteq inflight
    BY <1>6 DEF CommitTransaction, DropTransaction
  <2>2. t.doc \in Documents /\ t.hash = Registered(t.doc)
    BY <1>0 DEF TypeOK, AllowedInv
  <2>3. \A d \in Documents : ledger'[d].hash \in {ledger[d].hash, Registered(d)}
    BY <1>0, <1>6, <2>2 DEF CommitTransaction, DropTransaction, TypeOK
  <2> QED  BY <2>1, <2>3, AllowedKept
<1>7. CASE FindAnchor \/ VerifyEvidence \/ UNCHANGED vars
  BY <1>7 DEF FindAnchor, VerifyEvidence, vars, AllowedInv
<1> QED
  BY <1>1, <1>2, <1>3, <1>4, <1>5, <1>6, <1>7 DEF Next, WorkerStep, OrderingStep

\* What the ledger records it keeps.
LEMMA LedgerKeeps ==
    ASSUME TypeOK, [Next]_vars, NEW d \in Documents, ledger[d].hash # None
    PROVE  ledger'[d] = ledger[d]
<1>1. ASSUME NEW t \in inflight, CommitTransaction(t)
      PROVE  ledger'[d] = ledger[d]
  BY <1>1 DEF CommitTransaction, TypeOK
<1>2. CASE UNCHANGED ledger
  BY <1>2
<1> QED
  BY <1>1, <1>2
     DEF Next, WorkerStep, OrderingStep, vars, CreateRow, Enqueue, Dequeue, Load, Submit,
         AwaitCommit, IncrementRetry, MarkConfirmed, Announce, ReturnNil, HandleError,
         GiveUp, Abandon, DropTransaction, FindAnchor, VerifyEvidence

LEMMA StepCheck == AnchorInv /\ [Next]_vars => CheckInv'
<1> SUFFICES ASSUME AnchorInv, [Next]_vars
             PROVE  CheckInv'
  OBVIOUS
<1>0. TypeOK /\ ConfirmedOnLedger /\ AllowedInv /\ CheckInv
  BY DEF AnchorInv, LedgerInv
<1>1. ASSUME NEW a \in Anchors, CreateRow(a)
      PROVE  CheckInv'
  <2>1. \A d \in Documents : latest'[d] # None => DocumentOf(latest'[d]) = d
    BY <1>0, <1>1 DEF CreateRow, CheckInv, TypeOK
  <2> QED  BY <1>0, <1>1, <2>1 DEF CreateRow, CheckInv, LedgerVerdictJust
<1>2. CASE FindAnchor
  <2>1. PICK d \in Documents :
         \/ /\ latest[d] # None /\ row[latest[d]].status = "CONFIRMED"
            /\ check' = [NoVerdict EXCEPT !.doc = d, !.confirmed = TRUE, !.chain = "asked"]
         \/ \E chain \in {"NOT_ANCHORED", "UNAVAILABLE"} : Resolve(d, FALSE, chain, None)
    BY <1>2 DEF FindAnchor
  <2>2. UNCHANGED <<ledger, latest>>
    BY <1>2 DEF FindAnchor
  <2>3. CASE /\ latest[d] # None /\ row[latest[d]].status = "CONFIRMED"
             /\ check' = [NoVerdict EXCEPT !.doc = d, !.confirmed = TRUE, !.chain = "asked"]
    <3>1. PICK a \in Anchors : /\ a = latest[d] /\ DocumentOf(a) = d
                               /\ row[a].status = "CONFIRMED"
      BY <1>0, <2>3 DEF TypeOK, CheckInv
    <3>2. ledger[d].hash # None
      <4>1. ledger[DocumentOf(a)] = [hash |-> HashOf(a), tx |-> row[a].tx]
        BY <1>0, <3>1 DEF ConfirmedOnLedger
      <4>2. HashOf(a) # None
        BY AnchorFacts
      <4> QED  BY <3>1, <4>1, <4>2
    <3>3. /\ check'.doc = d /\ check'.chain = "asked" /\ check'.status = "none"
      BY <2>3 DEF NoVerdict
    <3> QED  BY <1>0, <2>2, <3>2, <3>3 DEF CheckInv, LedgerVerdictJust
  <2>4. CASE \E chain \in {"NOT_ANCHORED", "UNAVAILABLE"} : Resolve(d, FALSE, chain, None)
    <3>1. PICK chain \in {"NOT_ANCHORED", "UNAVAILABLE"} : Resolve(d, FALSE, chain, None)
      BY <2>4
    <3>2. /\ check'.chain = chain /\ check'.confirmed = FALSE
          /\ check'.status = "CHAIN_MISMATCH" => chain = "CHAIN_MISMATCH"
          /\ check'.status = "INTEGRITY_FAILURE" /\ check'.onLedger =>
                chain \in {"MATCH", "CHAIN_MISMATCH"}
      BY <3>1, ResolveCheck
    <3> QED  BY <1>0, <2>2, <3>2 DEF CheckInv, LedgerVerdictJust
  <2> QED  BY <2>1, <2>3, <2>4
<1>3. CASE VerifyEvidence
  <2> DEFINE d == check.doc
             onChain == ledger[d].hash
  <2>1. d \in Documents /\ onChain = Registered(d) /\ onChain # None
    BY <1>0, <1>3 DEF VerifyEvidence, CheckInv, AllowedInv
  <2>2. Resolve(d, TRUE, "MATCH", Registered(d)) \/ Resolve(d, TRUE, "UNAVAILABLE", None)
    BY <1>3, <2>1 DEF VerifyEvidence
  <2>3. /\ check'.chain \in {"MATCH", "UNAVAILABLE"}
        /\ check'.status # "CHAIN_MISMATCH"
        /\ ~(check'.status = "INTEGRITY_FAILURE" /\ check'.onLedger)
    BY <2>1, <2>2, ResolveCheck
  <2> QED  BY <1>0, <1>3, <2>3 DEF VerifyEvidence, CheckInv, LedgerVerdictJust
<1>4. CASE UNCHANGED <<latest, check>>
  <2>1. check.chain = "asked" => ledger'[check.doc].hash # None
    BY <1>0, LedgerKeeps DEF CheckInv
  <2> QED  BY <1>0, <1>4, <2>1 DEF CheckInv, LedgerVerdictJust
<1> QED
  BY <1>1, <1>2, <1>3, <1>4
     DEF Next, WorkerStep, OrderingStep, vars, Enqueue, Dequeue, Load, Submit,
         AwaitCommit, IncrementRetry, MarkConfirmed, Announce, ReturnNil, HandleError,
         GiveUp, Abandon, CommitTransaction, DropTransaction

(***************************************************************************)
(* VerifyCandidate accuses nobody of a document whose row nobody changed:  *)
(* no CHAIN_MISMATCH, no failure for a file that the ledger knows, and no  *)
(* confirmed anchor that the ledger does not know, although the database   *)
(* and the ledger are asked one after the other.  It rests on the table's  *)
(* refusal of every event but the upload: an export would bring a second   *)
(* hash to the ledger's one record of the document.                        *)
(***************************************************************************)
THEOREM VerdictsAreJust == Spec => []LedgerVerdictJust
<1>1. Init => AnchorInv
  <2> SUFFICES ASSUME Init
               PROVE  /\ IdsInv /\ WaitInv /\ ConfirmInv /\ ConfirmedOnLedger
                      /\ AllowedInv /\ CheckInv
    BY InitType DEF AnchorInv, LedgerInv
  <2>1. IdsInv /\ WaitInv /\ ConfirmInv /\ ConfirmedOnLedger
    BY DEF Init, IdsInv, WaitInv, ConfirmInv, ConfirmedOnLedger, Idle, NoRow, NoRecord
  <2>2. AllowedInv /\ CheckInv
    BY DEF Init, AllowedInv, CheckInv, LedgerVerdictJust, Idle, NoRow, NoRecord, NoVerdict
  <2> QED  BY <2>1, <2>2
<1>2. AnchorInv /\ [Next]_vars => AnchorInv'
  BY StepLedger, StepAllowed, StepCheck DEF AnchorInv
<1>3. AnchorInv => LedgerVerdictJust
  BY DEF AnchorInv, CheckInv
<1> QED  BY <1>1, <1>2, <1>3, PTL DEF Spec
=============================================================================
