-------------------------- MODULE DocumentStoreProofs --------------------------
(***************************************************************************)
(* Proofs about DocumentStore, for any number of concurrent calls, of      *)
(* documents and of changes behind the service's back: nothing is made     *)
(* from damaged bytes, nobody is accused wrongly, one document has one     *)
(* certificate, and bytes and rows stay together whatever fails.           *)
(***************************************************************************)
EXTENDS DocumentStore, TLAPS

(***************************************************************************)
(* The inductive invariant                                                 *)
(***************************************************************************)
Tables == rows \in [Ids -> RowType \cup {NoRow}]

\* What a call may rely on, by where it is.
CallOK(k) ==
    /\ k.pc \in {"put", "insert", "cleanup"} =>
          k.id # 0 /\ k.op \in {"upload", "redact", "export"}
    /\ k.pc \in {"idle", "get", "fetch", "reconcile", "sign"} => k.id = 0
    /\ k.pc = "get" => k.op \in Checks \cup {"export"}
    /\ k.pc = "reconcile" => k.op \in Checks
    /\ k.pc \in {"fetch", "sign"} => k.op = "certify"
    /\ k.pc = "record" => k.op \in Checks \cup {"upload", "export"}
    /\ k.op \in Checks \cup {"export"} => k.doc \in Documents
    /\ k.op \in Checks /\ k.content = "damaged" => k.doc \in harmed
    /\ k.pc = "reconcile" \/ (k.pc \in {"put", "insert"} /\ k.op = "export") =>
          k.content # "missing"
    /\ k.pc = "sign" \/ (k.pc \in {"put", "insert"} /\ k.op = "redact") =>
          k.content = "genuine"
    /\ k.id # 0 => k.id < next
    /\ k.pc \in {"put", "insert"} => rows[k.id] = NoRow
    /\ k.pc = "insert" => objects[k.id] = "genuine"
    /\ k.pc = "record" /\ k.id # 0 => Stored(k.id)
    /\ k.pc = "record" /\ (k.op \in {"upload", "export"}
                           \/ (k.op = "redact" /\ k.content = "genuine")) => k.id # 0

CallInv == \A c \in Calls : CallOK(calls[c])

\* uuid.New() never returns the same key twice.
FreshInv ==
    /\ \A i \in Ids : i >= next => rows[i] = NoRow
    /\ \A c, d \in Calls : calls[c].id = calls[d].id /\ calls[c].id # 0 => c = d

\* What is stored and damaged was changed from outside.
HarmInv == \A i \in Ids : Stored(i) /\ objects[i] = "damaged" => i \in harmed

\* The certificate that somebody has seen is there.
ReturnedInv ==
    \A r \in returned :
        /\ r[1] \in Ids /\ r = <<r[1], r[2]>>
        /\ certificates[r[1]] # NoCertificate /\ certificates[r[1]].signer = r[2]

StoreInv ==
    /\ TypeOK /\ Tables /\ CallInv /\ FreshInv /\ HarmInv /\ ReturnedInv
    /\ NothingFromDamagedBytes /\ NoFalseAccusation /\ NoSilentOrphan

\* While COMMIT tells the truth, a call that cleans up has no row.
CleanupInv == \A c \in Calls : calls[c].pc = "cleanup" => rows[calls[c].id] = NoRow
ObjectInv == StoreInv /\ CleanupInv /\ RowHasObject

\* The two halves of StoreInv: about calls, and about what is stored.
CallsInv == calls \in [Calls -> CallType] /\ next \in 1..MaxObjects + 1
            /\ CallInv /\ FreshInv /\ NoSilentOrphan

DataInv ==
    /\ objects \in [Ids -> Bytes] /\ Tables
    /\ \A i \in Ids : rows[i].kind = "export" <=> rows[i].status = "COMPLETED"
    /\ certificates \in [Ids -> [signer: Calls \cup {None}, made: Bytes]]
    /\ logged \in SUBSET Ids /\ harmed \in SUBSET Ids /\ abandoned \in SUBSET Ids
    /\ changes \in 0..MaxChanges
    /\ HarmInv /\ ReturnedInv /\ NothingFromDamagedBytes /\ NoFalseAccusation

LEMMA Halves == StoreInv <=> CallsInv /\ DataInv
BY DEF StoreInv, CallsInv, DataInv, TypeOK, Tables

LEMMA HalvesNext == StoreInv' <=> CallsInv' /\ DataInv'
BY DEF StoreInv, CallsInv, DataInv, TypeOK, Tables

LEMMA DataSame ==
    ASSUME DataInv,
           UNCHANGED <<objects, rows, certificates, audit, logged, changes, ghosts>>
    PROVE  DataInv'
BY DEF DataInv, Tables, HarmInv, ReturnedInv, NothingFromDamagedBytes,
       NoFalseAccusation, Stored, ghosts


(***************************************************************************)
(* One step of a call                                                      *)
(*                                                                         *)
(* A step touches no bytes without a row and no free key but those of key  *)
(* i; rows stay, with their kind; and nothing is forgotten.                *)
(***************************************************************************)
Touches(i) ==
    /\ \A j \in Ids : rows[j] # NoRow =>
          rows'[j] # NoRow /\ rows'[j].kind = rows[j].kind
    /\ \A j \in Ids : j # i /\ rows[j] = NoRow =>
          rows'[j] = NoRow /\ objects'[j] = objects[j]
    /\ logged \subseteq logged' /\ abandoned \subseteq abandoned' /\ harmed \subseteq harmed'

\* The key that a call had and no longer has: with bytes, a row or a record of
\* the failure.
Disposed(i, j) ==
    i # 0 /\ i # j => \/ objects'[i] = "missing" \/ rows'[i] # NoRow
                      \/ i \in logged' \cup abandoned'

LEMMA OthersKeep ==
    ASSUME NEW k \in CallType, CallOK(k), NEW i \in Ids \cup {0}, k.id = 0 \/ k.id # i,
           Touches(i), next \in Nat, next' \in Nat, next' >= next
    PROVE  CallOK(k)'
<1>1. k.doc \in Documents => k.doc \in Documents'
  BY DEF Documents, Touches, NoRow
<1>2. k.id \in Ids /\ k.id # i /\ rows[k.id] = NoRow =>
          rows'[k.id] = NoRow /\ objects'[k.id] = objects[k.id]
  BY DEF Touches
<1>3. k.id \in Ids /\ Stored(k.id) => Stored(k.id)'
  BY DEF Touches, Stored
<1>4. harmed \subseteq harmed' /\ k.id \in Ids \cup {0}
  BY DEF Touches, CallType
<1>5. k.id # 0 => k.id < next'
  BY SMT DEF CallOK, Ids, CallType
<1> QED
  BY <1>1, <1>2, <1>3, <1>4, <1>5 DEF CallOK

LEMMA CallStep ==
    ASSUME CallsInv, NEW c \in Calls, NEW t \in CallType,
           calls' = [calls EXCEPT ![c] = t], Touches(calls[c].id), CallOK(t)',
           \/ t.id \in {0, calls[c].id} /\ next' = next
           \/ t.id = next /\ next \in Ids /\ next' = next + 1,
           Disposed(calls[c].id, t.id)
    PROVE  CallsInv'
<1>1. PICK k \in CallType : k = calls[c]
  BY DEF CallsInv
<1>2. CallOK(k) /\ k.id \in Ids \cup {0}
  BY <1>1 DEF CallsInv, CallInv, CallType
<1>3. /\ calls' \in [Calls -> CallType]
      /\ calls'[c] = t
      /\ \A d \in Calls \ {c} : calls'[d] = calls[d]
  BY DEF CallsInv
<1>4. next \in Nat /\ next' \in Nat /\ next' >= next /\ next' \in 1..MaxObjects + 1
  BY BoundsAssumption DEF CallsInv, Ids
<1>5. \A i \in Ids : i >= next' => rows'[i] = NoRow
  <2> SUFFICES ASSUME NEW i \in Ids, i >= next' PROVE rows'[i] = NoRow
    OBVIOUS
  <2>1. i >= next /\ rows[i] = NoRow
    BY <1>4 DEF CallsInv, FreshInv, Ids
  <2>2. i # k.id
    BY <1>2, <1>4, <2>1 DEF CallOK, Ids
  <2> QED
    BY <1>1, <2>1, <2>2 DEF Touches
<1>6. \A d \in Calls \ {c} : calls[d].id # 0 => calls[d].id # k.id /\ calls[d].id < next
  BY <1>1 DEF CallsInv, CallInv, CallOK, FreshInv
<1>7. \A d \in Calls \ {c} : calls'[d].id # 0 => calls'[d].id # t.id
  <2> SUFFICES ASSUME NEW d \in Calls \ {c}, calls[d].id # 0 PROVE calls[d].id # t.id
    BY <1>3
  <2>1. PICK i \in Ids : i = calls[d].id
    BY DEF CallsInv, CallType
  <2> QED
    BY <1>1, <1>4, <1>6, <2>1 DEF Ids
<1>8. \A a, b \in Calls : calls'[a].id = calls'[b].id /\ calls'[a].id # 0 => a = b
  BY <1>3, <1>7 DEF CallsInv, FreshInv
<1>9. ASSUME NEW d \in Calls PROVE CallOK(calls[d])'
  <2>1. CASE d = c
    BY <1>3, <2>1 DEF CallOK, Stored, Documents
  <2>2. CASE d # c
    <3>1. PICK o \in CallType : o = calls[d]
      BY DEF CallsInv
    <3>2. CallOK(o) /\ (o.id = 0 \/ o.id # k.id)
      BY <1>6, <2>2, <3>1 DEF CallsInv, CallInv
    <3>3. CallOK(o)'
      BY <1>1, <1>2, <1>4, <3>2, OthersKeep
    <3> QED
      BY <1>3, <2>2, <3>1, <3>3 DEF CallOK, Stored, Documents
  <2> QED
    BY <2>1, <2>2
<1>10. NoSilentOrphan'
  <2> SUFFICES ASSUME NEW i \in Ids, objects'[i] # "missing", rows'[i] = NoRow,
                      i \notin logged' \cup abandoned'
               PROVE  \E d \in Calls : calls'[d].id = i
    BY DEF NoSilentOrphan, Stored
  <2>1. rows[i] = NoRow /\ i \notin logged \cup abandoned
    BY DEF Touches
  <2>2. CASE i = k.id
    <3>1. t.id = i
      BY <1>1, <2>2 DEF Disposed, Ids
    <3> QED
      BY <1>3, <3>1
  <2>3. CASE i # k.id
    <3>1. objects[i] # "missing"
      BY <1>1, <2>1, <2>3 DEF Touches
    <3>2. PICK d \in Calls : calls[d].id = i
      BY <2>1, <3>1 DEF CallsInv, NoSilentOrphan, Stored
    <3> QED
      BY <1>1, <1>3, <2>3, <3>2
  <2> QED
    BY <2>2, <2>3
<1> QED
  BY <1>3, <1>4, <1>5, <1>8, <1>9, <1>10 DEF CallsInv, CallInv, FreshInv

(***************************************************************************)
(* How a call moves on                                                     *)
(***************************************************************************)
LEMMA AtCall ==
    ASSUME StoreInv, NEW c \in Calls
    PROVE  calls[c] \in CallType /\ CallOK(calls[c]) /\ CallsInv /\ DataInv
BY Halves DEF CallsInv, CallInv

LEMMA ReturnStep ==
    ASSUME NEW c \in Calls, Return(c)
    PROVE  calls' = [calls EXCEPT ![c] = NoCall] /\ NoCall \in CallType /\ CallOK(NoCall)'
BY DEF Return, NoCall, CallType, CallOK, Bytes, Checks

LEMMA GotoStep ==
    ASSUME CallsInv, NEW c \in Calls,
           NEW pc \in {"get", "sign", "record", "insert", "cleanup"}, Goto(c, pc)
    PROVE  \E t \in CallType :
              /\ calls' = [calls EXCEPT ![c] = t]
              /\ t.pc = pc /\ t.op = calls[c].op /\ t.doc = calls[c].doc
              /\ t.content = calls[c].content /\ t.id = calls[c].id
<1>1. PICK k \in CallType : k = calls[c]
  BY DEF CallsInv
<1>2. PICK s : s = IF pc = "get" THEN k.status ELSE "none"
  OBVIOUS
<1>3. PICK t : t = [k EXCEPT !.pc = pc, !.status = s]
  OBVIOUS
<1>4. /\ t \in CallType
      /\ t.pc = pc /\ t.op = k.op /\ t.doc = k.doc
      /\ t.content = k.content /\ t.id = k.id
  BY <1>2, <1>3 DEF CallType
<1>5. calls' = [calls EXCEPT ![c] = t]
  BY <1>1, <1>2, <1>3 DEF Goto, CallsInv
<1> QED
  BY <1>1, <1>4, <1>5

LEMMA GotoPutStep ==
    ASSUME CallsInv, NEW c \in Calls, NEW k \in CallType, GotoPut(c, k)
    PROVE  /\ next \in Ids /\ next' = next + 1
           /\ \E t \in CallType :
                 /\ calls' = [calls EXCEPT ![c] = t]
                 /\ t.pc = "put" /\ t.op = k.op /\ t.doc = k.doc
                 /\ t.content = k.content /\ t.id = next
<1>1. next \in Ids /\ next' = next + 1
  BY DEF GotoPut
<1>2. PICK t : t = [k EXCEPT !.pc = "put", !.id = next, !.status = "none"]
  OBVIOUS
<1>3. /\ t \in CallType
      /\ t.pc = "put" /\ t.op = k.op /\ t.doc = k.doc
      /\ t.content = k.content /\ t.id = next
  BY <1>1, <1>2 DEF CallType
<1> QED
  BY <1>1, <1>2, <1>3 DEF GotoPut

LEMMA Untouched ==
    ASSUME NEW i, UNCHANGED <<objects, rows, logged, harmed>>, abandoned \subseteq abandoned'
    PROVE  Touches(i)
BY DEF Touches

(***************************************************************************)
(* Each action                                                             *)
(***************************************************************************)
LEMMA UploadDocumentStep ==
    ASSUME StoreInv, NEW c \in Calls, UploadDocument(c)
    PROVE  StoreInv'
<1>1. CallsInv /\ DataInv /\ calls[c].id = 0
  BY AtCall DEF UploadDocument, CallOK
<1>2. PICK k : k = [NoCall EXCEPT !.op = "upload"]
  OBVIOUS
<1>3. k \in CallType /\ k.op = "upload" /\ k.content = "missing" /\ k.doc = 0
  BY <1>2 DEF NoCall, CallType, Bytes, Checks
<1>4. GotoPut(c, k)
  BY <1>2 DEF UploadDocument
<1>5. PICK t \in CallType :
         /\ calls' = [calls EXCEPT ![c] = t]
         /\ t.pc = "put" /\ t.op = "upload" /\ t.id = next
  BY <1>1, <1>3, <1>4, GotoPutStep
<1>6. next \in Ids /\ next' = next + 1
  BY <1>1, <1>3, <1>4, GotoPutStep
<1>7. rows'[next] = NoRow /\ Touches(calls[c].id)
  BY <1>1, <1>6, Untouched DEF UploadDocument, CallsInv, FreshInv, ghosts, Ids
<1>8. CallOK(t)'
  BY <1>5, <1>6, <1>7 DEF CallOK, Checks, Ids
<1>9. CallsInv'
  BY <1>1, <1>5, <1>6, <1>7, <1>8, CallStep DEF Disposed
<1> QED
  BY <1>1, <1>9, DataSame, HalvesNext DEF UploadDocument

LEMMA GetByIDStep ==
    ASSUME StoreInv, NEW c \in Calls, NEW op \in Checks \cup {"export"},
           NEW d \in Documents, GetByID(c, op, d)
    PROVE  StoreInv'
<1>1. CallsInv /\ DataInv /\ calls[c].id = 0 /\ d \in Ids
  BY AtCall DEF GetByID, CallOK, Documents
<1>2. rows[d].status \in {"none", "ACTIVE", "TAMPERED"}
  BY <1>1 DEF DataInv, Tables, RowType, NoRow, Documents
<1>3. PICK pc : pc = IF op = "certify" THEN "fetch" ELSE "get"
  OBVIOUS
<1>4. PICK t : t = [NoCall EXCEPT !.pc = pc, !.op = op, !.doc = d, !.status = rows[d].status]
  OBVIOUS
<1>5. /\ t \in CallType /\ t.pc = pc /\ t.op = op /\ t.doc = d
      /\ t.content = "missing" /\ t.id = 0
  BY <1>1, <1>2, <1>3, <1>4 DEF NoCall, CallType, Bytes
<1>6. calls' = [calls EXCEPT ![c] = t]
  BY <1>3, <1>4 DEF GetByID
<1>7. Touches(calls[c].id) /\ d \in Documents' /\ next' = next
  BY Untouched DEF GetByID, ghosts, Documents
<1>8. CallOK(t)'
  BY <1>3, <1>5, <1>7 DEF CallOK, Checks
<1>9. CallsInv'
  BY <1>1, <1>5, <1>6, <1>7, <1>8, CallStep DEF Disposed
<1> QED
  BY <1>1, <1>9, DataSame, HalvesNext DEF GetByID

LEMMA FetchCertificateStep ==
    ASSUME StoreInv, NEW c \in Calls, FetchCertificate(c)
    PROVE  StoreInv'
<1>1. PICK k \in CallType : k = calls[c]
  BY AtCall
<1>2. CallsInv /\ DataInv /\ CallOK(k) /\ k.pc = "fetch" /\ k.id = 0 /\ k.op = "certify"
  BY <1>1, AtCall DEF FetchCertificate, CallOK
<1>3. Touches(k.id) /\ next' = next
  BY Untouched DEF FetchCertificate
<1>4. k.doc \in Documents /\ k.doc \in Ids /\ k.doc \in Documents'
  BY <1>2 DEF CallOK, Checks, Documents, FetchCertificate
<1>5. CASE certificates[k.doc] # NoCertificate /\ Return(c)
           /\ returned' = returned \cup {<<k.doc, certificates[k.doc].signer>>}
  <2>1. CallsInv'
    BY <1>1, <1>2, <1>3, <1>5, ReturnStep, CallStep DEF Disposed, NoCall
  <2>2. ReturnedInv'
    BY <1>2, <1>4, <1>5 DEF ReturnedInv, DataInv, FetchCertificate
  <2>3. DataInv'
    BY <1>2, <2>2 DEF DataInv, FetchCertificate, Tables, HarmInv, NothingFromDamagedBytes,
       NoFalseAccusation, Stored
  <2> QED
    BY <2>1, <2>3, HalvesNext
<1>6. CASE Goto(c, "get") /\ UNCHANGED returned
  <2>1. PICK t \in CallType :
              /\ calls' = [calls EXCEPT ![c] = t]
              /\ t.pc = "get" /\ t.op = k.op /\ t.doc = k.doc
              /\ t.content = k.content /\ t.id = k.id
    BY <1>1, <1>2, <1>6, GotoStep
  <2>2. CallOK(t)'
    BY <1>2, <1>4, <2>1 DEF CallOK, Checks, FetchCertificate
  <2>3. CallsInv'
    BY <1>1, <1>2, <1>3, <2>1, <2>2, CallStep DEF Disposed
  <2>4. DataInv'
    BY <1>2, <1>6, DataSame DEF FetchCertificate, ghosts
  <2> QED
    BY <2>3, <2>4, HalvesNext
<1> QED
  BY <1>1, <1>5, <1>6 DEF FetchCertificate

LEMMA ReadObjectStep ==
    ASSUME StoreInv, NEW c \in Calls, ReadObject(c)
    PROVE  StoreInv'
<1>1. PICK k \in CallType : k = calls[c]
  BY AtCall
<1>2. /\ CallsInv /\ DataInv /\ CallOK(k) /\ k.pc = "get" /\ k.id = 0
      /\ k.op \in Checks \cup {"export"}
  BY <1>1, AtCall DEF ReadObject, CallOK
<1>3. Touches(k.id) /\ DataInv'
  BY <1>2, DataSame, Untouched DEF ReadObject, ghosts
<1>4. k.doc \in Documents /\ k.doc \in Ids /\ k.doc \in Documents'
  BY <1>2 DEF CallOK, Documents, ReadObject
<1>5. PICK bytes \in Bytes : bytes = objects[k.doc]
  BY <1>2, <1>4 DEF DataInv
<1>6. bytes = "damaged" => k.doc \in harmed'
  <2>1. harmed' = harmed
    BY DEF ReadObject, ghosts
  <2>2. Stored(k.doc)
    BY <1>4 DEF Documents, Stored, NoRow
  <2> QED
    BY <1>2, <1>4, <1>5, <2>1, <2>2 DEF DataInv, HarmInv
<1>7. CASE Return(c) /\ UNCHANGED next
  <2>1. CallsInv'
    BY <1>1, <1>2, <1>3, <1>7, ReturnStep, CallStep DEF Disposed, NoCall
  <2> QED
    BY <1>3, <2>1, HalvesNext
<1>8. CASE bytes # "missing" /\ k.op = "export" /\ GotoPut(c, [k EXCEPT !.content = bytes])
  <2>1. PICK k2 : k2 = [k EXCEPT !.content = bytes]
    OBVIOUS
  <2>2. /\ k2 \in CallType /\ k2.op = "export" /\ k2.doc = k.doc /\ k2.content = bytes
        /\ GotoPut(c, k2)
    BY <1>8, <2>1 DEF CallType
  <2>3. PICK t \in CallType :
           /\ calls' = [calls EXCEPT ![c] = t]
           /\ t.pc = "put" /\ t.op = k2.op /\ t.doc = k2.doc
           /\ t.content = k2.content /\ t.id = next
    BY <1>2, <2>2, GotoPutStep
  <2>4. next \in Ids /\ next' = next + 1
    BY <1>2, <2>2, GotoPutStep
  <2>5. rows'[next] = NoRow
    BY <1>2, <2>4 DEF ReadObject, CallsInv, FreshInv, Ids
  <2>6. CallOK(t)'
    BY <1>4, <1>8, <2>2, <2>3, <2>4, <2>5 DEF CallOK, Checks, Ids
  <2>7. CallsInv'
    BY <1>1, <1>2, <1>3, <2>3, <2>4, <2>6, CallStep DEF Disposed
  <2> QED
    BY <1>3, <2>7, HalvesNext
<1>9. CASE bytes # "missing" /\ k.op \in Checks /\ UNCHANGED next
           /\ calls' = [calls EXCEPT ![c].pc = "reconcile", ![c].content = bytes]
  <2>1. PICK t : t = [k EXCEPT !.pc = "reconcile", !.content = bytes]
    OBVIOUS
  <2>2. /\ t \in CallType /\ t.pc = "reconcile" /\ t.op = k.op /\ t.doc = k.doc
        /\ t.content = bytes /\ t.id = 0
    BY <1>2, <2>1 DEF CallType
  <2>3. calls' = [calls EXCEPT ![c] = t]
    BY <1>1, <1>2, <1>9, <2>1 DEF CallsInv
  <2>4. CallOK(t)'
    BY <1>2, <1>4, <1>6, <1>9, <2>2 DEF CallOK, Checks
  <2>5. CallsInv'
    BY <1>1, <1>2, <1>3, <1>9, <2>2, <2>3, <2>4, CallStep DEF Disposed
  <2> QED
    BY <1>3, <2>5, HalvesNext
<1> QED
  BY <1>1, <1>5, <1>7, <1>8, <1>9 DEF ReadObject

LEMMA ReconcileStep ==
    ASSUME StoreInv, NEW c \in Calls, Reconcile(c)
    PROVE  StoreInv' /\ Touches(calls[c].id)
<1>1. PICK k \in CallType : k = calls[c]
  BY AtCall
<1>2. /\ CallsInv /\ DataInv /\ CallOK(k) /\ k.pc = "reconcile" /\ k.id = 0
      /\ k.op \in Checks /\ k.content \in {"genuine", "damaged"}
  BY <1>1, AtCall DEF Reconcile, CallOK, CallType, Bytes
<1>3. UNCHANGED <<objects, certificates, audit, logged, changes, ghosts>>
  BY DEF Reconcile
<1>4. /\ k.doc \in Documents /\ k.doc \in Ids
      /\ k.content = "damaged" => k.doc \in harmed
  BY <1>2 DEF CallOK, Documents
<1>5. PICK want \in {"none", "ACTIVE", "TAMPERED"} :
         want = WantStatus(k) /\ (want = "TAMPERED" => k.content = "damaged")
  BY <1>2 DEF WantStatus
<1>6. PICK r : r = [rows[k.doc] EXCEPT !.status = want]
  OBVIOUS
<1>7. \/ rows' = rows
      \/ want # "none" /\ rows' = [rows EXCEPT ![k.doc] = r]
  BY <1>1, <1>2, <1>4, <1>5, <1>6 DEF Reconcile, DataInv, Tables
<1>8. /\ rows[k.doc] \in RowType /\ rows[k.doc].kind # "export"
      /\ want # "none" => r \in RowType /\ r.kind = rows[k.doc].kind
                          /\ r.made = rows[k.doc].made /\ r.status = want
  BY <1>2, <1>4, <1>5, <1>6 DEF Documents, DataInv, Tables, RowType, NoRow, Kinds
<1>9. /\ Tables'
      /\ \A i \in Ids : /\ Stored(i)' <=> Stored(i)
                        /\ rows'[i].kind = rows[i].kind
                        /\ rows'[i].made = rows[i].made
                        /\ rows'[i] = rows[i] \/ (i = k.doc /\ rows'[i].status = want)
  <2>1. CASE rows' = rows
    BY <1>2, <2>1 DEF Stored, DataInv, Tables
  <2>2. CASE want # "none" /\ rows' = [rows EXCEPT ![k.doc] = r]
    <3>1. rows[k.doc] # NoRow /\ r # NoRow
      BY <1>8, <2>2 DEF RowType, NoRow, Kinds
    <3>2. Tables'
      BY <1>2, <1>8, <2>2 DEF DataInv, Tables
    <3> QED
      BY <1>2, <1>4, <1>8, <2>2, <3>1, <3>2 DEF Stored, DataInv, Tables
  <2> QED
    BY <1>7, <2>1, <2>2
<1>10. Touches(k.id)
  BY <1>3, <1>9 DEF Touches, Stored, ghosts
<1>11. DataInv'
  <2>1. \A i \in Ids : (rows[i].kind = "export" <=> rows[i].status = "COMPLETED")'
    BY <1>2, <1>4, <1>5, <1>7, <1>8, <1>9 DEF DataInv, Tables
  <2>2. HarmInv' /\ ReturnedInv' /\ NothingFromDamagedBytes'
    BY <1>2, <1>3, <1>9 DEF DataInv, HarmInv, ReturnedInv, NothingFromDamagedBytes, ghosts
  <2>3. NoFalseAccusation'
    <3>1. \A i \in Ids : rows'[i].status = "TAMPERED" =>
              \/ rows[i].status = "TAMPERED"
              \/ i = k.doc /\ k.content = "damaged"
      BY <1>5, <1>9
    <3> QED
      BY <1>2, <1>3, <1>4, <3>1 DEF DataInv, NoFalseAccusation, ghosts
  <2> QED
    BY <1>2, <1>3, <1>9, <2>1, <2>2, <2>3 DEF DataInv, ghosts
<1>12. k.doc \in Documents'
  BY <1>4, <1>9 DEF Documents
<1>13. CASE Return(c) /\ UNCHANGED next
  BY <1>1, <1>2, <1>10, <1>11, <1>13, ReturnStep, CallStep, HalvesNext DEF Disposed, NoCall
<1>14. ASSUME NEW pc \in {"sign", "record"}, Goto(c, pc), UNCHANGED next,
              pc = "sign" => k.op = "certify" /\ k.content = "genuine",
              pc = "record" => k.op = "verify" \/ k.content = "damaged"
       PROVE  StoreInv'
  <2>1. PICK t \in CallType :
              /\ calls' = [calls EXCEPT ![c] = t]
              /\ t.pc = pc /\ t.op = k.op /\ t.doc = k.doc
              /\ t.content = k.content /\ t.id = k.id
    BY <1>1, <1>2, <1>14, GotoStep
  <2>2. CallOK(t)'
    BY <1>2, <1>3, <1>4, <1>12, <1>14, <2>1 DEF CallOK, Checks, ghosts
  <2>3. CallsInv'
    BY <1>1, <1>2, <1>10, <1>14, <2>1, <2>2, CallStep DEF Disposed
  <2> QED
    BY <1>11, <2>3, HalvesNext
<1>15. CASE k.op = "redact" /\ k.content = "genuine" /\ GotoPut(c, k)
  <2>1. PICK t \in CallType :
           /\ calls' = [calls EXCEPT ![c] = t]
           /\ t.pc = "put" /\ t.op = k.op /\ t.doc = k.doc
           /\ t.content = k.content /\ t.id = next
    BY <1>2, <1>15, GotoPutStep
  <2>2. next \in Ids /\ next' = next + 1
    BY <1>2, <1>15, GotoPutStep
  <2>3. rows'[next] = NoRow
    BY <1>2, <1>9, <2>2 DEF CallsInv, FreshInv, Ids, Stored
  <2>4. CallOK(t)'
    BY <1>4, <1>12, <1>15, <2>1, <2>2, <2>3 DEF CallOK, Checks, Ids
  <2>5. CallsInv'
    BY <1>1, <1>2, <1>10, <2>1, <2>2, <2>4, CallStep DEF Disposed
  <2> QED
    BY <1>1, <1>10, <1>11, <2>5, HalvesNext
<1>16. CASE AfterCheck(c)
  <2>1. \/ Goto(c, "record") /\ UNCHANGED next /\ (k.op = "verify" \/ k.content = "damaged")
        \/ k.op = "redact" /\ k.content = "genuine" /\ GotoPut(c, k)
        \/ Goto(c, "sign") /\ UNCHANGED next /\ k.op = "certify" /\ k.content = "genuine"
    BY <1>1, <1>2, <1>16 DEF AfterCheck, Checks
  <2> QED
    BY <1>1, <1>10, <1>14, <1>15, <2>1
<1>17. StoreInv'
  BY <1>1, <1>13, <1>16 DEF Reconcile
<1> QED
  BY <1>1, <1>10, <1>17

LEMMA PutStep ==
    ASSUME StoreInv, NEW c \in Calls, Put(c)
    PROVE  StoreInv' /\ Touches(calls[c].id)
<1>1. PICK k \in CallType : k = calls[c]
  BY AtCall
<1>2. /\ CallsInv /\ DataInv /\ CallOK(k) /\ k.pc = "put" /\ k.id \in Ids
      /\ k.op \in {"upload", "redact", "export"} /\ rows[k.id] = NoRow
  BY <1>1, AtCall DEF Put, CallOK, CallType
<1>3. /\ UNCHANGED <<rows, certificates, audit, logged, next, changes, harmed, returned>>
      /\ abandoned' \in {abandoned, abandoned \cup {k.id}}
  BY <1>1 DEF Put
<1>4. PICK left \in Bytes : objects' = [objects EXCEPT ![k.id] = left]
  BY <1>1, <1>2 DEF Put, Bytes
<1>5. Touches(k.id)
  BY <1>2, <1>3, <1>4 DEF Touches, DataInv
<1>6. DataInv'
  BY <1>2, <1>3, <1>4 DEF DataInv, Tables, HarmInv, ReturnedInv, NothingFromDamagedBytes,
     NoFalseAccusation, Stored
<1>7. k.doc \in Documents' <=> k.doc \in Documents
  BY <1>3 DEF Documents
<1>8. ASSUME NEW pc \in {"insert", "cleanup"}, Goto(c, pc), pc = "insert" => left = "genuine"
      PROVE  StoreInv'
  <2>1. PICK t \in CallType :
              /\ calls' = [calls EXCEPT ![c] = t]
              /\ t.pc = pc /\ t.op = k.op /\ t.doc = k.doc
              /\ t.content = k.content /\ t.id = k.id
    BY <1>1, <1>2, <1>8, GotoStep
  <2>2. pc = "insert" => objects'[k.id] = "genuine"
    BY <1>2, <1>4, <1>8 DEF DataInv
  <2>3. CallOK(t)'
    BY <1>2, <1>3, <1>7, <2>1, <2>2 DEF CallOK, Checks, Ids
  <2>4. CallsInv'
    BY <1>1, <1>2, <1>3, <1>5, <2>1, <2>3, CallStep DEF Disposed
  <2> QED
    BY <1>6, <2>4, HalvesNext
<1>9. CASE Return(c) /\ abandoned' = abandoned \cup {k.id}
  BY <1>1, <1>2, <1>3, <1>5, <1>6, <1>9, ReturnStep, CallStep, HalvesNext
     DEF Disposed, NoCall
<1>10. CASE objects' = [objects EXCEPT ![k.id] = "genuine"]
            /\ (Goto(c, "insert") \/ Goto(c, "cleanup"))
  <2>1. left = "genuine"
    BY <1>2, <1>4, <1>10 DEF DataInv
  <2> QED
    BY <1>1, <1>5, <1>8, <1>10, <2>1
<1>11. StoreInv'
  BY <1>1, <1>8, <1>9, <1>10 DEF Put
<1> QED
  BY <1>1, <1>5, <1>11

LEMMA InsertStep ==
    ASSUME StoreInv, NEW c \in Calls, Insert(c)
    PROVE  StoreInv' /\ Touches(calls[c].id)
<1>1. PICK k \in CallType : k = calls[c]
  BY AtCall
<1>2. /\ CallsInv /\ DataInv /\ CallOK(k) /\ k.pc = "insert" /\ k.id \in Ids
      /\ k.op \in {"upload", "redact", "export"} /\ rows[k.id] = NoRow
      /\ objects[k.id] = "genuine"
  BY <1>1, AtCall DEF Insert, CallOK, CallType
<1>3. UNCHANGED <<objects, certificates, audit, logged, next, changes, ghosts>>
  BY DEF Insert
<1>4. PICK r : r = NewRow(k)
  OBVIOUS
<1>5. /\ r \in RowType /\ r # NoRow
      /\ r.kind = "export" <=> r.status = "COMPLETED"
      /\ r.kind = "derivative" => r.made = "genuine"
      /\ r.status # "TAMPERED"
  BY <1>2, <1>4 DEF NewRow, RowType, NoRow, CallOK, CallType, Kinds, Bytes
<1>6. \/ rows' = [rows EXCEPT ![k.id] = r] /\ Goto(c, "record")
      \/ rows' \in {rows, [rows EXCEPT ![k.id] = r]} /\ Goto(c, "cleanup")
  BY <1>1, <1>4 DEF Insert
<1>7. /\ Tables' /\ Touches(k.id)
      /\ \A i \in Ids \ {k.id} : rows'[i] = rows[i]
      /\ rows'[k.id] \in {NoRow, r}
      /\ rows'[k.id] = NoRow => Goto(c, "cleanup")
  <2>1. CASE rows' = rows
    BY <1>2, <1>3, <1>5, <1>6, <2>1 DEF DataInv, Tables, Touches, ghosts
  <2>2. CASE rows' = [rows EXCEPT ![k.id] = r]
    BY <1>2, <1>3, <1>5, <1>6, <2>2 DEF DataInv, Tables, Touches, ghosts
  <2> QED
    BY <1>6, <2>1, <2>2
<1>8. DataInv'
  <2>1. \A i \in Ids : (rows[i].kind = "export" <=> rows[i].status = "COMPLETED")'
    BY <1>2, <1>5, <1>7 DEF DataInv, NoRow
  <2>2. HarmInv' /\ ReturnedInv'
    BY <1>2, <1>3, <1>7 DEF DataInv, HarmInv, ReturnedInv, Stored, ghosts
  <2>3. NothingFromDamagedBytes' /\ NoFalseAccusation'
    BY <1>2, <1>3, <1>5, <1>7 DEF DataInv, NothingFromDamagedBytes, NoFalseAccusation, ghosts,
       NoRow
  <2> QED
    BY <1>2, <1>3, <1>7, <2>1, <2>2, <2>3 DEF DataInv, ghosts
<1>9. k.doc \in Documents => k.doc \in Documents'
  BY <1>2, <1>7 DEF Documents, NoRow
<1>10. ASSUME NEW pc \in {"record", "cleanup"}, Goto(c, pc), pc = "record" => rows'[k.id] = r
       PROVE  StoreInv'
  <2>1. PICK t \in CallType :
              /\ calls' = [calls EXCEPT ![c] = t]
              /\ t.pc = pc /\ t.op = k.op /\ t.doc = k.doc
              /\ t.content = k.content /\ t.id = k.id
    BY <1>1, <1>2, <1>10, GotoStep
  <2>2. pc = "record" => Stored(k.id)'
    BY <1>5, <1>10 DEF Stored
  <2>3. CallOK(t)'
    BY <1>2, <1>3, <1>9, <2>1, <2>2 DEF CallOK, Checks, Ids, ghosts
  <2>4. CallsInv'
    BY <1>1, <1>2, <1>3, <1>7, <2>1, <2>3, CallStep DEF Disposed
  <2> QED
    BY <1>8, <2>4, HalvesNext
<1>11. CASE rows' = [rows EXCEPT ![k.id] = r] /\ Goto(c, "record")
  BY <1>1, <1>7, <1>2, <1>10, <1>11 DEF DataInv, Tables
<1>12. StoreInv'
  BY <1>6, <1>10, <1>11
<1> QED
  BY <1>1, <1>7, <1>12

LEMMA CleanupStep ==
    ASSUME StoreInv, NEW c \in Calls, Cleanup(c)
    PROVE  StoreInv' /\ Touches(calls[c].id)
<1>1. PICK k \in CallType : k = calls[c]
  BY AtCall
<1>2. CallsInv /\ DataInv /\ CallOK(k) /\ k.pc = "cleanup" /\ k.id \in Ids
  BY <1>1, AtCall DEF Cleanup, CallOK, CallType
<1>3. /\ UNCHANGED <<rows, certificates, audit, next, changes, harmed, returned>>
      /\ Return(c)
      /\ objects' = objects \/ objects' = [objects EXCEPT ![k.id] = "missing"]
      /\ logged' \in {logged, logged \cup {k.id}}
      /\ abandoned' \in {abandoned, abandoned \cup {k.id}}
      /\ objects' = [objects EXCEPT ![k.id] = "missing"] \/ k.id \in logged' \cup abandoned'
  BY <1>1 DEF Cleanup
<1>4. Touches(k.id) /\ Disposed(k.id, 0)
  BY <1>2, <1>3 DEF Touches, DataInv, Disposed
<1>5. DataInv'
  <2>1. objects' \in [Ids -> Bytes] /\ (\A i \in Ids : objects'[i] \in {objects[i], "missing"})
    BY <1>2, <1>3 DEF DataInv, Bytes
  <2>2. Tables' /\ HarmInv' /\ ReturnedInv' /\ NothingFromDamagedBytes' /\ NoFalseAccusation'
    BY <1>2, <1>3, <2>1 DEF DataInv, Tables, HarmInv, ReturnedInv, NothingFromDamagedBytes,
       NoFalseAccusation, Stored
  <2> QED
    BY <1>2, <1>3, <2>1, <2>2 DEF DataInv
<1>6. StoreInv'
  BY <1>1, <1>2, <1>3, <1>4, <1>5, ReturnStep, CallStep, HalvesNext DEF NoCall
<1> QED
  BY <1>1, <1>4, <1>6

LEMMA SignStep ==
    ASSUME StoreInv, NEW c \in Calls, Sign(c)
    PROVE  StoreInv'
<1>1. PICK k \in CallType : k = calls[c]
  BY AtCall
<1>2. /\ CallsInv /\ DataInv /\ CallOK(k) /\ k.pc = "sign" /\ k.id = 0
      /\ k.op = "certify" /\ k.content = "genuine" /\ k.doc \in Documents /\ k.doc \in Ids
  BY <1>1, AtCall DEF Sign, CallOK, CallType, Checks, Documents
<1>3. UNCHANGED <<objects, rows, audit, logged, next, changes, harmed, abandoned>>
  BY DEF Sign
<1>4. Touches(k.id) /\ k.doc \in Documents'
  BY <1>2, <1>3, Untouched DEF Documents
<1>5. PICK mine : mine = [signer |-> c, made |-> k.content]
  OBVIOUS
<1>6. /\ mine \in [signer: Calls \cup {None}, made: Bytes] /\ mine # NoCertificate
      /\ mine.signer = c /\ mine.made = "genuine"
  BY <1>2, <1>5 DEF NoCertificate, Bytes
<1>7. PICK table :
         table = IF certificates[k.doc] = NoCertificate
                 THEN [certificates EXCEPT ![k.doc] = mine] ELSE certificates
  OBVIOUS
<1>8. /\ table \in [Ids -> [signer: Calls \cup {None}, made: Bytes]]
      /\ table[k.doc] # NoCertificate
      /\ \A i \in Ids : /\ certificates[i] # NoCertificate => table[i] = certificates[i]
                        /\ table[i] # NoCertificate => table[i].made = "genuine"
  BY <1>2, <1>6, <1>7 DEF DataInv, NothingFromDamagedBytes
<1>9. /\ certificates' \in {certificates, table}
      /\ \/ returned' = returned
         \/ certificates' = table /\ returned' = returned \cup {<<k.doc, table[k.doc].signer>>}
      /\ Return(c) \/ Goto(c, "record")
  BY <1>1, <1>2, <1>5, <1>6, <1>7 DEF Sign, DataInv
<1>10. DataInv'
  <2>1. ReturnedInv'
    <3>1. CASE returned' = returned
      BY <1>2, <1>8, <1>9, <3>1 DEF DataInv, ReturnedInv
    <3>2. CASE certificates' = table
               /\ returned' = returned \cup {<<k.doc, table[k.doc].signer>>}
      BY <1>2, <1>8, <3>2 DEF DataInv, ReturnedInv
    <3> QED
      BY <1>9, <3>1, <3>2
  <2>2. Tables' /\ HarmInv' /\ NothingFromDamagedBytes' /\ NoFalseAccusation'
    BY <1>2, <1>3, <1>8, <1>9 DEF DataInv, Tables, HarmInv, NothingFromDamagedBytes,
       NoFalseAccusation, Stored
  <2> QED
    BY <1>2, <1>3, <1>8, <1>9, <2>1, <2>2 DEF DataInv
<1>11. CASE Return(c)
  BY <1>1, <1>2, <1>3, <1>4, <1>10, <1>11, ReturnStep, CallStep, HalvesNext
     DEF Disposed, NoCall
<1>12. CASE Goto(c, "record")
  <2>1. PICK t \in CallType :
              /\ calls' = [calls EXCEPT ![c] = t]
              /\ t.pc = "record" /\ t.op = k.op /\ t.doc = k.doc
              /\ t.content = k.content /\ t.id = k.id
    BY <1>1, <1>2, <1>12, GotoStep
  <2>2. CallOK(t)'
    BY <1>2, <1>3, <1>4, <2>1 DEF CallOK, Checks
  <2>3. CallsInv'
    BY <1>1, <1>2, <1>3, <1>4, <2>1, <2>2, CallStep DEF Disposed
  <2> QED
    BY <1>10, <2>3, HalvesNext
<1> QED
  BY <1>9, <1>11, <1>12

LEMMA RecordEventStep ==
    ASSUME StoreInv, NEW c \in Calls, RecordEvent(c)
    PROVE  StoreInv'
<1>1. PICK k \in CallType : k = calls[c]
  BY AtCall
<1>2. CallsInv /\ DataInv /\ CallOK(k) /\ k.pc = "record"
  BY <1>1, AtCall DEF RecordEvent
<1>3. /\ UNCHANGED <<objects, rows, certificates, logged, next, changes, ghosts>>
      /\ Return(c)
      /\ audit' \in {audit, audit \cup EventOf(k)}
  BY <1>1 DEF RecordEvent
<1>4. \A i \in Ids : <<"DOCUMENT_INTEGRITY_FAILURE", i>> \in EventOf(k) => i \in harmed
  <2>1. CASE k.op \in Checks /\ k.content = "damaged"
    BY <1>2, <2>1 DEF EventOf, CallOK, Checks
  <2>2. CASE ~(k.op \in Checks /\ k.content = "damaged")
    <3>1. EventOf(k) \subseteq {<<"DOCUMENT_UPLOADED", k.id>>, <<"EVIDENCE_EXPORTED", k.id>>,
                               <<"DOCUMENT_REDACTED", k.id>>}
      BY <2>2 DEF EventOf, Checks
    <3> QED
      BY <3>1
  <2> QED
    BY <2>1, <2>2
<1>5. DataInv'
  <2>1. NoFalseAccusation'
    BY <1>2, <1>3, <1>4 DEF DataInv, NoFalseAccusation, ghosts
  <2> QED
    BY <1>2, <1>3, <2>1 DEF DataInv, Tables, HarmInv, ReturnedInv, NothingFromDamagedBytes,
       Stored, ghosts
<1>6. Touches(k.id) /\ Disposed(k.id, 0)
  BY <1>2, <1>3, Untouched DEF Disposed, CallOK, Stored, ghosts
<1> QED
  BY <1>1, <1>2, <1>3, <1>5, <1>6, ReturnStep, CallStep, HalvesNext DEF NoCall

LEMMA CrashStep ==
    ASSUME StoreInv, NEW c \in Calls, Crash(c)
    PROVE  StoreInv'
<1>1. PICK k \in CallType : k = calls[c]
  BY AtCall
<1>2. CallsInv /\ DataInv /\ k.id \in Ids \cup {0}
  BY AtCall DEF CallType
<1>3. /\ UNCHANGED <<objects, rows, certificates, audit, logged, next, changes,
                     harmed, returned>>
      /\ Return(c)
      /\ abandoned' = abandoned \cup ({k.id} \ {0})
  BY <1>1 DEF Crash
<1>4. Touches(k.id) /\ Disposed(k.id, 0)
  BY <1>3, Untouched DEF Disposed
<1>5. DataInv'
  BY <1>2, <1>3 DEF DataInv, Tables, HarmInv, ReturnedInv, NothingFromDamagedBytes,
     NoFalseAccusation, Stored, Ids
<1> QED
  BY <1>1, <1>2, <1>3, <1>4, <1>5, ReturnStep, CallStep, HalvesNext DEF NoCall

LEMMA ChangeObjectStep ==
    ASSUME StoreInv, NEW i \in Ids, NEW bytes \in {"genuine", "damaged"}, ChangeObject(i, bytes)
    PROVE  StoreInv'
<1>1. /\ CallsInv /\ DataInv /\ rows[i] # NoRow
      /\ objects' = [objects EXCEPT ![i] = bytes] /\ harmed' = harmed \cup {i}
      /\ UNCHANGED <<rows, certificates, audit, logged, calls, next, abandoned, returned>>
      /\ changes' = changes + 1 /\ changes < MaxChanges
  BY Halves DEF ChangeObject, Stored
<1>2. DataInv'
  <2>1. changes' \in 0..MaxChanges
    BY <1>1, BoundsAssumption DEF DataInv
  <2>2. objects' \in [Ids -> Bytes] /\ (\A j \in Ids : j # i => objects'[j] = objects[j])
    BY <1>1 DEF DataInv, Bytes
  <2>3. Tables' /\ HarmInv' /\ ReturnedInv' /\ NothingFromDamagedBytes' /\ NoFalseAccusation'
    BY <1>1, <2>2 DEF DataInv, Tables, HarmInv, ReturnedInv, NothingFromDamagedBytes,
       NoFalseAccusation, Stored
  <2> QED
    BY <1>1, <2>1, <2>2, <2>3 DEF DataInv
<1>3. Touches(0)
  BY <1>1 DEF Touches, DataInv
<1>4. CallInv'
  <2> SUFFICES ASSUME NEW c \in Calls PROVE CallOK(calls[c])'
    BY DEF CallInv
  <2>1. PICK k \in CallType : k = calls[c]
    BY <1>1 DEF CallsInv
  <2>2. CallOK(k) /\ next \in Nat /\ next' \in Nat /\ next' >= next
    BY <1>1, <2>1 DEF CallsInv, CallInv
  <2>3. CallOK(k)'
    BY <1>3, <2>2, OthersKeep
  <2> QED
    BY <1>1, <2>1, <2>3 DEF CallOK, Stored, Documents
<1>5. FreshInv' /\ NoSilentOrphan'
  BY <1>1 DEF CallsInv, FreshInv, NoSilentOrphan, Stored, DataInv
<1>6. CallsInv'
  BY <1>1, <1>4, <1>5 DEF CallsInv
<1> QED
  BY <1>2, <1>6, HalvesNext

LEMMA InitStore == Init => ObjectInv
<1> SUFFICES ASSUME Init PROVE ObjectInv
  OBVIOUS
<1>1. Tables /\ (\A i \in Ids : rows[i] = NoRow /\ rows[i] \notin RowType)
  BY DEF Init, Tables, NoRow, RowType, Kinds
<1>2. /\ objects \in [Ids -> Bytes] /\ next \in 1..MaxObjects + 1
      /\ changes \in 0..MaxChanges
      /\ certificates \in [Ids -> [signer: Calls \cup {None}, made: Bytes]]
  BY BoundsAssumption DEF Init, NoCertificate, Bytes, Ids
<1>3. DataInv
  BY <1>1, <1>2 DEF Init, DataInv, HarmInv, ReturnedInv, NothingFromDamagedBytes,
     NoFalseAccusation, NoRow, Stored
<1>4. NoCall \in CallType /\ CallOK(NoCall)
  BY DEF NoCall, CallType, CallOK, Bytes, Checks
<1>5. CallsInv
  BY <1>1, <1>2, <1>4 DEF Init, CallsInv, CallInv, FreshInv, NoSilentOrphan, NoCall
<1>6. CleanupInv /\ RowHasObject
  BY <1>1 DEF Init, CleanupInv, RowHasObject, NoCall, Stored
<1> QED
  BY <1>3, <1>5, <1>6, Halves DEF ObjectInv

LEMMA StoreNext == StoreInv /\ [Next]_vars => StoreInv'
<1> SUFFICES ASSUME StoreInv, [Next]_vars PROVE StoreInv'
  OBVIOUS
<1>1. CASE UNCHANGED vars
  BY <1>1 DEF vars, ghosts, StoreInv, TypeOK, Tables, CallInv, CallOK, FreshInv, HarmInv,
     ReturnedInv, NothingFromDamagedBytes, NoFalseAccusation, NoSilentOrphan, Stored,
     Documents
<1>2. ASSUME NEW c \in Calls, Step(c) PROVE StoreInv'
  BY <1>2, UploadDocumentStep, GetByIDStep, FetchCertificateStep, ReadObjectStep,
     ReconcileStep, PutStep, InsertStep, CleanupStep, SignStep, RecordEventStep, CrashStep
     DEF Step
<1>3. ASSUME NEW i \in Ids, NEW bytes \in {"genuine", "damaged"}, ChangeObject(i, bytes)
      PROVE  StoreInv'
  BY <1>3, ChangeObjectStep
<1> QED
  BY <1>1, <1>2, <1>3 DEF Next

LEMMA StoreInvariant == Spec => []StoreInv
<1>1. Init => StoreInv
  BY InitStore DEF ObjectInv
<1> QED
  BY <1>1, StoreNext, PTL DEF Spec

(***************************************************************************)
(* The theorems                                                            *)
(***************************************************************************)
\* Whatever fails, at any time and in any order, and whatever is done to the
\* objects meanwhile: RedactDocument and GetOrCreateCertificate work from
\* bytes that matched the hash of their document.
THEOREM DamageIsNotPropagated == Spec => [](TypeOK /\ NothingFromDamagedBytes)
<1>1. StoreInv => TypeOK /\ NothingFromDamagedBytes
  BY DEF StoreInv
<1> QED
  BY <1>1, StoreInvariant, PTL

\* GetOrCreateCertificate, called by anyone at any time, hands out the one
\* certificate of the document that is in compliance_certificates.
THEOREM OneCertificatePerDocument == Spec => []CertificatesAgree
<1>1. StoreInv => CertificatesAgree
  BY DEF StoreInv, ReturnedInv, CertificatesAgree
<1> QED
  BY <1>1, StoreInvariant, PTL

\* reconcileTamperStatus never marks, and verify and its relatives never
\* report, a document whose object nobody has overwritten.
THEOREM AccusationsAreJust == Spec => []NoFalseAccusation
<1>1. StoreInv => NoFalseAccusation
  BY DEF StoreInv
<1> QED
  BY <1>1, StoreInvariant, PTL

\* Bytes without a row are owned by a running call, reported by cleanupOrphan,
\* or left behind by one of the calls and crashes that cannot clean up.
THEOREM OrphansAreKnown == Spec => []NoSilentOrphan
<1>1. StoreInv => NoSilentOrphan
  BY DEF StoreInv
<1> QED
  BY <1>1, StoreInvariant, PTL

(***************************************************************************)
(* Rows have their bytes                                                   *)
(***************************************************************************)
LEMMA ObjectStep ==
    ASSUME ObjectInv, NEW c \in Calls, Touches(calls[c].id),
           NEW t, calls' = [calls EXCEPT ![c] = t],
           t.pc = "cleanup" => rows'[t.id] = NoRow,
           \A i \in Ids : rows'[i] # NoRow => objects'[i] # "missing",
           \A a \in {"DOCUMENT_UPLOADED", "DOCUMENT_REDACTED", "EVIDENCE_EXPORTED"}, i \in Ids :
              <<a, i>> \in audit' => <<a, i>> \in audit \/ rows'[i] # NoRow
    PROVE  CleanupInv' /\ RowHasObject'
<1>1. ASSUME NEW d \in Calls, calls'[d].pc = "cleanup" PROVE rows'[calls'[d].id] = NoRow
  <2>1. CASE d = c
    BY <1>1, <2>1, AtCall DEF ObjectInv, CallsInv
  <2>2. CASE d # c
    <3>1. calls'[d] = calls[d]
      BY <2>2, AtCall DEF ObjectInv, CallsInv
    <3>2. PICK i \in Ids : i = calls[d].id
      BY <1>1, <3>1, AtCall DEF ObjectInv, CallOK, CallType
    <3>3. rows[i] = NoRow /\ i # calls[c].id
      BY <1>1, <2>2, <3>1, <3>2, AtCall
         DEF ObjectInv, CleanupInv, CallOK, StoreInv, FreshInv
    <3> QED
      BY <3>1, <3>2, <3>3 DEF Touches
  <2> QED
    BY <2>1, <2>2
<1> QED
  BY <1>1 DEF CleanupInv, RowHasObject, Stored, ObjectInv, Touches

\* The keys of a call and their rows and bytes, for the step below.
LEMMA AtObjects ==
    ASSUME ObjectInv, NEW c \in Calls, NEW k, k = calls[c]
    PROVE  /\ k \in CallType /\ CallOK(k) /\ calls \in [Calls -> CallType]
           /\ objects \in [Ids -> Bytes] /\ rows \in [Ids -> RowType \cup {NoRow}]
           /\ \A i \in Ids : rows[i] # NoRow => objects[i] # "missing"
           /\ k.pc = "cleanup" => rows[k.id] = NoRow
           /\ CallsInv /\ DataInv /\ StoreInv
BY AtCall DEF ObjectInv, RowHasObject, CleanupInv, Stored, DataInv, CallsInv, Tables

LEMMA KeysArePositive == \A i \in Ids : i # 0
BY BoundsAssumption, SMT DEF Ids

\* A call that neither cleans up nor writes a row or an event.
LEMMA QuietStep ==
    ASSUME ObjectInv, NEW c \in Calls, NEW t, calls' = [calls EXCEPT ![c] = t],
           t.pc # "cleanup", UNCHANGED <<objects, rows, logged, harmed, audit>>,
           abandoned \subseteq abandoned'
    PROVE  CleanupInv' /\ RowHasObject'
<1>1. Touches(calls[c].id)
  BY Untouched
<1> QED
  BY <1>1, AtObjects, ObjectStep

LEMMA GotoPC ==
    ASSUME ObjectInv, NEW c \in Calls,
           NEW pc \in {"get", "sign", "record", "insert", "cleanup"}, Goto(c, pc)
    PROVE  \E t \in CallType : /\ calls' = [calls EXCEPT ![c] = t]
                               /\ t.pc = pc /\ t.id = calls[c].id
<1>1. CallsInv
  BY AtObjects
<1>2. PICK t \in CallType :
           /\ calls' = [calls EXCEPT ![c] = t]
           /\ t.pc = pc /\ t.op = calls[c].op /\ t.doc = calls[c].doc
           /\ t.content = calls[c].content /\ t.id = calls[c].id
  BY <1>1, GotoStep
<1> QED
  BY <1>2

LEMMA ObjectNext ==
    ASSUME "lost commit" \notin Faults, ObjectInv, NEW c \in Calls, Step(c)
    PROVE  CleanupInv' /\ RowHasObject'
<1>k. PICK k : k = calls[c]
  OBVIOUS
<1>o. /\ k \in CallType /\ CallOK(k) /\ calls \in [Calls -> CallType]
      /\ objects \in [Ids -> Bytes] /\ rows \in [Ids -> RowType \cup {NoRow}]
      /\ \A i \in Ids : rows[i] # NoRow => objects[i] # "missing"
      /\ k.pc = "cleanup" => rows[k.id] = NoRow
      /\ CallsInv /\ DataInv /\ StoreInv
  BY <1>k, AtObjects
<1>r. Return(c) => calls' = [calls EXCEPT ![c] = NoCall] /\ NoCall.pc = "idle"
  BY DEF Return, NoCall
<1>1. CASE UploadDocument(c)
  <2>1. PICK k2 : k2 = [NoCall EXCEPT !.op = "upload"]
    OBVIOUS
  <2>2. k2 \in CallType /\ GotoPut(c, k2)
    BY <1>1, <2>1 DEF NoCall, CallType, Bytes, Checks, UploadDocument
  <2> QED
    BY <1>1, <1>o, <2>2, GotoPutStep, QuietStep DEF UploadDocument, ghosts
<1>2. CASE \E op \in Checks \cup {"export"}, d \in Documents : GetByID(c, op, d)
  <2>1. PICK op \in Checks \cup {"export"}, d \in Documents : GetByID(c, op, d)
    BY <1>2
  <2>2. PICK pc : pc = IF op = "certify" THEN "fetch" ELSE "get"
    OBVIOUS
  <2>3. PICK t : t = [NoCall EXCEPT !.pc = pc, !.op = op, !.doc = d, !.status = rows[d].status]
    OBVIOUS
  <2>4. t.pc # "cleanup"
    BY <2>2, <2>3 DEF NoCall
  <2>5. calls' = [calls EXCEPT ![c] = t]
    BY <2>1, <2>2, <2>3 DEF GetByID
  <2> QED
    BY <2>1, <2>4, <2>5, QuietStep DEF GetByID, ghosts
<1>3. CASE FetchCertificate(c)
  BY <1>3, <1>r, QuietStep, GotoPC DEF FetchCertificate
<1>4. CASE ReadObject(c)
  <2>1. UNCHANGED <<objects, rows, logged, harmed, audit, abandoned>>
    BY <1>4 DEF ReadObject, ghosts
  <2>2. PICK bytes : bytes = objects[k.doc]
    OBVIOUS
  <2>3. \/ Return(c)
        \/ GotoPut(c, [k EXCEPT !.content = bytes]) /\ bytes \in Bytes
        \/ calls' = [calls EXCEPT ![c].pc = "reconcile", ![c].content = bytes]
    BY <1>4, <1>k, <1>o, <2>2 DEF ReadObject, CallOK, Documents, Checks
  <2>4. CASE GotoPut(c, [k EXCEPT !.content = bytes]) /\ bytes \in Bytes
    <3>1. PICK k2 : k2 = [k EXCEPT !.content = bytes]
      OBVIOUS
    <3>2. k2 \in CallType /\ GotoPut(c, k2)
      BY <1>o, <2>4, <3>1 DEF CallType
    <3> QED
      BY <1>o, <2>1, <3>2, GotoPutStep, QuietStep
  <2>5. CASE calls' = [calls EXCEPT ![c].pc = "reconcile", ![c].content = bytes]
    <3>1. PICK t : t = [k EXCEPT !.pc = "reconcile", !.content = bytes]
      OBVIOUS
    <3>2. t.pc = "reconcile" /\ calls' = [calls EXCEPT ![c] = t]
      BY <1>k, <1>o, <2>5, <3>1 DEF CallType
    <3> QED
      BY <2>1, <3>2, QuietStep
  <2> QED
    BY <1>r, <2>1, <2>3, <2>4, <2>5, QuietStep
<1>5. CASE Reconcile(c)
  <2>1. Touches(k.id) /\ UNCHANGED <<objects, audit>>
    BY <1>5, <1>k, <1>o, ReconcileStep DEF Reconcile
  <2>2. PICK t : calls' = [calls EXCEPT ![c] = t] /\ t.pc # "cleanup"
    BY <1>5, <1>k, <1>o, <1>r, GotoPC, GotoPutStep DEF Reconcile, AfterCheck
  <2>3. k.id = 0
    BY <1>5, <1>k, <1>o DEF Reconcile, CallOK
  <2>4. \A i \in Ids : rows'[i] # NoRow => objects'[i] # "missing"
    <3>1. Touches(0)
      BY <2>1, <2>3
    <3>2. \A i \in Ids : i # 0
      BY KeysArePositive
    <3> QED
      BY <1>o, <2>1, <3>1, <3>2 DEF Touches
  <2> QED
    BY <1>k, <2>1, <2>2, <2>4, ObjectStep
<1>6. CASE Put(c)
  <2>1. Touches(k.id) /\ k.id \in Ids /\ rows[k.id] = NoRow /\ UNCHANGED <<rows, audit>>
    BY <1>6, <1>k, <1>o, PutStep DEF Put, CallOK, CallType
  <2>2. PICK t : calls' = [calls EXCEPT ![c] = t] /\ (t.pc = "cleanup" => t.id = k.id)
    <3>1. Return(c) \/ Goto(c, "insert") \/ Goto(c, "cleanup")
      BY <1>6 DEF Put
    <3> QED
      BY <1>k, <1>r, <3>1, GotoPC
  <2>3. \A i \in Ids : rows'[i] # NoRow => objects'[i] # "missing"
    BY <1>o, <1>6, <1>k, <2>1 DEF Put
  <2> QED
    BY <1>k, <2>1, <2>2, <2>3, ObjectStep
<1>7. CASE Insert(c)
  <2>1. /\ Touches(k.id) /\ k.id \in Ids /\ rows[k.id] = NoRow
        /\ UNCHANGED <<objects, audit>> /\ objects[k.id] = "genuine"
    BY <1>7, <1>k, <1>o, InsertStep DEF Insert, CallOK, CallType
  <2>2. Goto(c, "record") \/ (Goto(c, "cleanup") /\ rows' = rows)
    BY <1>7 DEF Insert, Maybe
  <2>3. \A i \in Ids : rows'[i] # NoRow => objects'[i] # "missing"
    BY <1>o, <2>1 DEF Touches
  <2>4. PICK t : calls' = [calls EXCEPT ![c] = t] /\ (t.pc = "cleanup" => rows'[t.id] = NoRow)
    BY <1>k, <2>1, <2>2, GotoPC
  <2> QED
    BY <1>k, <2>1, <2>3, <2>4, ObjectStep
<1>8. CASE Cleanup(c)
  <2>1. Touches(k.id) /\ k.id \in Ids /\ rows[k.id] = NoRow /\ UNCHANGED <<rows, audit>>
    BY <1>8, <1>k, <1>o, CleanupStep DEF Cleanup, CallOK, CallType
  <2>2. calls' = [calls EXCEPT ![c] = NoCall] /\ NoCall.pc = "idle"
    BY <1>8, <1>r DEF Cleanup
  <2>3. \A i \in Ids : rows'[i] # NoRow => objects'[i] # "missing"
    BY <1>o, <1>8, <1>k, <2>1 DEF Cleanup
  <2> QED
    BY <1>k, <2>1, <2>2, <2>3, ObjectStep
<1>9. CASE Sign(c)
  BY <1>9, <1>r, QuietStep, GotoPC DEF Sign
<1>10. CASE RecordEvent(c)
  <2>1. Touches(k.id) /\ UNCHANGED <<objects, rows>>
    BY <1>10, Untouched DEF RecordEvent, ghosts
  <2>2. calls' = [calls EXCEPT ![c] = NoCall] /\ NoCall.pc = "idle"
    BY <1>10, <1>r DEF RecordEvent
  <2>3. ASSUME NEW a \in {"DOCUMENT_UPLOADED", "DOCUMENT_REDACTED", "EVIDENCE_EXPORTED"},
               NEW i \in Ids, <<a, i>> \in EventOf(k)
        PROVE  rows'[i] # NoRow
    <3>1. CASE k.op \in {"upload", "export"}
      BY <1>10, <1>k, <1>o, <2>1, <2>3, <3>1
         DEF EventOf, Checks, CallOK, RecordEvent, Stored
    <3>2. CASE k.op = "redact" /\ k.content = "genuine"
      BY <1>10, <1>k, <1>o, <2>1, <2>3, <3>2
         DEF EventOf, Checks, CallOK, RecordEvent, Stored
    <3>3. CASE k.op \in Checks /\ k.content = "damaged"
      BY <2>3, <3>3 DEF EventOf, Checks
    <3>4. k.op \in {"upload", "export"} \/ (k.op = "redact" /\ k.content = "genuine")
             \/ (k.op \in Checks /\ k.content = "damaged")
      <4> SUFFICES ASSUME ~(k.op \in {"upload", "export"}),
                          ~(k.op = "redact" /\ k.content = "genuine"),
                          ~(k.op \in Checks /\ k.content = "damaged")
                   PROVE  FALSE
        OBVIOUS
      <4>1. EventOf(k) = {}
        BY DEF EventOf
      <4> QED
        BY <2>3, <4>1
    <3> QED
      BY <3>1, <3>2, <3>3, <3>4
  <2>4. audit' \in {audit, audit \cup EventOf(k)}
    BY <1>10, <1>k DEF RecordEvent
  <2>5. \A a \in {"DOCUMENT_UPLOADED", "DOCUMENT_REDACTED", "EVIDENCE_EXPORTED"}, i \in Ids :
           <<a, i>> \in audit' => <<a, i>> \in audit \/ rows'[i] # NoRow
    BY <2>3, <2>4
  <2> QED
    BY <1>k, <1>o, <2>1, <2>2, <2>5, ObjectStep
<1>11. CASE Crash(c)
  BY <1>11, <1>r, QuietStep DEF Crash
<1> QED
  BY <1>1, <1>2, <1>3, <1>4, <1>5, <1>6, <1>7, <1>8, <1>9, <1>10, <1>11 DEF Step

\* While no COMMIT that is reported as failed takes effect nevertheless: a
\* committed row, and an audit event that announces one, refers to bytes that
\* are there.  With lost commits the cleanup of UploadDocument may delete the
\* bytes of a row that exists.
THEOREM RowsHaveTheirBytes ==
    ASSUME "lost commit" \notin Faults
    PROVE  Spec => []RowHasObject
<1>1. ASSUME ObjectInv, [Next]_vars PROVE ObjectInv'
  <2>1. StoreInv'
    BY <1>1, StoreNext DEF ObjectInv
  <2>2. CASE UNCHANGED vars
    BY <1>1, <2>1, <2>2 DEF vars, ObjectInv, CleanupInv, RowHasObject, Stored
  <2>3. ASSUME NEW c \in Calls, Step(c) PROVE ObjectInv'
    BY <1>1, <2>1, <2>3, ObjectNext DEF ObjectInv
  <2>4. ASSUME NEW i \in Ids, NEW bytes \in {"genuine", "damaged"}, ChangeObject(i, bytes)
        PROVE  ObjectInv'
    <3>1. /\ UNCHANGED <<rows, audit, calls>> /\ bytes # "missing"
          /\ objects' = [objects EXCEPT ![i] = bytes] /\ objects \in [Ids -> Bytes]
      BY <1>1, <2>4, Halves DEF ObjectInv, ChangeObject, DataInv
    <3>2. CleanupInv' /\ RowHasObject'
      BY <1>1, <3>1 DEF ObjectInv, CleanupInv, RowHasObject, Stored
    <3> QED
      BY <2>1, <3>2 DEF ObjectInv
  <2> QED
    BY <1>1, <2>2, <2>3, <2>4 DEF Next
<1>2. ObjectInv => RowHasObject
  BY DEF ObjectInv
<1> QED
  BY <1>1, <1>2, InitStore, PTL DEF Spec
=============================================================================
