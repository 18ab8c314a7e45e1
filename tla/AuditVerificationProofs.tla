------------------------ MODULE AuditVerificationProofs ------------------------
(***************************************************************************)
(* Proofs about AuditVerification for any number of jobs, callers, workers *)
(* and readers, any length of the chain, batch size and number of retries: *)
(* a verdict is true of the chain, is never changed, and rests on a single *)
(* scan, however often the queue delivers the task.                        *)
(***************************************************************************)
EXTENDS AuditVerification, TLAPS

(***************************************************************************)
(* The inductive invariant                                                 *)
(***************************************************************************)
Enqueues(c) == caller[c].pc = "enqueue"
Works(w) == exec[w].pc # "idle"

\* A job is created by one caller, who alone enqueues its task, once; and its
\* task is with one worker at a time.
TaskInv ==
    /\ \A v \in Jobs : row[v].status = "none" => task[v] = "none"
    /\ \A c \in Callers : Enqueues(c) =>
          /\ caller[c].job \in Jobs
          /\ row[caller[c].job].status # "none" /\ task[caller[c].job] = "none"
    /\ \A c, d \in Callers :
          Enqueues(c) /\ Enqueues(d) /\ caller[c].job = caller[d].job => c = d
    /\ \A w \in Workers : Works(w) => exec[w].job \in Jobs /\ task[exec[w].job] = "active"
    /\ \A w, x \in Workers : Works(w) /\ Works(x) /\ exec[w].job = exec[x].job => w = x

\* What a row says before and after its scan.
RowInv ==
    \A v \in Jobs :
        /\ row[v].status \in {"none", "QUEUED"} => row[v].checked = 0
        /\ requestLen[v] <= len

\* No worker or error handler has settled the run; a reader may have presumed
\* that its worker is dead.
Unsettled(r) == r.status = "RUNNING" \/ (r.status = "FAILED" /\ r.failureType = "stale")

\* What a worker knows about the chain, and about the row that it will write.
ScanOK(x) ==
    /\ x.pc \in {"count", "mark", "scan"} => x.cursor = x.checked /\ ~x.failed
    /\ x.pc \in {"count", "mark"} => x.checked = 0
    /\ x.pc = "scan" => x.cursor <= len /\ (bad = 0 \/ bad > x.cursor)
    /\ x.pc = "complete" =>
          IF x.failed THEN bad > 0 /\ x.cursor = bad /\ x.checked = bad - 1
                      ELSE x.checked >= requestLen[x.job] /\ (bad = 0 \/ bad > x.checked)
    /\ x.pc \in {"scan", "complete"} => Unsettled(row[x.job])
    /\ x.pc = "fail" => row[x.job].status \in Active \cup {"FAILED"}
    /\ x.pc \in {"scan", "complete", "fail"} => row[x.job].checked <= x.checked

ScanInv == \A w \in Workers : ScanOK(exec[w])

JobInv == TypeOK /\ TaskInv /\ RowInv /\ ScanInv /\ VerdictSound

\* What a step may make of the row of a run.
RowGrows(v) ==
    /\ row'[v].checked >= row[v].checked
    /\ row[v].status \in Verdict => row'[v].status = row[v].status
    /\ row[v].status = "FAILED" => row'[v].status \in Terminal
    /\ row[v].status = "FAILED" /\ row[v].failureType # "stale" =>
          row'[v].status = "FAILED"

RowsGrow == \A v \in Jobs : RowGrows(v)

-----------------------------------------------------------------------------
(***************************************************************************)
(* Records                                                                 *)
(***************************************************************************)
RowRecord == [status : {"none"} \cup Active \cup Terminal, fresh : BOOLEAN,
              checked : Nat, failedSeq : Nat,
              failureType : {"none", "finding", "operational", "stale"}]
ExecRecord == [pc : {"idle", "count", "mark", "scan", "complete", "record", "nil",
                     "error", "giveup", "fail"},
               job : Jobs \cup {None}, cursor : Nat, checked : Nat, failed : BOOLEAN]
TaskStates == {"none", "pending", "active", "retry", "completed", "archived"}

At(w, p) == [pc |-> p, job |-> exec[w].job, cursor |-> exec[w].cursor,
             checked |-> exec[w].checked, failed |-> exec[w].failed]

LEMMA InitInv == Init => JobInv
<1> SUFFICES ASSUME Init PROVE JobInv
  OBVIOUS
<1>1. TypeOK
  BY RetryAssumption DEF Init, TypeOK, NoRow, Idle
<1>2. TaskInv
  BY DEF Init, TaskInv, NoRow, Idle, Enqueues, Works
<1>3. RowInv
  <2>1. len \in Nat
    BY <1>1 DEF TypeOK
  <2>2. \A v \in Jobs : row[v].checked = 0
    BY DEF Init, NoRow
  <2>3. \A v \in Jobs : requestLen[v] = 0
    BY DEF Init
  <2>4. ASSUME NEW v \in Jobs PROVE requestLen[v] <= len
    <3>1. requestLen[v] = 0
      BY <2>3
    <3>2. 0 <= len
      BY <2>1
    <3> QED  BY <3>1, <3>2
  <2> QED  BY <2>2, <2>4 DEF RowInv
<1>4. ScanInv
  BY DEF Init, ScanInv, ScanOK, Idle
<1>5. VerdictSound
  BY DEF Init, VerdictSound, NoRow
<1> QED  BY <1>1, <1>2, <1>3, <1>4, <1>5 DEF JobInv

LEMMA GotoRecord ==
    ASSUME TypeOK, NEW w \in Workers,
           NEW p \in {"mark", "scan", "nil", "record", "error", "giveup"}, Goto(w, p)
    PROVE  exec' = [exec EXCEPT ![w] = At(w, p)] /\ At(w, p) \in ExecRecord
<1>1. [exec[w] EXCEPT !.pc = p] = At(w, p)
  BY DEF At, TypeOK
<1>2. At(w, p) \in ExecRecord
  BY DEF At, TypeOK, ExecRecord
<1> QED  BY <1>1, <1>2 DEF Goto

LEMMA IdleRecord == Idle \in ExecRecord /\ Idle.pc = "idle"
BY DEF Idle, ExecRecord

-----------------------------------------------------------------------------
(***************************************************************************)
(* What a worker knows stays true                                          *)
(***************************************************************************)
\* A step is gentle on a run when no worker on it is misled.
Gentle(v) ==
    /\ row'[v].checked = row[v].checked
    /\ requestLen'[v] = requestLen[v]
    /\ Unsettled(row[v]) => Unsettled(row'[v])
    /\ row[v].status \in Active \cup {"FAILED"} =>
          row'[v].status \in Active \cup {"FAILED"}

LEMMA ScanKept ==
    ASSUME NEW x \in ExecRecord, ScanOK(x), len \in Nat, len' \in Nat, len <= len',
           bad \in Nat, bad' = bad,
           x.pc \in {"scan", "complete", "fail"} => Gentle(x.job)
    PROVE  ScanOK(x)'
BY DEF ScanOK, Gentle, ExecRecord

LEMMA ScanStays ==
    ASSUME JobInv, exec' = exec, bad' = bad, len' \in Nat, len <= len',
           \A v \in Jobs : row[v].status # "none" => Gentle(v)
    PROVE  ScanInv'
<1> SUFFICES ASSUME NEW w \in Workers PROVE ScanOK(exec[w])'
  BY DEF ScanInv
<1>1. PICK x \in ExecRecord : x = exec[w]
  BY DEF JobInv, TypeOK, ExecRecord
<1>2. ScanOK(x) /\ len \in Nat /\ bad \in Nat
  BY <1>1 DEF JobInv, ScanInv, TypeOK
<1>3. x.pc # "idle" => x.job \in Jobs /\ row[x.job].status # "none"
  BY <1>1 DEF JobInv, TaskInv, Works
<1>4. ScanOK(x)'
  BY <1>2, <1>3, ScanKept
<1> QED  BY <1>1, <1>4 DEF ScanOK

\* Worker w moves to record t, and writes no row but that of its own job.
LEMMA ExecMove ==
    ASSUME JobInv, NEW w \in Workers, NEW t \in ExecRecord,
           exec' = [exec EXCEPT ![w] = t], ScanOK(t)',
           len' \in Nat, len <= len', UNCHANGED <<requestLen, bad>>,
           row' = row \/ (Works(w) /\ \A v \in Jobs : v # exec[w].job => row'[v] = row[v])
    PROVE  exec' \in [Workers -> ExecRecord] /\ ScanInv'
<1>1. exec' \in [Workers -> ExecRecord]
  BY DEF JobInv, TypeOK, ExecRecord
<1>2. ASSUME NEW u \in Workers PROVE ScanOK(exec[u])'
  <2>1. CASE u = w
    <3>1. exec'[u] = t
      BY <2>1 DEF JobInv, TypeOK
    <3> QED  BY <3>1 DEF ScanOK
  <2>2. CASE u # w
    <3>1. PICK x \in ExecRecord : x = exec[u] /\ x = exec'[u]
      BY <2>2 DEF JobInv, TypeOK, ExecRecord
    <3>2. ScanOK(x) /\ len \in Nat /\ bad \in Nat
      BY <3>1 DEF JobInv, ScanInv, TypeOK
    <3>3. x.pc # "idle" => x.job \in Jobs /\ row'[x.job] = row[x.job]
      BY <2>2, <3>1 DEF JobInv, TaskInv, Works
    <3>4. x.pc \in {"scan", "complete", "fail"} => Gentle(x.job)
      BY <3>3 DEF Gentle
    <3>5. ScanOK(x)'
      BY <3>2, <3>4, ScanKept
    <3> QED  BY <3>1, <3>5 DEF ScanOK
  <2> QED  BY <2>1, <2>2
<1> QED  BY <1>1, <1>2 DEF ScanInv

\* The program counters at which a worker claims nothing about the chain.
Quiet == {"idle", "record", "nil", "error", "giveup"}

LEMMA QuietOK == ASSUME NEW t \in ExecRecord, t.pc \in Quiet PROVE ScanOK(t)'
BY DEF ScanOK, Quiet

-----------------------------------------------------------------------------
(***************************************************************************)
(* One task, one worker                                                    *)
(***************************************************************************)
\* A worker goes on with its job, or stops and settles the task.
LEMMA TaskMove ==
    ASSUME JobInv, NEW w \in Workers, Works(w), NEW t \in ExecRecord,
           exec' = [exec EXCEPT ![w] = t],
           IF t.pc = "idle"
              THEN \E s \in TaskStates \ {"none"} : task' = [task EXCEPT ![exec[w].job] = s]
              ELSE t.job = exec[w].job /\ task' = task,
           \A v \in Jobs : row'[v].status = "none" => row[v].status = "none",
           \A v \in Jobs : row[v].status # "none" => row'[v].status # "none",
           caller' = caller
    PROVE  TaskInv' /\ task' \in [Jobs -> TaskStates]
<1>1. /\ exec'[w] = t /\ \A u \in Workers : u # w => exec'[u] = exec[u]
      /\ exec[w].job \in Jobs /\ task[exec[w].job] = "active"
  BY DEF JobInv, TypeOK, TaskInv
<1>2. /\ task' \in [Jobs -> TaskStates]
      /\ \A v \in Jobs : v # exec[w].job => task'[v] = task[v]
      /\ task'[exec[w].job] # "none"
      /\ t.pc # "idle" => t.job = exec[w].job /\ task' = task
  BY <1>1 DEF JobInv, TypeOK, TaskStates
<1>3. \A v \in Jobs : row'[v].status = "none" => task'[v] = "none"
  BY <1>1, <1>2 DEF JobInv, TaskInv
<1>4. \A c \in Callers : Enqueues(c)' =>
          /\ caller'[c].job \in Jobs
          /\ row'[caller'[c].job].status # "none" /\ task'[caller'[c].job] = "none"
  BY <1>1, <1>2 DEF JobInv, TaskInv, Enqueues
<1>5. \A c, d \in Callers :
          Enqueues(c)' /\ Enqueues(d)' /\ caller'[c].job = caller'[d].job => c = d
  BY DEF JobInv, TaskInv, Enqueues
<1>6. \A u \in Workers : Works(u)' => exec'[u].job \in Jobs /\ task'[exec'[u].job] = "active"
  BY <1>1, <1>2 DEF JobInv, TaskInv, Works
<1>7. \A u, x \in Workers : Works(u)' /\ Works(x)' /\ exec'[u].job = exec'[x].job => u = x
  BY <1>1, <1>2 DEF JobInv, TaskInv, Works
<1> QED  BY <1>2, <1>3, <1>4, <1>5, <1>6, <1>7 DEF TaskInv

\* Tasks, workers and callers stand still, and so does the existence of rows.
LEMMA TaskStays ==
    ASSUME JobInv, UNCHANGED <<task, exec, caller>>,
           \A v \in Jobs : row'[v].status = "none" <=> row[v].status = "none"
    PROVE  TaskInv'
BY DEF JobInv, TaskInv, Enqueues, Works

LEMMA RetryTask ==
    ASSUME TypeOK, NEW v \in Jobs, RetryOrArchive(v)
    PROVE  /\ retried' \in [Jobs -> 0..MaxRetry]
           /\ \E s \in TaskStates \ {"none"} : task' = [task EXCEPT ![v] = s]
<1>1. CASE retried[v] < MaxRetry
  <2>1. retried[v] + 1 \in 0..MaxRetry
    BY <1>1, RetryAssumption DEF TypeOK
  <2> QED  BY <1>1, <2>1 DEF TypeOK, RetryOrArchive, TaskStates
<1>2. CASE ~(retried[v] < MaxRetry)
  BY <1>2 DEF TypeOK, RetryOrArchive, TaskStates
<1> QED  BY <1>1, <1>2

-----------------------------------------------------------------------------
(***************************************************************************)
(* Rows                                                                    *)
(***************************************************************************)
\* A row that claims nothing false of the chain.
RowSound(r, requested) ==
    /\ r.status \in {"none", "QUEUED"} => r.checked = 0
    /\ r.status = "VERIFIED" => r.checked >= requested /\ ~(bad \in 1..r.checked)
    /\ r.status = "INTEGRITY_FAILURE" =>
          bad > 0 /\ r.failedSeq = bad /\ r.checked = bad - 1

LEMMA RowsStay ==
    ASSUME JobInv, UNCHANGED <<row, requestLen, bad>>, len' \in Nat, len <= len'
    PROVE  RowInv' /\ VerdictSound' /\ RowsGrow
<1>1. RowInv'
  BY DEF JobInv, TypeOK, RowInv
<1>2. VerdictSound'
  BY DEF JobInv, VerdictSound
<1>3. RowsGrow
  BY DEF JobInv, TypeOK, RowsGrow, RowGrows, Terminal
<1> QED  BY <1>1, <1>2, <1>3

\* The row of v becomes r.
LEMMA RowMove ==
    ASSUME JobInv, NEW v \in Jobs, NEW r \in RowRecord, row' = [row EXCEPT ![v] = r],
           UNCHANGED <<requestLen, bad, len>>, RowSound(r, requestLen[v]),
           r.checked >= row[v].checked,
           row[v].status \in Verdict => r.status = row[v].status,
           row[v].status = "FAILED" => r.status \in Terminal,
           row[v].status = "FAILED" /\ row[v].failureType # "stale" => r.status = "FAILED"
    PROVE  row' \in [Jobs -> RowRecord] /\ RowInv' /\ VerdictSound' /\ RowsGrow
<1>1. row'[v] = r /\ \A u \in Jobs : u # v => row'[u] = row[u]
  BY DEF JobInv, TypeOK
<1>2. row' \in [Jobs -> RowRecord]
  BY DEF JobInv, TypeOK, RowRecord
<1>3. RowInv'
  BY <1>1 DEF JobInv, RowInv, RowSound
<1>4. VerdictSound'
  BY <1>1 DEF JobInv, VerdictSound, RowSound
<1>5. RowsGrow
  <2> SUFFICES ASSUME NEW u \in Jobs PROVE RowGrows(u)
    BY DEF RowsGrow
  <2>1. CASE u = v
    BY <1>1, <2>1 DEF RowGrows
  <2>2. CASE u # v
    BY <1>1, <2>2 DEF JobInv, TypeOK, RowGrows, Terminal
  <2> QED  BY <2>1, <2>2
<1> QED  BY <1>2, <1>3, <1>4, <1>5

LEMMA RowFacts ==
    ASSUME JobInv, NEW v \in Jobs
    PROVE  /\ row[v] \in RowRecord /\ row[v].checked \in Nat
           /\ RowSound(row[v], requestLen[v]) /\ requestLen[v] \in Nat
BY DEF JobInv, TypeOK, RowInv, VerdictSound, RowSound, RowRecord

\* A step that leaves the database and the chain alone and moves one worker.
LEMMA OnlyWorkerMoves ==
    ASSUME JobInv, NEW w \in Workers, Works(w), NEW t \in ExecRecord,
           exec' = [exec EXCEPT ![w] = t], ScanOK(t)',
           IF t.pc = "idle"
              THEN \E s \in TaskStates \ {"none"} : task' = [task EXCEPT ![exec[w].job] = s]
              ELSE t.job = exec[w].job /\ task' = task,
           retried' \in [Jobs -> 0..MaxRetry],
           UNCHANGED <<row, requestLen, caller, reader, len, bad>>
    PROVE  JobInv' /\ RowsGrow
<1>1. len \in Nat /\ len' \in Nat /\ len <= len'
  BY DEF JobInv, TypeOK
<1>2. TaskInv' /\ task' \in [Jobs -> TaskStates]
  BY TaskMove
<1>3. exec' \in [Workers -> ExecRecord] /\ ScanInv'
  BY <1>1, ExecMove
<1>4. RowInv' /\ VerdictSound' /\ RowsGrow
  BY <1>1, RowsStay
<1>5. TypeOK'
  BY <1>2, <1>3 DEF JobInv, TypeOK, TaskStates, ExecRecord
<1> QED  BY <1>2, <1>3, <1>4, <1>5 DEF JobInv

\* A step that also writes the row of the worker's job.
LEMMA WorkerWrites ==
    ASSUME JobInv, NEW w \in Workers, Works(w), NEW t \in ExecRecord,
           exec' = [exec EXCEPT ![w] = t], ScanOK(t)',
           IF t.pc = "idle"
              THEN \E s \in TaskStates \ {"none"} : task' = [task EXCEPT ![exec[w].job] = s]
              ELSE t.job = exec[w].job /\ task' = task,
           retried' \in [Jobs -> 0..MaxRetry],
           UNCHANGED <<requestLen, caller, reader, len, bad>>,
           NEW r \in RowRecord, row' = [row EXCEPT ![exec[w].job] = r],
           RowSound(r, requestLen[exec[w].job]), r.status # "none",
           r.checked >= row[exec[w].job].checked,
           row[exec[w].job].status \in Verdict => r.status = row[exec[w].job].status,
           row[exec[w].job].status = "FAILED" => r.status \in Terminal,
           row[exec[w].job].status = "FAILED" /\ row[exec[w].job].failureType # "stale"
              => r.status = "FAILED"
    PROVE  JobInv' /\ RowsGrow
<1>0. exec[w].job \in Jobs /\ row[exec[w].job].status # "none"
  BY DEF JobInv, TaskInv
<1>1. len \in Nat /\ len' \in Nat /\ len <= len'
  BY DEF JobInv, TypeOK
<1>r. /\ row'[exec[w].job] = r
      /\ \A v \in Jobs : v # exec[w].job => row'[v] = row[v]
  BY <1>0 DEF JobInv, TypeOK
<1>2. TaskInv' /\ task' \in [Jobs -> TaskStates]
  BY <1>0, <1>r, TaskMove
<1>3. exec' \in [Workers -> ExecRecord] /\ ScanInv'
  BY <1>1, <1>r, ExecMove
<1>4. row' \in [Jobs -> RowRecord] /\ RowInv' /\ VerdictSound' /\ RowsGrow
  BY <1>0, <1>1, RowMove
<1>5. TypeOK'
  BY <1>2, <1>3, <1>4 DEF JobInv, TypeOK, TaskStates, ExecRecord, RowRecord
<1> QED  BY <1>2, <1>3, <1>4, <1>5 DEF JobInv

-----------------------------------------------------------------------------
(***************************************************************************)
(* StartVerification                                                       *)
(***************************************************************************)
CallerRecord == [pc : {"start", "conflict", "enqueue", "record", "refused", "vanished",
                       "done"},
                 job : Jobs \cup {None}]

\* Caller c moves to a record that enqueues nothing.
LEMMA CallerMoves ==
    ASSUME JobInv, NEW c \in Callers, NEW k \in CallerRecord,
           caller' = [caller EXCEPT ![c] = k], k.pc # "enqueue",
           UNCHANGED <<row, requestLen, task, retried, exec, reader, bad>>,
           len' \in Nat, len <= len'
    PROVE  JobInv' /\ RowsGrow
<1>1. caller' \in [Callers -> CallerRecord]
      /\ \A d \in Callers : Enqueues(d)' => Enqueues(d) /\ caller'[d] = caller[d]
  BY DEF JobInv, TypeOK, CallerRecord, Enqueues
<1>2. TypeOK'
  BY <1>1 DEF JobInv, TypeOK, CallerRecord
<1>3. TaskInv'
  BY <1>1 DEF JobInv, TaskInv, Works
<1>4. ScanInv'
  BY ScanStays DEF Gentle
<1>5. RowInv' /\ VerdictSound' /\ RowsGrow
  BY RowsStay
<1> QED  BY <1>2, <1>3, <1>4, <1>5 DEF JobInv

LEMMA CreateKeeps ==
    ASSUME JobInv, NEW c \in Callers, Create(c)
    PROVE  JobInv' /\ RowsGrow
<1>t. caller[c] \in CallerRecord
  BY DEF JobInv, TypeOK, CallerRecord
<1>l. len \in Nat /\ len' \in Nat /\ len <= len'
  BY DEF JobInv, TypeOK, Create
<1>1. ASSUME NEW v \in Jobs, row[v].status = "none",
             row' = [row EXCEPT ![v].status = "QUEUED"],
             requestLen' = [requestLen EXCEPT ![v] = len],
             caller' = [caller EXCEPT ![c] = [pc |-> "enqueue", job |-> v]]
      PROVE  JobInv' /\ RowsGrow
  <2>1. PICK k \in CallerRecord : k = [pc |-> "enqueue", job |-> v]
    BY DEF CallerRecord
  <2>2. PICK r : r = [row[v] EXCEPT !.status = "QUEUED"]
    OBVIOUS
  <2>3. /\ r \in RowRecord /\ r.status = "QUEUED" /\ r.checked = row[v].checked
        /\ row[v].checked = 0
    BY <1>1, <2>2, RowFacts DEF RowRecord, Active, RowSound
  <2>4. row' = [row EXCEPT ![v] = r]
    BY <1>1, <2>2
  <2>5. /\ row' \in [Jobs -> RowRecord] /\ row'[v] = r
        /\ \A u \in Jobs : u # v => row'[u] = row[u]
    BY <2>3, <2>4 DEF JobInv, TypeOK, RowRecord
  <2>6. /\ requestLen' \in [Jobs -> Nat] /\ requestLen'[v] = len
        /\ \A u \in Jobs : u # v => requestLen'[u] = requestLen[u]
    BY <1>1, <1>l DEF JobInv, TypeOK
  <2>7. /\ caller' \in [Callers -> CallerRecord] /\ caller'[c] = k
        /\ \A d \in Callers : d # c => caller'[d] = caller[d]
    BY <1>1, <2>1 DEF JobInv, TypeOK, CallerRecord
  <2>8. TypeOK'
    BY <2>5, <2>6, <2>7 DEF JobInv, TypeOK, RowRecord, CallerRecord, Create
  <2>9. task[v] = "none" /\ UNCHANGED <<task, exec>>
    BY <1>1 DEF JobInv, TaskInv, Create
  <2>10. \A d \in Callers : d # c /\ Enqueues(d) => caller[d].job \in Jobs /\ caller[d].job # v
    BY <1>1 DEF JobInv, TaskInv
  <2>11. TaskInv'
    <3>1. \A u \in Jobs : row'[u].status = "none" => task'[u] = "none"
      BY <2>5, <2>9 DEF JobInv, TaskInv
    <3>2. \A d \in Callers : Enqueues(d)' =>
          /\ caller'[d].job \in Jobs
          /\ row'[caller'[d].job].status # "none" /\ task'[caller'[d].job] = "none"
      <4> SUFFICES ASSUME NEW d \in Callers, Enqueues(d)'
                   PROVE  /\ caller'[d].job \in Jobs /\ task'[caller'[d].job] = "none"
                          /\ row'[caller'[d].job].status # "none"
        OBVIOUS
      <4>1. CASE d = c
        BY <4>1, <2>1, <2>3, <2>5, <2>7, <2>9
      <4>2. CASE d # c
        BY <4>2, <2>5, <2>7, <2>9, <2>10 DEF JobInv, TaskInv, Enqueues
      <4> QED  BY <4>1, <4>2
    <3>3. \A d, e \in Callers :
          Enqueues(d)' /\ Enqueues(e)' /\ caller'[d].job = caller'[e].job => d = e
      BY <2>1, <2>7, <2>10 DEF JobInv, TaskInv, Enqueues
    <3>4. /\ \A w \in Workers :
                Works(w)' => exec'[w].job \in Jobs /\ task'[exec'[w].job] = "active"
          /\ \A w, x \in Workers :
                Works(w)' /\ Works(x)' /\ exec'[w].job = exec'[x].job => w = x
      BY <2>9 DEF JobInv, TaskInv, Works
    <3> QED  BY <3>1, <3>2, <3>3, <3>4 DEF TaskInv
  <2>12. ScanInv'
    <3>1. \A u \in Jobs : row[u].status # "none" => Gentle(u)
      BY <1>1, <2>5, <2>6 DEF Gentle
    <3>2. exec' = exec /\ bad' = bad
      BY DEF Create
    <3> QED  BY <3>1, <3>2, <1>l, ScanStays
  <2>13. bad' = bad /\ len' = len
    BY DEF Create
  <2>14. RowInv'
    BY <1>l, <2>3, <2>5, <2>6, <2>13 DEF JobInv, RowInv
  <2>15. VerdictSound'
    BY <2>3, <2>5, <2>6, <2>13 DEF JobInv, VerdictSound
  <2>16. RowsGrow
    <3> SUFFICES ASSUME NEW u \in Jobs PROVE RowGrows(u)
      BY DEF RowsGrow
    <3>1. CASE u = v
      BY <1>1, <2>3, <2>5, <3>1 DEF RowGrows, Verdict
    <3>2. CASE u # v
      BY <2>5, <3>2, RowFacts DEF RowGrows, Terminal
    <3> QED  BY <3>1, <3>2
  <2> QED  BY <2>8, <2>11, <2>12, <2>14, <2>15, <2>16 DEF JobInv
<1>2. ASSUME NEW p \in {"conflict", "refused"}, caller' = [caller EXCEPT ![c].pc = p],
             UNCHANGED <<row, requestLen>>
      PROVE  JobInv' /\ RowsGrow
  <2>1. PICK k : k = [caller[c] EXCEPT !.pc = p]
    OBVIOUS
  <2>2. k \in CallerRecord /\ k.pc # "enqueue"
    BY <1>t, <2>1 DEF CallerRecord
  <2>3. UNCHANGED <<row, requestLen, task, retried, exec, reader, bad>>
    BY <1>2 DEF Create
  <2> QED  BY <1>2, <1>l, <2>1, <2>2, <2>3, CallerMoves
<1> QED  BY <1>1, <1>2 DEF Create

LEMMA GetActiveKeeps ==
    ASSUME JobInv, NEW c \in Callers, GetActive(c)
    PROVE  JobInv' /\ RowsGrow
<1>t. caller[c] \in CallerRecord
  BY DEF JobInv, TypeOK, CallerRecord
<1>l. len \in Nat /\ len' \in Nat /\ len <= len'
  BY DEF JobInv, TypeOK, GetActive
<1>1. PICK k \in CallerRecord : caller' = [caller EXCEPT ![c] = k] /\ k.pc # "enqueue"
  <2>1. ASSUME NEW v \in ActiveRows, caller' = [caller EXCEPT ![c] = [pc |-> "record", job |-> v]]
        PROVE  \E k \in CallerRecord : caller' = [caller EXCEPT ![c] = k] /\ k.pc # "enqueue"
    <3>1. [pc |-> "record", job |-> v] \in CallerRecord
      BY DEF CallerRecord, ActiveRows
    <3> QED  BY <2>1, <3>1
  <2>2. CASE caller' = [caller EXCEPT ![c].pc = "vanished"]
    <3>1. PICK k : k = [caller[c] EXCEPT !.pc = "vanished"]
      OBVIOUS
    <3>2. k \in CallerRecord /\ k.pc # "enqueue"
      BY <1>t, <3>1 DEF CallerRecord
    <3> QED  BY <2>2, <3>1, <3>2
  <2> QED  BY <2>1, <2>2 DEF GetActive
<1>2. UNCHANGED <<row, requestLen, task, retried, exec, reader, bad>>
  BY DEF GetActive
<1> QED  BY <1>l, <1>1, <1>2, CallerMoves

LEMMA Recorded ==
    ASSUME TypeOK, RecordEvent
    PROVE  len \in Nat /\ len' \in Nat /\ len <= len'
BY DEF TypeOK, RecordEvent

LEMMA RecordRequestedKeeps ==
    ASSUME JobInv, NEW c \in Callers, RecordRequested(c)
    PROVE  JobInv' /\ RowsGrow
<1>1. PICK k : k = [caller[c] EXCEPT !.pc = "done"]
  OBVIOUS
<1>2. k \in CallerRecord /\ k.pc # "enqueue"
  BY <1>1 DEF CallerRecord, JobInv, TypeOK
<1>3. len' \in Nat /\ len <= len'
  BY Recorded DEF RecordRequested, JobInv
<1>4. UNCHANGED <<row, requestLen, task, retried, exec, reader, bad>>
      /\ caller' = [caller EXCEPT ![c] = k]
  BY <1>1 DEF RecordRequested
<1> QED  BY <1>2, <1>3, <1>4, CallerMoves

LEMMA EnqueueKeeps ==
    ASSUME JobInv, NEW c \in Callers, Enqueue(c)
    PROVE  JobInv' /\ RowsGrow
<1>t. /\ caller[c] \in CallerRecord /\ len \in Nat /\ len' \in Nat /\ len <= len'
      /\ Enqueues(c)
  BY DEF JobInv, TypeOK, CallerRecord, Enqueue, Enqueues
<1>1. PICK p \in {"record", "refused"} : caller' = [caller EXCEPT ![c].pc = p]
  BY DEF Enqueue
<1>2. PICK k : k = [caller[c] EXCEPT !.pc = p]
  OBVIOUS
<1>3. k \in CallerRecord /\ k.pc # "enqueue" /\ caller' = [caller EXCEPT ![c] = k]
  BY <1>t, <1>1, <1>2 DEF CallerRecord
<1>4. PICK v \in Jobs : v = caller[c].job /\ task[v] = "none" /\ row[v].status # "none"
  BY <1>t DEF JobInv, TaskInv
<1>5. /\ caller' \in [Callers -> CallerRecord]
      /\ \A d \in Callers : Enqueues(d)' => Enqueues(d) /\ d # c /\ caller'[d] = caller[d]
  BY <1>3 DEF JobInv, TypeOK, CallerRecord, Enqueues
<1>6. task' = task \/ task' = [task EXCEPT ![v] = "pending"]
  BY <1>4 DEF Enqueue
<1>7. /\ task' \in [Jobs -> TaskStates]
      /\ \A u \in Jobs : u # v => task'[u] = task[u]
  BY <1>6 DEF JobInv, TypeOK, TaskStates
<1>8. UNCHANGED <<row, requestLen, retried, exec, reader, len, bad>>
  BY DEF Enqueue
<1>9. TypeOK'
  BY <1>5, <1>7, <1>8 DEF JobInv, TypeOK, CallerRecord, TaskStates
<1>10. TaskInv'
  <2>1. \A u \in Jobs : row'[u].status = "none" => task'[u] = "none"
    BY <1>4, <1>7, <1>8 DEF JobInv, TaskInv
  <2>2. \A d \in Callers : Enqueues(d)' =>
          /\ caller'[d].job \in Jobs
          /\ row'[caller'[d].job].status # "none" /\ task'[caller'[d].job] = "none"
    <3> SUFFICES ASSUME NEW d \in Callers, Enqueues(d)'
                 PROVE  /\ caller'[d].job \in Jobs /\ task'[caller'[d].job] = "none"
                        /\ row'[caller'[d].job].status # "none"
      OBVIOUS
    <3>1. caller[d].job \in Jobs /\ caller[d].job # v /\ caller'[d] = caller[d]
      BY <1>t, <1>4, <1>5 DEF JobInv, TaskInv
    <3> QED  BY <1>5, <1>7, <1>8, <3>1 DEF JobInv, TaskInv
  <2>3. \A d, e \in Callers :
          Enqueues(d)' /\ Enqueues(e)' /\ caller'[d].job = caller'[e].job => d = e
    BY <1>5 DEF JobInv, TaskInv
  <2>4. \A w \in Workers : Works(w)' => exec'[w].job \in Jobs /\ task'[exec'[w].job] = "active"
    BY <1>4, <1>7, <1>8 DEF JobInv, TaskInv, Works
  <2>5. \A w, x \in Workers :
                Works(w)' /\ Works(x)' /\ exec'[w].job = exec'[x].job => w = x
    BY <1>8 DEF JobInv, TaskInv, Works
  <2> QED  BY <2>1, <2>2, <2>3, <2>4, <2>5 DEF TaskInv
<1>11. ScanInv'
  BY <1>t, <1>8, ScanStays DEF Gentle
<1>12. RowInv' /\ VerdictSound' /\ RowsGrow
  BY <1>t, <1>8, RowsStay
<1> QED  BY <1>9, <1>10, <1>11, <1>12 DEF JobInv

-----------------------------------------------------------------------------
(***************************************************************************)
(* The task queue                                                          *)
(***************************************************************************)
LEMMA DequeueKeeps ==
    ASSUME JobInv, NEW w \in Workers, Dequeue(w)
    PROVE  JobInv' /\ RowsGrow
<1>1. PICK v \in Jobs :
         /\ task[v] \in {"pending", "retry"}
         /\ task' = [task EXCEPT ![v] = "active"]
         /\ exec' = [exec EXCEPT ![w] = [Idle EXCEPT !.pc = "count", !.job = v]]
  BY DEF Dequeue
<1>2. PICK t : t = [Idle EXCEPT !.pc = "count", !.job = v]
  OBVIOUS
<1>3. /\ t \in ExecRecord /\ t.pc = "count" /\ t.job = v
      /\ t.cursor = 0 /\ t.checked = 0 /\ t.failed = FALSE
  BY <1>2 DEF Idle, ExecRecord
<1>4. UNCHANGED <<row, requestLen, retried, caller, reader, len, bad>>
      /\ exec[w].pc = "idle" /\ exec' = [exec EXCEPT ![w] = t]
  BY <1>1, <1>2 DEF Dequeue
<1>5. len \in Nat /\ len' \in Nat /\ len <= len'
  BY <1>4 DEF JobInv, TypeOK
<1>6. ScanOK(t)'
  BY <1>3 DEF ScanOK
<1>7. exec' \in [Workers -> ExecRecord] /\ ScanInv'
  BY <1>3, <1>4, <1>5, <1>6, ExecMove
<1>8. /\ task' \in [Jobs -> TaskStates] /\ task'[v] = "active"
      /\ \A u \in Jobs : u # v => task'[u] = task[u]
      /\ exec'[w] = t /\ \A u \in Workers : u # w => exec'[u] = exec[u]
  BY <1>1, <1>4 DEF JobInv, TypeOK, TaskStates
<1>9. \A u \in Workers : u # w /\ Works(u) => exec[u].job # v
  BY <1>1 DEF JobInv, TaskInv
<1>10. TaskInv'
  <2>1. \A u \in Jobs : row'[u].status = "none" => task'[u] = "none"
    BY <1>1, <1>4, <1>8 DEF JobInv, TaskInv
  <2>2. \A d \in Callers : Enqueues(d)' =>
          /\ caller'[d].job \in Jobs
          /\ row'[caller'[d].job].status # "none" /\ task'[caller'[d].job] = "none"
    BY <1>1, <1>4, <1>8 DEF JobInv, TaskInv, Enqueues
  <2>3. \A d, e \in Callers :
          Enqueues(d)' /\ Enqueues(e)' /\ caller'[d].job = caller'[e].job => d = e
    BY <1>4 DEF JobInv, TaskInv, Enqueues
  <2>4. \A u \in Workers : Works(u)' => exec'[u].job \in Jobs /\ task'[exec'[u].job] = "active"
    BY <1>3, <1>8, <1>9 DEF JobInv, TaskInv, Works
  <2>5. \A u, x \in Workers :
                Works(u)' /\ Works(x)' /\ exec'[u].job = exec'[x].job => u = x
    BY <1>3, <1>8, <1>9 DEF JobInv, TaskInv, Works
  <2> QED  BY <2>1, <2>2, <2>3, <2>4, <2>5 DEF TaskInv
<1>11. RowInv' /\ VerdictSound' /\ RowsGrow
  BY <1>4, <1>5, RowsStay
<1>12. TypeOK'
  BY <1>4, <1>7, <1>8 DEF JobInv, TypeOK, TaskStates, ExecRecord
<1> QED  BY <1>7, <1>10, <1>11, <1>12 DEF JobInv

\* The worker stops, and its task is settled one way or another.
LEMMA WorkerStops ==
    ASSUME JobInv, NEW w \in Workers, Works(w), exec' = [exec EXCEPT ![w] = Idle],
           RetryOrArchive(exec[w].job)
              \/ (UNCHANGED retried
                  /\ \E s \in {"pending", "completed"} :
                        task' = [task EXCEPT ![exec[w].job] = s]),
           UNCHANGED <<row, requestLen, caller, reader, len, bad>>
    PROVE  JobInv' /\ RowsGrow
<1>1. exec[w].job \in Jobs /\ TypeOK
  BY DEF JobInv, TaskInv
<1>2. /\ retried' \in [Jobs -> 0..MaxRetry]
      /\ \E s \in TaskStates \ {"none"} : task' = [task EXCEPT ![exec[w].job] = s]
  <2>1. CASE RetryOrArchive(exec[w].job)
    BY <1>1, <2>1, RetryTask
  <2>2. CASE UNCHANGED retried
             /\ \E s \in {"pending", "completed"} : task' = [task EXCEPT ![exec[w].job] = s]
    BY <1>1, <2>2 DEF TaskStates, TypeOK
  <2> QED  BY <2>1, <2>2
<1>3. ScanOK(Idle)'
  BY IdleRecord, QuietOK DEF Quiet
<1> QED  BY <1>2, <1>3, IdleRecord, OnlyWorkerMoves

LEMMA AbandonKeeps ==
    ASSUME JobInv, NEW w \in Workers, Abandon(w)
    PROVE  JobInv' /\ RowsGrow
BY WorkerStops DEF Abandon, Works

LEMMA ReturnNilKeeps ==
    ASSUME JobInv, NEW w \in Workers, ReturnNil(w)
    PROVE  JobInv' /\ RowsGrow
BY WorkerStops DEF ReturnNil, Works

\* The worker goes to another program counter, and nothing else happens.
LEMMA WorkerGoes ==
    ASSUME JobInv, NEW w \in Workers, Works(w),
           NEW p \in {"mark", "nil", "record", "error", "giveup"}, Goto(w, p),
           p = "mark" => exec[w].pc = "count",
           UNCHANGED <<row, requestLen, task, retried, caller, reader, len, bad>>
    PROVE  JobInv' /\ RowsGrow
<1>1. /\ exec' = [exec EXCEPT ![w] = At(w, p)] /\ At(w, p) \in ExecRecord
      /\ retried' \in [Jobs -> 0..MaxRetry]
  BY GotoRecord DEF JobInv, TypeOK
<1>2. PICK t \in ExecRecord : t = At(w, p)
  BY <1>1
<1>3. /\ t.pc = p /\ t.job = exec[w].job /\ t.cursor = exec[w].cursor
      /\ t.checked = exec[w].checked /\ t.failed = exec[w].failed
  BY <1>2 DEF At
<1>4. ScanOK(t)'
  <2>1. CASE p = "mark"
    BY <1>3, <2>1 DEF JobInv, ScanInv, ScanOK
  <2>2. CASE p # "mark"
    BY <1>3, <2>2, QuietOK DEF Quiet
  <2> QED  BY <2>1, <2>2
<1> QED  BY <1>1, <1>2, <1>3, <1>4, OnlyWorkerMoves

-----------------------------------------------------------------------------
(***************************************************************************)
(* RunVerification                                                         *)
(***************************************************************************)
LEMMA CountKeeps ==
    ASSUME JobInv, NEW w \in Workers, Count(w)
    PROVE  JobInv' /\ RowsGrow
BY WorkerGoes DEF Count, Works

LEMMA DatabaseErrorKeeps ==
    ASSUME JobInv, NEW w \in Workers, DatabaseError(w)
    PROVE  JobInv' /\ RowsGrow
BY WorkerGoes DEF DatabaseError, Works

LEMMA WorkerFacts ==
    ASSUME JobInv, NEW w \in Workers, Works(w)
    PROVE  /\ exec[w].job \in Jobs /\ exec[w] \in ExecRecord /\ ScanOK(exec[w])
           /\ exec[w].cursor \in Nat /\ exec[w].checked \in Nat
           /\ row[exec[w].job].status # "none"
           /\ len \in Nat /\ bad \in Nat /\ retried \in [Jobs -> 0..MaxRetry]
BY DEF JobInv, TypeOK, TaskInv, ScanInv, ExecRecord

LEMMA MarkRunningKeeps ==
    ASSUME JobInv, NEW w \in Workers, MarkRunning(w)
    PROVE  JobInv' /\ RowsGrow
<1> DEFINE v == exec[w].job
<1>0. /\ Works(w) /\ exec[w].pc = "mark"
      /\ UNCHANGED <<requestLen, task, retried, caller, reader, len, bad>>
  BY DEF MarkRunning, Works
<1>w. /\ v \in Jobs /\ row[v] \in RowRecord /\ ScanOK(exec[w]) /\ len \in Nat
      /\ bad \in Nat /\ exec[w] \in ExecRecord /\ retried' \in [Jobs -> 0..MaxRetry]
  BY <1>0, WorkerFacts, RowFacts
<1>1. CASE row[v].status = "QUEUED"
  <2>1. PICK r : r = [row[v] EXCEPT !.status = "RUNNING", !.fresh = TRUE]
    OBVIOUS
  <2>2. /\ r \in RowRecord /\ r.status = "RUNNING" /\ r.checked = row[v].checked
        /\ r.checked = 0
    BY <1>w, <1>1, <2>1, RowFacts DEF RowRecord, Active, RowSound
  <2>3. row' = [row EXCEPT ![v] = r]
    BY <1>1, <2>1 DEF MarkRunning
  <2>4. Goto(w, "scan")
    BY <1>1 DEF MarkRunning
  <2>5. /\ exec' = [exec EXCEPT ![w] = At(w, "scan")] /\ At(w, "scan") \in ExecRecord
    BY <2>4, GotoRecord DEF JobInv
  <2>6. PICK t \in ExecRecord : t = At(w, "scan")
    BY <2>5
  <2>7. /\ t.pc = "scan" /\ t.job = v /\ t.cursor = 0 /\ t.checked = 0 /\ ~t.failed
    BY <1>0, <1>w, <2>6 DEF At, ScanOK
  <2>8. row'[v] = r
    BY <1>w, <2>3 DEF JobInv, TypeOK
  <2>9. ScanOK(t)'
    BY <1>0, <1>w, <2>2, <2>7, <2>8 DEF ScanOK, Unsettled
  <2>10. RowSound(r, requestLen[v])
    BY <2>2 DEF RowSound
  <2>11. /\ r.checked >= row[v].checked /\ r.status # "none"
         /\ row[v].status \notin Verdict /\ row[v].status # "FAILED"
    BY <1>1, <2>2 DEF Verdict
  <2> QED  BY <1>0, <1>w, <2>2, <2>3, <2>5, <2>6, <2>7, <2>9, <2>10, <2>11, WorkerWrites
<1>2. CASE row[v].status # "QUEUED"
  <2>1. Goto(w, "nil") /\ row' = row
    BY <1>2 DEF MarkRunning
  <2> QED  BY <1>0, <2>1, WorkerGoes
<1> QED  BY <1>1, <1>2

\* A batch reaches at most to the end of the chain; if it comes to fewer
\* entries than a full one it reaches exactly to the end.
LEMMA BatchBounds ==
    ASSUME NEW from \in Nat, NEW m \in Nat, from <= m
    PROVE  LET to == Least(from + BatchSize, m)
           IN  /\ to \in Nat /\ from <= to /\ to <= m
               /\ to - from # BatchSize => to = m
BY BatchAssumption DEF Least

LEMMA ScanBatchKeeps ==
    ASSUME JobInv, NEW w \in Workers, ScanBatch(w)
    PROVE  JobInv' /\ RowsGrow
<1> DEFINE v    == exec[w].job
           from == exec[w].cursor
           to   == Least(from + BatchSize, len)
           hit  == bad \in (from + 1)..to
           n    == exec[w].checked + (IF hit THEN bad - 1 - from ELSE to - from)
           more == ~hit /\ to - from = BatchSize
<1>0. /\ Works(w) /\ exec[w].pc = "scan"
      /\ UNCHANGED <<requestLen, task, retried, caller, reader, len, bad>>
  BY DEF ScanBatch, Works
<1>w. /\ v \in Jobs /\ row[v] \in RowRecord /\ ScanOK(exec[w]) /\ len \in Nat
      /\ bad \in Nat /\ exec[w] \in ExecRecord /\ retried' \in [Jobs -> 0..MaxRetry]
      /\ row[v].checked \in Nat /\ from \in Nat /\ exec[w].checked \in Nat
      /\ requestLen[v] \in Nat
  BY <1>0, WorkerFacts, RowFacts
<1>s. /\ exec[w].checked = from /\ from <= len /\ (bad = 0 \/ bad > from)
      /\ Unsettled(row[v]) /\ row[v].checked <= from
      /\ requestLen[v] <= len
  BY <1>0, <1>w DEF ScanOK, JobInv, RowInv
<1>b. to \in Nat /\ from <= to /\ to <= len /\ (to - from # BatchSize => to = len)
  BY <1>w, <1>s, BatchBounds
<1>x. exec' = [exec EXCEPT ![w] =
                   [pc |-> IF more THEN "scan" ELSE "complete", job |-> v,
                    cursor |-> IF hit THEN bad ELSE to,
                    checked |-> n, failed |-> hit]]
  BY DEF ScanBatch
<1>r. row' = IF to = from THEN row ELSE WithProgress(v, n)
  BY DEF ScanBatch
<1>n. n = IF hit THEN bad - 1 ELSE to
  <2> HIDE DEF to
  <2> QED  BY <1>w, <1>s, <1>b
<1>h. PICK h \in BOOLEAN : h <=> hit
  OBVIOUS
<1>m. PICK nn \in Nat : nn = n
  <2> HIDE DEF to
  <2> QED  BY <1>w, <1>s, <1>b, <1>n
<1>t. PICK t \in ExecRecord :
         /\ exec' = [exec EXCEPT ![w] = t]
         /\ t.pc = (IF more THEN "scan" ELSE "complete") /\ t.job = v
         /\ t.cursor = (IF hit THEN bad ELSE to) /\ t.checked = nn /\ (t.failed <=> hit)
  <2>1. PICK p \in {"scan", "complete"} : p = IF more THEN "scan" ELSE "complete"
    OBVIOUS
  <2>2. PICK q \in Nat : q = IF hit THEN bad ELSE to
    BY <1>w, <1>b
  <2>3. hit \in BOOLEAN
    OBVIOUS
  <2>4. PICK t : t = [pc |-> p, job |-> v, cursor |-> q, checked |-> nn, failed |-> hit]
    OBVIOUS
  <2>5. t.pc = p /\ t.job = v /\ t.cursor = q /\ t.checked = nn /\ t.failed = hit
    BY <2>4
  <2>6. t \in ExecRecord
    <3> HIDE DEF hit
    <3> QED  BY <1>w, <2>3, <2>4 DEF ExecRecord
  <2>7. exec' = [exec EXCEPT ![w] = t]
    <3> HIDE DEF hit, more, n, to
    <3> QED  BY <1>x, <1>m, <2>1, <2>2, <2>4
  <2> QED  BY <2>1, <2>2, <2>5, <2>6, <2>7
<1>p. /\ nn >= from /\ nn <= len
      /\ t.failed => bad > 0 /\ t.cursor = bad /\ t.checked = bad - 1
      /\ ~t.failed => t.cursor = t.checked /\ t.cursor <= len /\ (bad = 0 \/ bad > t.cursor)
      /\ t.pc = "scan" => ~t.failed
      /\ t.pc = "complete" /\ ~t.failed => t.checked = len
      /\ t.pc \in {"scan", "complete"}
  <2> HIDE DEF to
  <2> QED  BY <1>w, <1>s, <1>b, <1>n, <1>m, <1>t
<1>1. CASE row' = row
  <2>1. ScanOK(t)'
    BY <1>0, <1>w, <1>s, <1>t, <1>p, <1>1 DEF ScanOK
  <2> HIDE DEF v, to, hit, n, more, from
  <2> QED  BY <1>0, <1>w, <1>t, <1>p, <1>1, <2>1, OnlyWorkerMoves DEF v
<1>2. CASE row[v].status = "RUNNING" /\ row' = [row EXCEPT ![v].checked = n, ![v].fresh = TRUE]
  <2>1. PICK r : r = [row[v] EXCEPT !.checked = nn, !.fresh = TRUE]
    OBVIOUS
  <2>2. r \in RowRecord /\ r.status = "RUNNING" /\ r.checked = nn
    BY <1>w, <1>2, <2>1 DEF RowRecord
  <2>3. row' = [row EXCEPT ![v] = r]
    <3> HIDE DEF n
    <3> QED  BY <1>2, <1>m, <2>1
  <2>4. row'[v] = r
    BY <1>w, <2>3 DEF JobInv, TypeOK
  <2>5. ScanOK(t)'
    BY <1>0, <1>w, <1>s, <1>t, <1>p, <2>2, <2>4 DEF ScanOK, Unsettled
  <2>6. RowSound(r, requestLen[v]) /\ r.checked >= row[v].checked
        /\ row[v].status \notin Verdict /\ row[v].status # "FAILED" /\ r.status # "none"
    BY <1>w, <1>s, <1>p, <1>2, <2>2 DEF RowSound, Verdict
  <2> HIDE DEF to, hit, n, more, from
  <2> QED  BY <1>0, <1>w, <1>t, <1>p, <2>2, <2>3, <2>5, <2>6, WorkerWrites
<1> QED
  <2> HIDE DEF n, to
  <2> QED  BY <1>r, <1>1, <1>2 DEF WithProgress

\* The row that Complete writes.
LEMMA CompletedRow ==
    ASSUME TypeOK, NEW v \in Jobs, NEW status \in Terminal, NEW n \in Nat, NEW seq \in Nat,
           Complete(v, status, n, seq)
    PROVE  \E r \in RowRecord : /\ row' = [row EXCEPT ![v] = r]
                                /\ r.status = status /\ r.checked = n /\ r.failedSeq = seq
<1>0. PICK f \in {"none", "finding", "operational", "stale"} : f = FailureType(status)
  BY DEF FailureType
<1>1. PICK r : r = [row[v] EXCEPT !.status = status, !.fresh = TRUE, !.checked = n,
                                  !.failedSeq = seq, !.failureType = f]
  OBVIOUS
<1>2. row[v] \in RowRecord
  BY DEF TypeOK, RowRecord
<1>3. r \in RowRecord /\ r.status = status /\ r.checked = n /\ r.failedSeq = seq
  BY <1>1, <1>2 DEF RowRecord
<1>4. row' = [row EXCEPT ![v] = r]
  BY <1>0, <1>1 DEF Complete
<1> QED  BY <1>3, <1>4

LEMMA CompleteVerificationKeeps ==
    ASSUME JobInv, NEW w \in Workers, CompleteVerification(w)
    PROVE  JobInv' /\ RowsGrow
<1>0. /\ Works(w) /\ exec[w].pc = "complete"
      /\ UNCHANGED <<requestLen, task, retried, caller, reader, len, bad>>
  BY DEF CompleteVerification, Works
<1>1. PICK v \in Jobs : v = exec[w].job
  BY <1>0, WorkerFacts
<1>2. /\ ScanOK(exec[w]) /\ exec[w].cursor \in Nat /\ exec[w].checked \in Nat
      /\ bad \in Nat /\ row[v].checked \in Nat /\ requestLen[v] \in Nat
      /\ retried' \in [Jobs -> 0..MaxRetry]
  BY <1>0, WorkerFacts, RowFacts
<1>3. /\ Unsettled(row[v]) /\ row[v].checked <= exec[w].checked
      /\ IF exec[w].failed
            THEN bad > 0 /\ exec[w].cursor = bad /\ exec[w].checked = bad - 1
            ELSE exec[w].checked >= requestLen[v] /\ (bad = 0 \/ bad > exec[w].checked)
  BY <1>0, <1>1, <1>2 DEF ScanOK
<1>4. PICK next \in {"record", "error"} : Goto(w, next)
  BY DEF CompleteVerification
<1>5. /\ exec' = [exec EXCEPT ![w] = At(w, next)] /\ At(w, next) \in ExecRecord
  BY <1>4, GotoRecord DEF JobInv
<1>6. PICK t \in ExecRecord : t = At(w, next)
  BY <1>5
<1>7. t.pc = next /\ t.job = v
  BY <1>1, <1>6 DEF At
<1>8. ScanOK(t)'
  BY <1>7, QuietOK DEF Quiet
<1>9. PICK r \in RowRecord :
         /\ row' = [row EXCEPT ![v] = r] /\ r.checked = exec[w].checked
         /\ IF exec[w].failed THEN r.status = "INTEGRITY_FAILURE" /\ r.failedSeq = exec[w].cursor
                              ELSE r.status = "VERIFIED"
  <2>1. CASE exec[w].failed
    <3>1. Complete(v, "INTEGRITY_FAILURE", exec[w].checked, exec[w].cursor)
      BY <1>1, <2>1 DEF CompleteVerification
    <3>2. "INTEGRITY_FAILURE" \in Terminal
      BY DEF Terminal, Verdict
    <3> QED  BY <1>2, <2>1, <3>1, <3>2, CompletedRow DEF JobInv
  <2>2. CASE ~exec[w].failed
    <3>1. Complete(v, "VERIFIED", exec[w].checked, 0)
      BY <1>1, <2>2 DEF CompleteVerification
    <3>2. "VERIFIED" \in Terminal
      BY DEF Terminal, Verdict
    <3> QED  BY <1>2, <2>2, <3>1, <3>2, CompletedRow DEF JobInv
  <2> QED  BY <2>1, <2>2
<1>10. RowSound(r, requestLen[v])
  BY <1>2, <1>3, <1>9 DEF RowSound
<1>11. /\ r.status # "none" /\ r.checked >= row[v].checked
       /\ row[v].status \notin Verdict
       /\ row[v].status = "FAILED" => row[v].failureType = "stale"
       /\ r.status \in Terminal
  BY <1>2, <1>3, <1>9 DEF Verdict, Terminal, Unsettled
<1> QED  BY <1>0, <1>1, <1>2, <1>5, <1>6, <1>7, <1>8, <1>9, <1>10, <1>11, WorkerWrites

LEMMA RecordCompletedKeeps ==
    ASSUME JobInv, NEW w \in Workers, RecordCompleted(w)
    PROVE  JobInv' /\ RowsGrow
<1>0. /\ Works(w) /\ UNCHANGED <<row, requestLen, task, retried, caller, reader, bad>>
      /\ Goto(w, "nil")
  BY DEF RecordCompleted, Works
<1>1. len' \in Nat /\ len <= len'
  BY Recorded DEF RecordCompleted, JobInv
<1>2. /\ exec' = [exec EXCEPT ![w] = At(w, "nil")] /\ At(w, "nil") \in ExecRecord
  BY <1>0, GotoRecord DEF JobInv
<1>3. PICK t \in ExecRecord : t = At(w, "nil")
  BY <1>2
<1>4. t.pc = "nil" /\ t.job = exec[w].job
  BY <1>3 DEF At
<1>5. ScanOK(t)'
  BY <1>4, QuietOK DEF Quiet
<1>6. exec' \in [Workers -> ExecRecord] /\ ScanInv'
  BY <1>0, <1>1, <1>2, <1>3, <1>5, ExecMove
<1>7. TaskInv' /\ task' \in [Jobs -> TaskStates]
  BY <1>0, <1>2, <1>3, <1>4, TaskMove
<1>8. RowInv' /\ VerdictSound' /\ RowsGrow
  BY <1>0, <1>1, RowsStay
<1>9. TypeOK'
  BY <1>0, <1>1, <1>6, <1>7 DEF JobInv, TypeOK, TaskStates, ExecRecord
<1> QED  BY <1>6, <1>7, <1>8, <1>9 DEF JobInv

-----------------------------------------------------------------------------
(***************************************************************************)
(* The error handler                                                       *)
(***************************************************************************)
LEMMA HandleErrorKeeps ==
    ASSUME JobInv, NEW w \in Workers, HandleError(w)
    PROVE  JobInv' /\ RowsGrow
<1>0. Works(w) /\ UNCHANGED <<row, requestLen, caller, reader, len, bad>>
  BY DEF HandleError, Works
<1>1. CASE retried[exec[w].job] >= MaxRetry
  BY <1>0, <1>1, WorkerGoes DEF HandleError
<1>2. CASE ~(retried[exec[w].job] >= MaxRetry)
  BY <1>0, <1>2, WorkerStops DEF HandleError
<1> QED  BY <1>1, <1>2

LEMMA ReadStatusKeeps ==
    ASSUME JobInv, NEW w \in Workers, ReadStatus(w)
    PROVE  JobInv' /\ RowsGrow
<1>0. Works(w) /\ UNCHANGED <<row, requestLen, caller, reader, len, bad>>
  BY DEF ReadStatus, Works
<1>1. CASE row[exec[w].job].status \in Active
  <2>1. PICK v \in Jobs : v = exec[w].job
    BY <1>0, WorkerFacts
  <2>2. PICK t : t = [exec[w] EXCEPT !.pc = "fail", !.checked = row[v].checked]
    OBVIOUS
  <2>3. exec[w] \in ExecRecord /\ row[v].checked \in Nat /\ retried \in [Jobs -> 0..MaxRetry]
    BY <1>0, WorkerFacts, RowFacts
  <2>4. t \in ExecRecord /\ t.pc = "fail" /\ t.job = v /\ t.checked = row[v].checked
    BY <2>1, <2>2, <2>3 DEF ExecRecord
  <2>5. exec' = [exec EXCEPT ![w] = t] /\ UNCHANGED <<task, retried>>
    BY <1>1, <2>1, <2>2 DEF ReadStatus
  <2>6. ScanOK(t)'
    BY <1>0, <1>1, <2>1, <2>3, <2>4 DEF ScanOK
  <2> QED  BY <1>0, <2>1, <2>3, <2>4, <2>5, <2>6, OnlyWorkerMoves
<1>2. CASE row[exec[w].job].status \notin Active
  BY <1>0, <1>2, WorkerStops DEF ReadStatus
<1> QED  BY <1>1, <1>2

LEMMA MarkFailedKeeps ==
    ASSUME JobInv, NEW w \in Workers, MarkFailed(w)
    PROVE  JobInv' /\ RowsGrow
<1>0. /\ Works(w) /\ UNCHANGED <<requestLen, caller, reader, len, bad>>
      /\ exec[w].pc = "fail" /\ exec' = [exec EXCEPT ![w] = Idle]
      /\ RetryOrArchive(exec[w].job)
  BY DEF MarkFailed, Works
<1>1. CASE row' = row
  BY <1>0, <1>1, WorkerStops
<1>2. CASE Complete(exec[w].job, "FAILED", exec[w].checked, 0)
  <2>1. PICK v \in Jobs : v = exec[w].job
    BY <1>0, WorkerFacts
  <2>2. /\ ScanOK(exec[w]) /\ exec[w].checked \in Nat /\ row[v].checked \in Nat
    BY <1>0, WorkerFacts, RowFacts
  <2>3. row[v].status \in Active \cup {"FAILED"} /\ row[v].checked <= exec[w].checked
    BY <1>0, <2>1, <2>2 DEF ScanOK
  <2>4. PICK r \in RowRecord :
           /\ row' = [row EXCEPT ![v] = r] /\ r.status = "FAILED" /\ r.checked = exec[w].checked
    <3>1. "FAILED" \in Terminal
      BY DEF Terminal
    <3> QED  BY <1>2, <2>1, <2>2, <3>1, CompletedRow DEF JobInv
  <2>5. /\ RowSound(r, requestLen[v]) /\ r.status # "none" /\ r.status \in Terminal
        /\ r.checked >= row[v].checked /\ row[v].status \notin Verdict
    BY <2>2, <2>3, <2>4 DEF RowSound, Terminal, Verdict, Active
  <2>6. /\ retried' \in [Jobs -> 0..MaxRetry]
        /\ \E s \in TaskStates \ {"none"} : task' = [task EXCEPT ![v] = s]
    BY <1>0, <2>1, RetryTask DEF JobInv
  <2>7. ScanOK(Idle)'
    BY IdleRecord, QuietOK DEF Quiet
  <2> QED  BY <1>0, <2>1, <2>4, <2>5, <2>6, <2>7, IdleRecord, WorkerWrites
<1> QED  BY <1>1, <1>2 DEF MarkFailed

-----------------------------------------------------------------------------
(***************************************************************************)
(* Readers and the environment                                             *)
(***************************************************************************)
\* Only the row of v changes, and gently.
LEMMA OnlyRowMoves ==
    ASSUME JobInv, NEW v \in Jobs, NEW r \in RowRecord, row' = [row EXCEPT ![v] = r],
           UNCHANGED <<requestLen, task, retried, caller, exec, len, bad>>,
           reader' \in [Readers -> Jobs \cup {None}],
           row[v].status \in Active, r.status \in Active \cup {"FAILED"},
           r.status = "FAILED" => r.failureType = "stale",
           row[v].status = "RUNNING" => r.status # "QUEUED",
           r.status = "QUEUED" => row[v].status = "QUEUED",
           r.checked = row[v].checked
    PROVE  JobInv' /\ RowsGrow
<1>1. row'[v] = r /\ \A u \in Jobs : u # v => row'[u] = row[u]
  BY DEF JobInv, TypeOK
<1>2. row[v].checked \in Nat /\ RowSound(row[v], requestLen[v]) /\ len \in Nat
  BY RowFacts DEF JobInv, TypeOK
<1>3. RowSound(r, requestLen[v]) /\ row[v].status \notin Verdict /\ row[v].status # "FAILED"
      /\ row[v].status # "none" /\ r.status # "none" /\ r.checked >= row[v].checked
  BY <1>2 DEF RowSound, Active, Verdict
<1>4. row' \in [Jobs -> RowRecord] /\ RowInv' /\ VerdictSound' /\ RowsGrow
  BY <1>2, <1>3, RowMove
<1>5. ASSUME NEW u \in Jobs PROVE Gentle(u)
  <2>1. CASE u = v
    BY <1>1, <2>1 DEF Gentle, Active, Unsettled
  <2>2. CASE u # v
    BY <1>1, <2>2 DEF Gentle
  <2> QED  BY <2>1, <2>2
<1>6. ScanInv'
  BY <1>2, <1>5, ScanStays
<1>7. \A u \in Jobs : row'[u].status = "none" <=> row[u].status = "none"
  BY <1>1, <1>3
<1>8. TaskInv'
  BY <1>7, TaskStays
<1>9. TypeOK'
  BY <1>4 DEF JobInv, TypeOK, RowRecord
<1> QED  BY <1>4, <1>6, <1>8, <1>9 DEF JobInv

\* Neither the database nor the queue is touched.
LEMMA NothingMoves ==
    ASSUME JobInv, UNCHANGED <<row, requestLen, task, retried, caller, exec, bad>>,
           reader' \in [Readers -> Jobs \cup {None}], len' \in Nat, len <= len'
    PROVE  JobInv' /\ RowsGrow
<1>1. ScanInv'
  BY ScanStays DEF Gentle
<1>2. TaskInv'
  BY TaskStays
<1>3. RowInv' /\ VerdictSound' /\ RowsGrow
  BY RowsStay
<1>4. TypeOK'
  BY DEF JobInv, TypeOK
<1> QED  BY <1>1, <1>2, <1>3, <1>4 DEF JobInv

LEMMA FindStaleKeeps ==
    ASSUME JobInv, NEW q \in Readers, FindStale(q)
    PROVE  JobInv' /\ RowsGrow
<1>1. reader' \in [Readers -> Jobs \cup {None}] /\ len' \in Nat /\ len <= len'
  BY DEF FindStale, ActiveRows, JobInv, TypeOK
<1>2. UNCHANGED <<row, requestLen, task, retried, caller, exec, bad>>
  BY DEF FindStale
<1> QED  BY <1>1, <1>2, NothingMoves

LEMMA MarkStaleKeeps ==
    ASSUME JobInv, NEW q \in Readers, MarkStale(q)
    PROVE  JobInv' /\ RowsGrow
<1>1. PICK v \in Jobs : v = reader[q]
  BY DEF MarkStale, JobInv, TypeOK
<1>2. /\ reader' \in [Readers -> Jobs \cup {None}] /\ len' \in Nat /\ len <= len'
      /\ UNCHANGED <<requestLen, task, retried, caller, exec, len, bad>>
  BY DEF MarkStale, JobInv, TypeOK
<1>3. CASE row[v].status \in Active
  <2>1. PICK r : r = [row[v] EXCEPT !.status = "FAILED", !.fresh = TRUE,
                                    !.failureType = "stale"]
    OBVIOUS
  <2>2. r \in RowRecord /\ r.status = "FAILED" /\ r.checked = row[v].checked
        /\ r.failureType = "stale"
    BY <2>1, RowFacts DEF RowRecord, Terminal
  <2>3. row' = [row EXCEPT ![v] = r]
    BY <1>1, <1>3, <2>1 DEF MarkStale
  <2> QED  BY <1>2, <1>3, <2>2, <2>3, OnlyRowMoves
<1>4. CASE row[v].status \notin Active
  <2>1. row' = row
    BY <1>1, <1>4 DEF MarkStale
  <2> QED  BY <1>2, <2>1, NothingMoves
<1> QED  BY <1>3, <1>4

LEMMA GoSilentKeeps ==
    ASSUME JobInv, NEW v \in Jobs, GoSilent(v)
    PROVE  JobInv' /\ RowsGrow
<1>1. PICK r : r = [row[v] EXCEPT !.fresh = FALSE]
  OBVIOUS
<1>2. r \in RowRecord /\ r.status = row[v].status /\ r.checked = row[v].checked
  BY <1>1, RowFacts DEF RowRecord
<1>3. /\ row' = [row EXCEPT ![v] = r] /\ row[v].status \in Active
      /\ UNCHANGED <<requestLen, task, retried, caller, exec, reader, len, bad>>
  BY <1>1 DEF GoSilent, ActiveRows
<1>4. reader' \in [Readers -> Jobs \cup {None}] /\ r.status # "FAILED"
  BY <1>2, <1>3 DEF JobInv, TypeOK, Active
<1> QED  BY <1>2, <1>3, <1>4, OnlyRowMoves

LEMMA AppendEntryKeeps ==
    ASSUME JobInv, AppendEntry
    PROVE  JobInv' /\ RowsGrow
<1>1. reader' \in [Readers -> Jobs \cup {None}] /\ len' \in Nat /\ len <= len'
  BY DEF AppendEntry, JobInv, TypeOK
<1> QED  BY <1>1, NothingMoves DEF AppendEntry

-----------------------------------------------------------------------------
(***************************************************************************)
(* The theorems                                                            *)
(***************************************************************************)
LEMMA StepInv == JobInv /\ [Next]_vars => JobInv' /\ RowsGrow
<1> SUFFICES ASSUME JobInv, [Next]_vars PROVE JobInv' /\ RowsGrow
  OBVIOUS
<1>1. CASE \E c \in Callers : CallerStep(c)
  BY <1>1, CreateKeeps, GetActiveKeeps, EnqueueKeeps, RecordRequestedKeeps DEF CallerStep
<1>2. CASE \E w \in Workers : WorkerStep(w) \/ Abandon(w) \/ DatabaseError(w)
  BY <1>2, DequeueKeeps, CountKeeps, MarkRunningKeeps, ScanBatchKeeps,
     CompleteVerificationKeeps, RecordCompletedKeeps, ReturnNilKeeps, HandleErrorKeeps,
     ReadStatusKeeps, MarkFailedKeeps, AbandonKeeps, DatabaseErrorKeeps
     DEF WorkerStep
<1>3. CASE \E q \in Readers : ReaderStep(q)
  BY <1>3, FindStaleKeeps, MarkStaleKeeps DEF ReaderStep
<1>4. CASE \E v \in Jobs : GoSilent(v)
  BY <1>4, GoSilentKeeps
<1>5. CASE AppendEntry
  BY <1>5, AppendEntryKeeps
<1>6. CASE UNCHANGED vars
  <2>1. /\ reader' \in [Readers -> Jobs \cup {None}] /\ len' \in Nat /\ len <= len'
        /\ UNCHANGED <<row, requestLen, task, retried, caller, exec, bad>>
    BY <1>6 DEF vars, JobInv, TypeOK
  <2> QED  BY <2>1, NothingMoves
<1> QED  BY <1>1, <1>2, <1>3, <1>4, <1>5, <1>6 DEF Next

(***************************************************************************)
(* A verdict that a run stores is the truth about every entry that the     *)
(* chain had when the run was requested (completeVerification), however    *)
(* many callers, deliveries, batches, readers and writers interleave.      *)
(***************************************************************************)
THEOREM VerdictsAreTrue == Spec => [](TypeOK /\ VerdictSound)
<1>1. JobInv => TypeOK /\ VerdictSound
  BY DEF JobInv
<1> QED  BY InitInv, StepInv, <1>1, PTL DEF Spec

(***************************************************************************)
(* No retry, error handler or late reader changes a stored verdict, though *)
(* CompleteAuditVerification does not look at the status that it replaces; *)
(* no run that ended becomes active again; and a run given up by the error *)
(* handler stays FAILED.  Only a reader's STALE_TIMEOUT is replaced.       *)
(***************************************************************************)
THEOREM VerdictsAreFinal == Spec => VerdictFinal
<1>1. JobInv /\ [Next]_vars =>
         [\A v \in Jobs :
            /\ row[v].status \in Verdict => row'[v].status = row[v].status
            /\ row[v].status = "FAILED" => row'[v].status \in Terminal
            /\ row[v].status = "FAILED" /\ row[v].failureType # "stale" =>
                  row'[v].status = "FAILED"]_row
  BY StepInv DEF RowsGrow, RowGrows
<1> QED  BY InitInv, StepInv, <1>1, PTL DEF Spec, VerdictFinal

(***************************************************************************)
(* A redelivered task never scans the chain for a second time: what a row  *)
(* reports as checked never goes back (MarkAuditVerificationRunning takes  *)
(* a QUEUED row only).                                                     *)
(***************************************************************************)
THEOREM OneScanPerRun == Spec => ScannedOnce
<1>1. JobInv /\ [Next]_vars => [\A v \in Jobs : row'[v].checked >= row[v].checked]_row
  BY StepInv DEF RowsGrow, RowGrows
<1> QED  BY InitInv, StepInv, <1>1, PTL DEF Spec, ScannedOnce
=============================================================================
