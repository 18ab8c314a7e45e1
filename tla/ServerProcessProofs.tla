-------------------------- MODULE ServerProcessProofs --------------------------
(***************************************************************************)
(* Proofs about the server process and what runs in it.                    *)
(*                                                                         *)
(* ServerProcess and its EventStream, for any number of users, connections *)
(* and versions of a verification, any buffer size and any environment:    *)
(* what is opened is closed, the reader is gone before its client, every   *)
(* registration is given back, and a watcher sees the verification in      *)
(* order and its end.                                                      *)
(*                                                                         *)
(* RequestPipeline, for any accounts, slots, traffic and limits and for    *)
(* every route of Routes: who is served was admitted, who has no relation  *)
(* to a case learns nothing of it, what is committed is recorded, and the  *)
(* throttle's counters expire.                                             *)
(***************************************************************************)
EXTENDS ServerProcess, RequestPipeline, FiniteSetTheorems, SequenceTheorems, TLAPS

(***************************************************************************)
(* The inductive invariant: the process                                    *)
(***************************************************************************)
\* What is open where, and who still reads.
OpenInv ==
    /\ phase \in {"config", "database", "failed", "exited"} => open = {}
    /\ phase \in {"redis", "close database"} => open \subseteq {"database"}
    /\ phase \in {"storage", "certificate", "close redis"} => open \subseteq {"database", "redis"}
    /\ phase = "fabric" => open \subseteq {"database", "redis", "jobs"}
    /\ phase \in {"storage", "certificate", "fabric", "bootstrap", "serving", "http",
                  "worker", "waiting", "closing", "close redis"} => "redis" \in open

ReaderInv ==
    /\ phase \in Starting \cup {"failed"} => manager = "off"
    /\ phase \in {"closing", "close redis", "close database", "exited"} =>
          manager = "done" \/ expired

ProcessInv ==
    /\ phase \in Starting \cup Stopping \cup {"serving", "exited", "failed"}
    /\ open \subseteq {"database", "redis", "jobs", "fabric"}
    /\ expired \in BOOLEAN
    /\ OpenInv /\ ReaderInv

(***************************************************************************)
(* The inductive invariant: the streams                                    *)
(***************************************************************************)
StreamTypes ==
    /\ StreamTypeOK
    /\ fan \in [event: Event, to: SUBSET Conns]
    /\ chan \in [Conns -> Seq(Event)] /\ seen \in [Conns -> Seq(Versions)]

SlotInv == SlotsReturned /\ IsFiniteSet(Held)

\* The row is what the worker committed last, or settled; and a verification
\* is given up only when its worker is dead and had not come to its end.
RowInv ==
    /\ row = reached \/ row = Last
    /\ failing # "no" => worker = "dead" /\ reached < Last

OfVerification(e) == e.resource = "audit_verification"

\* Version v may have been published; the next one to be published is newer.
Old(v) ==
    /\ v \in Versions
    /\ failing \in {"no", "read"} => v <= reached
    /\ worker = "publish" => v < reached

\* What is in the pipe was published, and in order.
WireInv ==
    \A i \in 1..Len(wire) : OfVerification(wire[i]) =>
        /\ Old(wire[i].version)
        /\ \A j \in 1..Len(wire) : i < j /\ OfVerification(wire[j]) =>
              wire[i].version < wire[j].version

\* Version v is older than whatever the pipe still holds for connection c.
Passed(v, c) ==
    /\ Old(v)
    /\ \A i \in 1..Len(wire) : OfVerification(wire[i]) => v < wire[i].version
    /\ c \in fan.to => v < fan.event.version

FanInv ==
    /\ \A c \in fan.to : ScopeKey(c) = fan.event.resource
    /\ OfVerification(fan.event) =>
          /\ Old(fan.event.version)
          /\ \A i \in 1..Len(wire) : OfVerification(wire[i]) =>
                fan.event.version < wire[i].version

ChanOK(c) ==
    \A i \in 1..Len(chan[c]) :
        /\ OfVerification(chan[c][i]) /\ Passed(chan[c][i].version, c)
        /\ \A j \in 1..Len(chan[c]) : i < j => chan[c][i].version < chan[c][j].version

SeenOK(c) ==
    /\ pc[c] \in {"new", "registered", "read"} => seen[c] = << >>
    /\ \A i \in 2..Len(seen[c]) :
        /\ Passed(seen[c][i], c)
        /\ \A j \in 1..Len(chan[c]) : seen[c][i] < chan[c][j].version

PipeInv ==
    /\ RowInv /\ WireInv /\ FanInv
    /\ \A c \in Watchers : ChanOK(c) /\ SeenOK(c)
    /\ SeenInOrder

StreamInv == StreamTypes /\ SlotInv /\ PipeInv /\ CompletionNotMissed

ServerInv == ProcessInv /\ StreamInv

(***************************************************************************)
(* The process                                                             *)
(***************************************************************************)
USE DEF Starting, Stopping

LEMMA ProcessInit0 == ProcessInit /\ StreamInit => ProcessInv
BY DEF ProcessInit, StreamInit, ProcessInv, OpenInv, ReaderInv

LEMMA ProcessSame ==
    ASSUME ProcessInv, UNCHANGED <<phase, open, expired, manager>>
    PROVE  ProcessInv'
BY DEF ProcessInv, OpenInv, ReaderInv

LEMMA StartStep ==
    ASSUME ProcessInv, Start
    PROVE  ProcessInv' /\ UNCHANGED streamVars
<1>1. CASE LoadConfig
  BY <1>1 DEF LoadConfig, ProcessInv, OpenInv, ReaderInv, streamVars
<1>2. CASE ConnectDatabase \/ ConnectRedis \/ ConnectStorage \/ BuildServices
  BY <1>2 DEF ConnectDatabase, ConnectRedis, ConnectStorage, BuildServices, Connect,
     ProcessInv, OpenInv, ReaderInv, streamVars
<1>3. CASE ConnectFabric
  <2>1. \/ Connect("fabric", {"fabric"}, {"database", "redis", "jobs"}, "bootstrap")
        \/ phase = "fabric" /\ phase' = "bootstrap" /\ UNCHANGED <<open, expired, streamVars>>
    BY <1>3 DEF ConnectFabric
  <2> QED
    BY <2>1 DEF Connect, ProcessInv, OpenInv, ReaderInv, streamVars
<1>4. CASE Bootstrap
  BY <1>4 DEF Bootstrap, ProcessInv, OpenInv, ReaderInv, streamVars
<1> QED
  BY <1>1, <1>2, <1>3, <1>4 DEF Start

LEMMA RunStep ==
    ASSUME ProcessInv, StopRequested \/ ShutdownTimeout \/ HTTPShutdown \/ AwaitReader \/ Close
    PROVE  ProcessInv' /\ UNCHANGED streamVars
<1>1. CASE StopRequested \/ ShutdownTimeout \/ HTTPShutdown \/ AwaitReader
  BY <1>1 DEF StopRequested, ShutdownTimeout, HTTPShutdown, AwaitReader,
     ProcessInv, OpenInv, ReaderInv, streamVars
<1>2. CASE Close
  BY <1>2 DEF Close, CloseClients, ProcessInv, OpenInv, ReaderInv, streamVars
<1> QED
  BY <1>1, <1>2

LEMMA ReaderStep ==
    ASSUME ProcessInv, ReaderStarts \/ WorkerShutdown \/ ReaderStops
    PROVE  ProcessInv'
BY DEF ReaderStarts, WorkerShutdown, ReaderStops, processVars,
   ProcessInv, OpenInv, ReaderInv

LEMMA StreamsLeaveProcess ==
    ASSUME ProcessInv,
           \/ WorkerStep \/ LookupStep \/ ManagerStep
           \/ \E c \in Conns : Accept(c) \/ HandlerStep(c) \/ HandlerEnds(c)
    PROVE  ProcessInv'
<1>1. UNCHANGED <<phase, open, expired>>
  BY DEF WorkerStep, LookupStep, ManagerStep, Accept, HandlerStep, HandlerEnds, processVars
<1>2. UNCHANGED manager
  <2>1. CASE WorkerStep \/ LookupStep
    BY <2>1 DEF WorkerStep, LookupStep, Publishers, WorkerCommit, WorkerPublish, WorkerDies,
       FailureRead, FailurePublish, FailureCommit, CaseNotice, ReconcileStale
  <2>2. CASE ManagerStep
    BY <2>2 DEF ManagerStep, ManagerReceive, Dispatch
  <2>3. ASSUME NEW c \in Conns, Accept(c) \/ HandlerStep(c) \/ HandlerEnds(c)
        PROVE  UNCHANGED manager
    BY <2>3 DEF Accept, HandlerStep, HandlerEnds, EventsRegister, ListenerEvents, Handle,
       EventsSnapshot, StreamInitial, StreamRelay, StreamEnds, EventsRefused
  <2> QED
    BY <2>1, <2>2, <2>3
<1> QED
  BY <1>1, <1>2, ProcessSame

LEMMA ProcessNext == ProcessInv /\ [Next]_vars => ProcessInv'
<1> SUFFICES ASSUME ProcessInv, [Next]_vars PROVE ProcessInv'
  OBVIOUS
<1>1. CASE Start
  BY <1>1, StartStep
<1>2. CASE StopRequested \/ ShutdownTimeout \/ HTTPShutdown \/ AwaitReader \/ Close
  BY <1>2, RunStep
<1>3. CASE ReaderStarts \/ WorkerShutdown \/ ReaderStops
  BY <1>3, ReaderStep
<1>4. CASE \/ WorkerStep \/ LookupStep \/ ManagerStep
           \/ \E c \in Conns : Accept(c) \/ HandlerStep(c) \/ HandlerEnds(c)
  BY <1>4, StreamsLeaveProcess
<1>5. CASE UNCHANGED vars
  BY <1>5, ProcessSame DEF vars, processVars, streamVars
<1> QED
  BY <1>1, <1>2, <1>3, <1>4, <1>5 DEF Next, Stop, Finished

LEMMA ProcessInvariant == Spec => []ProcessInv
BY ProcessInit0, ProcessNext, PTL DEF Spec, Init

\* cmd/server/main.go: Redis is closed under its reader only when the shutdown
\* timeout has passed, however far the shutdown has got.
THEOREM ReaderIsGoneFirst == Spec => []ReaderStopsFirst
<1>1. ProcessInv => ReaderStopsFirst
  BY DEF ProcessInv, OpenInv, ReaderInv, ReaderStopsFirst
<1> QED
  BY <1>1, ProcessInvariant, PTL

\* app.New, the bootstrap and App.Close: a start that fails at any of its
\* steps, and a stop, leave no client open, in any environment.
THEOREM ClientsAreClosed == Spec => []NothingLeftOpen
<1>1. ProcessInv => NothingLeftOpen
  BY DEF ProcessInv, OpenInv, NothingLeftOpen
<1> QED
  BY <1>1, ProcessInvariant, PTL

(***************************************************************************)
(* Events and sequences of them                                            *)
(***************************************************************************)
LEMMA EventFields ==
    /\ \A e \in Event : e.version \in Versions
    /\ CaseEvent \in Event /\ ~OfVerification(CaseEvent) /\ ~isTerminal(CaseEvent)
    /\ \A v \in Versions : /\ VerificationEvent(v) \in Event
                           /\ OfVerification(VerificationEvent(v))
                           /\ VerificationEvent(v).version = v
                           /\ isTerminal(VerificationEvent(v)) <=> v = Last
    /\ \A e \in Event : isTerminal(e) <=> OfVerification(e) /\ e.version = Last
BY StreamAssumption DEF Event, VerificationEvent, CaseEvent, OfVerification, isTerminal, Versions

LEMMA Appended ==
    ASSUME NEW S, NEW s \in Seq(S), NEW e \in S
    PROVE  /\ Append(s, e) \in Seq(S) /\ Len(s) \in Nat
           /\ Len(Append(s, e)) = Len(s) + 1
           /\ Append(s, e)[Len(s) + 1] = e
           /\ \A i \in 1..Len(s) : Append(s, e)[i] = s[i]
OBVIOUS

LEMMA HeadAndTail ==
    ASSUME NEW S, NEW s \in Seq(S), s # << >>
    PROVE  /\ Tail(s) \in Seq(S) /\ Len(s) \in Nat \ {0}
           /\ Len(Tail(s)) = Len(s) - 1
           /\ Head(s) = s[1] /\ Head(s) \in S
           /\ \A i \in 1..Len(s) - 1 : Tail(s)[i] = s[i + 1]
OBVIOUS

(***************************************************************************)
(* What goes into the pipe                                                 *)
(***************************************************************************)
LEMMA PipeInput ==
    ASSUME StreamTypes, PipeInv, UNCHANGED <<fan, connVars>>, RowInv',
           \A v \in Versions : Old(v) => Old(v)',
           NEW e \in Event,
           \/ wire' = wire \/ wire' = << >>
           \/ /\ wire' = Append(wire, e)
              /\ OfVerification(e) =>
                    Old(e.version)' /\ \A v \in Versions : Old(v) => v < e.version
    PROVE  PipeInv'
<1>1. /\ wire \in Seq(Event) /\ fan \in [event: Event, to: SUBSET Conns]
      /\ chan \in [Conns -> Seq(Event)] /\ seen \in [Conns -> Seq(Versions)]
  BY DEF StreamTypes, StreamTypeOK
<1>2. Len(wire) \in Nat /\ (\A i \in 1..Len(wire) : wire[i] \in Event)
  BY <1>1
<1>3. \A i \in 1..Len(wire') :
         \/ i \in 1..Len(wire) /\ wire'[i] = wire[i]
         \/ /\ i = Len(wire) + 1 /\ wire'[i] = e
            /\ OfVerification(e) =>
                  Old(e.version)' /\ \A v \in Versions : Old(v) => v < e.version
  <2>1. CASE wire' = Append(wire, e)
    BY <1>1, <1>2, <2>1, Appended
  <2>2. CASE wire' = wire
    BY <2>2
  <2>3. CASE wire' = << >>
    BY <2>3
  <2> QED
    BY <2>1, <2>2, <2>3
<1>4. WireInv'
  <2> SUFFICES ASSUME NEW i \in 1..Len(wire'), OfVerification(wire'[i])
               PROVE  /\ Old(wire[i].version)'
                      /\ \A j \in 1..Len(wire') : i < j /\ OfVerification(wire'[j]) =>
                            wire'[i].version < wire'[j].version
    BY DEF WireInv, OfVerification
  <2>1. PICK x \in Event : x = wire'[i]
    BY <1>2, <1>3
  <2>2. Old(x.version)'
    <3>1. CASE x = e /\ (OfVerification(e) => Old(e.version)')
      BY <2>1, <3>1
    <3>2. CASE i \in 1..Len(wire) /\ x = wire[i]
      BY <2>1, <3>2, EventFields DEF PipeInv, WireInv
    <3> QED
      BY <1>3, <2>1, <3>1, <3>2
  <2>3. ASSUME NEW j \in 1..Len(wire'), i < j, OfVerification(wire'[j])
        PROVE  wire'[i].version < wire'[j].version
    <3>1. i \in 1..Len(wire) /\ wire'[i] = wire[i]
      BY <1>2, <1>3, <2>3
    <3>2. CASE j \in 1..Len(wire) /\ wire'[j] = wire[j]
      BY <2>3, <3>1, <3>2 DEF PipeInv, WireInv
    <3>3. CASE wire'[j] = e /\ (OfVerification(e) =>
                  Old(e.version)' /\ \A v \in Versions : Old(v) => v < e.version)
      <4>1. Old(wire[i].version) /\ wire[i].version \in Versions
        BY <1>2, <3>1, EventFields DEF PipeInv, WireInv
      <4> QED
        BY <2>3, <3>1, <3>3, <4>1
    <3> QED
      BY <1>3, <3>2, <3>3
  <2> QED
    BY <2>1, <2>2, <2>3 DEF Old
<1>5. ASSUME NEW v \in Versions, Old(v),
             \A i \in 1..Len(wire) : OfVerification(wire[i]) => v < wire[i].version
      PROVE  Old(v)' /\ \A i \in 1..Len(wire') : OfVerification(wire'[i]) => v < wire'[i].version
  BY <1>3, <1>5
<1>6. FanInv'
  <2>1. fan.event.version \in Versions
    BY <1>1, EventFields
  <2> QED
    BY <1>5, <2>1 DEF PipeInv, FanInv, OfVerification, ScopeKey
<1>7. ASSUME NEW v \in Versions, NEW c \in Watchers, Passed(v, c) PROVE Passed(v, c)'
  BY <1>5, <1>7 DEF Passed, OfVerification
<1>8. ASSUME NEW c \in Watchers PROVE ChanOK(c)' /\ SeenOK(c)'
  <2>1. chan' = chan /\ seen' = seen /\ pc' = pc /\ c \in Conns
    BY DEF connVars, Conns
  <2>2. \A i \in 1..Len(chan[c]) : chan[c][i].version \in Versions
    BY <1>1, <2>1, EventFields
  <2>3. \A i \in 2..Len(seen[c]) : seen[c][i] \in Versions
    BY <1>1, <2>1
  <2>4. ChanOK(c)'
    BY <1>7, <2>1, <2>2 DEF PipeInv, ChanOK, OfVerification
  <2>5. SeenOK(c)'
    BY <1>7, <2>1, <2>3 DEF PipeInv, SeenOK
  <2> QED
    BY <2>4, <2>5
<1>9. SeenInOrder'
  BY DEF PipeInv, SeenInOrder, connVars
<1> QED
  BY <1>4, <1>6, <1>8, <1>9 DEF PipeInv

LEMMA Published ==
    ASSUME StreamTypes, NEW e \in Event, Publish(e)
    PROVE  /\ \/ wire' = Append(wire, e) /\ UNCHANGED lost
              \/ UNCHANGED wire /\ lost' = TRUE
           /\ wire' \in Seq(Event) /\ lost' \in BOOLEAN
<1>1. wire \in Seq(Event) /\ lost \in BOOLEAN
  BY DEF StreamTypes, StreamTypeOK
<1>2. \/ wire' = Append(wire, e) /\ UNCHANGED lost
      \/ UNCHANGED wire /\ lost' = TRUE
  BY DEF Publish
<1> QED
  BY <1>1, <1>2, Appended

LEMMA SlotSame ==
    ASSUME SlotInv, UNCHANGED <<subs, pc, perUser>>
    PROVE  SlotInv'
BY DEF SlotInv, SlotsReturned, Held

\* The actions of the publishers and the shutdown, on all but the last part.
LEMMA PublisherStep ==
    ASSUME StreamInv,
           \/ WorkerCommit \/ WorkerPublish \/ WorkerDies \/ FailureRead \/ FailurePublish
           \/ FailureCommit \/ ReconcileStale \/ CaseNotice \/ ReaderStarts \/ WorkerShutdown \/ ReaderStops
    PROVE  StreamTypes' /\ SlotInv' /\ PipeInv'
<1> DEFINE New(e) ==
      \/ wire' = wire \/ wire' = << >>
      \/ /\ wire' = Append(wire, e)
         /\ OfVerification(e) =>
               Old(e.version)' /\ \A v \in Versions : Old(v) => v < e.version
<1>1. /\ StreamTypes /\ SlotInv /\ PipeInv /\ row \in Versions /\ reached \in Versions /\ RowInv
      /\ row \in Nat /\ reached \in Nat /\ Last \in Nat /\ \A v \in Versions : v \in Nat /\ v <= Last
  BY StreamAssumption DEF StreamInv, StreamTypes, StreamTypeOK, PipeInv, Versions
<1>2. UNCHANGED <<fan, missed, connVars>>
  BY DEF WorkerCommit, WorkerPublish, WorkerDies, FailureRead, FailurePublish, FailureCommit,
     ReconcileStale, CaseNotice, ReaderStarts, WorkerShutdown, ReaderStops
<1>3. SlotInv'
  BY <1>1, <1>2, SlotSame DEF connVars
<1>4. ASSUME row' \in Versions, reached' \in Versions,
             worker' \in {"commit", "publish", "dead", "idle"},
             failing' \in {"no", "read", "published", "committed", "over"}, notices' \in 0 .. MaxNotices,
             lost' \in BOOLEAN, wire' \in Seq(Event), manager' \in {"off", "reading", "done"}
      PROVE  StreamTypes'
  BY <1>1, <1>2, <1>4 DEF StreamTypes, StreamTypeOK, connVars
<1>5. ASSUME RowInv', \A v \in Versions : Old(v) => Old(v)', NEW e \in Event, New(e)
      PROVE  PipeInv'
  BY <1>1, <1>2, <1>5, PipeInput
<1>6. CASE WorkerCommit
  <2>0. /\ worker = "commit" /\ reached < Last /\ worker' \in {"idle", "publish"}
        /\ UNCHANGED <<failing, notices, lost, wire, manager>>
        /\ \/ worker' = "idle" /\ row' = row /\ reached' = reached
           \/ /\ worker' = "publish" /\ reached' = reached + 1
              /\ row' = reached' \/ row' = Last
    BY <1>6 DEF WorkerCommit
  <2>1. StreamTypes'
    BY <1>1, <1>4, <2>0 DEF StreamTypes, StreamTypeOK, Versions
  <2>2. RowInv' /\ (\A v \in Versions : Old(v) => Old(v)')
    BY <1>1, <2>0 DEF RowInv, Old
  <2>3. New(CaseEvent)
    BY <2>0
  <2> QED
    BY <1>3, <1>5, <2>1, <2>2, <2>3, EventFields
<1>7. CASE WorkerPublish
  <2>1. VerificationEvent(reached) \in Event
    BY <1>1, EventFields
  <2>2. PICK e \in Event : e = VerificationEvent(reached)
    BY <2>1
  <2>3. /\ Publish(e) /\ worker = "publish" /\ worker' \in {"idle", "commit"}
        /\ UNCHANGED <<row, reached, failing, notices, manager>>
    BY <1>7, <2>2 DEF WorkerPublish
  <2>4. StreamTypes'
    BY <1>1, <1>4, <2>3, Published DEF StreamTypes, StreamTypeOK
  <2>5. RowInv' /\ (\A v \in Versions : Old(v) => Old(v)')
    BY <1>1, <2>3 DEF RowInv, Old
  <2>6. Old(reached)' /\ (\A v \in Versions : Old(v) => v < reached)
    BY <1>1, <2>3 DEF Old
  <2>7. New(e)
    BY <1>1, <2>2, <2>3, <2>6, Published, EventFields DEF Old
  <2> QED
    BY <1>3, <1>5, <2>4, <2>5, <2>7
<1>8. CASE WorkerDies \/ WorkerShutdown
  <2>1. /\ UNCHANGED <<row, reached, failing, notices, lost, wire, manager>>
        /\ worker' \in {"dead", "idle"} /\ (worker' # "dead" => worker' = worker)
    BY <1>8 DEF WorkerDies, WorkerShutdown
  <2>2. StreamTypes'
    BY <1>1, <1>4, <2>1 DEF StreamTypes, StreamTypeOK
  <2>3. RowInv' /\ (\A v \in Versions : Old(v) => Old(v)')
    BY <1>1, <2>1 DEF RowInv, Old
  <2> QED
    BY <1>3, <1>5, <2>1, <2>2, <2>3, EventFields
<1>9. CASE FailurePublish
  <2>1. Last \in Versions /\ VerificationEvent(Last) \in Event
    BY <1>1, EventFields DEF Versions
  <2>2. PICK e \in Event : e = VerificationEvent(Last)
    BY <2>1
  <2>3. /\ Publish(e) /\ failing = "read" /\ failing' = "published" /\ worker = "dead"
        /\ reached < Last /\ UNCHANGED <<row, reached, worker, notices, manager>>
    BY <1>1, <1>9, <2>2 DEF FailurePublish, RowInv
  <2>4. StreamTypes'
    BY <1>1, <1>4, <2>3, Published DEF StreamTypes, StreamTypeOK
  <2>5. RowInv' /\ (\A v \in Versions : Old(v) => Old(v)')
    BY <1>1, <2>3 DEF RowInv, Old
  <2>6. Old(Last)' /\ (\A v \in Versions : Old(v) => v < Last)
    BY <1>1, <2>1, <2>3 DEF Old
  <2>7. New(e)
    BY <1>1, <2>1, <2>2, <2>3, <2>6, Published, EventFields DEF Old
  <2> QED
    BY <1>3, <1>5, <2>4, <2>5, <2>7
<1>10. CASE FailureCommit
  <2>1. /\ UNCHANGED <<reached, worker, notices, lost, wire, manager>> /\ row' \in {row, Last}
        /\ failing = "published" /\ failing' \in {"committed", "over"}
    BY <1>10 DEF FailureCommit
  <2>2. StreamTypes'
    BY <1>1, <1>4, <2>1 DEF StreamTypes, StreamTypeOK, Versions
  <2>3. RowInv' /\ (\A v \in Versions : Old(v) => Old(v)')
    BY <1>1, <2>1 DEF RowInv, Old
  <2> QED
    BY <1>3, <1>5, <2>1, <2>2, <2>3, EventFields
<1>11. CASE CaseNotice
  <2>1. /\ Publish(CaseEvent) /\ UNCHANGED <<row, reached, worker, failing, manager>>
        /\ notices < MaxNotices /\ notices' = notices + 1
    BY <1>11 DEF CaseNotice
  <2>2. StreamTypes'
    <3>1. notices' \in 0 .. MaxNotices
      BY <1>1, <2>1, StreamAssumption DEF StreamTypes, StreamTypeOK
    <3>2. wire' \in Seq(Event) /\ lost' \in BOOLEAN
      BY <1>1, <2>1, Published, EventFields
    <3> QED
      BY <1>1, <1>4, <2>1, <3>1, <3>2 DEF StreamTypes, StreamTypeOK
  <2>3. RowInv' /\ (\A v \in Versions : Old(v) => Old(v)')
    BY <1>1, <2>1 DEF RowInv, Old
  <2>4. New(CaseEvent)
    BY <1>1, <2>1, Published, EventFields
  <2> QED
    BY <1>3, <1>5, <2>2, <2>3, <2>4, EventFields
<1>12. CASE ReaderStarts \/ ReaderStops
  <2>1. /\ UNCHANGED <<row, reached, worker, failing, notices, lost>>
        /\ wire' \in {wire, << >>} /\ manager' \in {"reading", "done"}
    BY <1>12 DEF ReaderStarts, ReaderStops
  <2>2. StreamTypes'
    <3>1. wire \in Seq(Event)
      BY <1>1 DEF StreamTypes, StreamTypeOK
    <3>2. << >> \in Seq(Event)
      OBVIOUS
    <3>3. wire' \in Seq(Event)
      BY <2>1, <3>1, <3>2
    <3> QED
      BY <1>1, <1>4, <2>1, <3>3 DEF StreamTypes, StreamTypeOK
  <2>3. RowInv' /\ (\A v \in Versions : Old(v) => Old(v)')
    BY <1>1, <2>1 DEF RowInv, Old
  <2> QED
    BY <1>3, <1>5, <2>1, <2>2, <2>3, EventFields
<1>13. CASE FailureRead \/ ReconcileStale
  <2>1. /\ UNCHANGED <<reached, worker, notices, lost, wire, manager>> /\ row' \in {row, Last}
        /\ \/ failing' = failing
           \/ failing = "no" /\ failing' = "read" /\ worker = "dead" /\ row < Last /\ row' = row
    BY <1>13 DEF FailureRead, ReconcileStale, Settle
  <2>2. StreamTypes'
    BY <1>1, <1>4, <2>1 DEF StreamTypes, StreamTypeOK, Versions
  <2>3. RowInv' /\ (\A v \in Versions : Old(v) => Old(v)')
    BY <1>1, <2>1 DEF RowInv, Old
  <2> QED
    BY <1>3, <1>5, <2>1, <2>2, <2>3, EventFields
<1> QED
  BY <1>6, <1>7, <1>8, <1>9, <1>10, <1>11, <1>12, <1>13

(***************************************************************************)
(* Registrations                                                           *)
(***************************************************************************)
LEMMA SlotJoin ==
    ASSUME StreamTypes, SlotInv, NEW c \in Conns, c \notin Held,
           NEW next \in {"registered", "open"}, Register(c, next)
    PROVE  SlotInv' /\ perUser' \in [Users -> 0 .. MaxPerUser] /\ subs' \subseteq Conns
<1>1. /\ pc \in [Conns -> {"new", "registered", "read", "open", "ended"}]
      /\ perUser \in [Users -> 0 .. MaxPerUser] /\ UserOf[c] \in Users /\ subs \subseteq Conns
      /\ MaxPerUser \in Nat
  BY StreamAssumption DEF StreamTypes, StreamTypeOK
<1>2. CASE perUser[UserOf[c]] >= MaxPerUser
  <2>1. Held' = Held /\ UNCHANGED <<subs, perUser>>
    BY <1>1, <1>2 DEF Register, Held
  <2> QED
    BY <1>1, <2>1 DEF SlotInv, SlotsReturned
<1>3. CASE ~(perUser[UserOf[c]] >= MaxPerUser)
  <2>1. /\ Held' = Held \cup {c} /\ subs' = subs \cup {c}
        /\ perUser' = [perUser EXCEPT ![UserOf[c]] = @ + 1]
    BY <1>1, <1>3 DEF Register, Held
  <2>2. perUser' \in [Users -> 0 .. MaxPerUser]
    BY <1>1, <1>3, <2>1
  <2>3. IsFiniteSet(Held')
    BY <2>1, FS_AddElement DEF SlotInv
  <2>4. ASSUME NEW u \in Users
        PROVE  perUser'[u] = Cardinality({d \in Held' : UserOf[d] = u})
    <3>1. PICK mine : mine = {d \in Held : UserOf[d] = u}
      OBVIOUS
    <3>2. IsFiniteSet(mine) /\ perUser[u] = Cardinality(mine) /\ c \notin mine
      BY <3>1, FS_Subset DEF SlotInv, SlotsReturned
    <3>3. CASE u = UserOf[c]
      <4>1. {d \in Held' : UserOf[d] = u} = mine \cup {c}
        BY <2>1, <3>1, <3>3
      <4>2. Cardinality(mine \cup {c}) = Cardinality(mine) + 1
        BY <3>2, FS_AddElement
      <4> QED
        BY <1>1, <2>1, <3>2, <3>3, <4>1, <4>2
    <3>4. CASE u # UserOf[c]
      <4>1. {d \in Held' : UserOf[d] = u} = mine
        BY <2>1, <3>1, <3>4
      <4> QED
        BY <1>1, <2>1, <3>2, <3>4, <4>1
    <3> QED
      BY <3>3, <3>4
  <2>5. subs' = Held'
    BY <2>1 DEF SlotInv, SlotsReturned
  <2> QED
    BY <1>1, <2>1, <2>2, <2>3, <2>4, <2>5 DEF SlotInv, SlotsReturned
<1> QED
  BY <1>2, <1>3

LEMMA SlotLeave ==
    ASSUME StreamTypes, SlotInv, NEW c \in Held, Unsubscribe(c),
           pc' = [pc EXCEPT ![c] = "ended"]
    PROVE  SlotInv' /\ perUser' \in [Users -> 0 .. MaxPerUser] /\ subs' \subseteq Conns
<1>1. /\ pc \in [Conns -> {"new", "registered", "read", "open", "ended"}]
      /\ perUser \in [Users -> 0 .. MaxPerUser] /\ UserOf[c] \in Users /\ subs \subseteq Conns
      /\ MaxPerUser \in Nat /\ c \in Conns /\ c \in subs
  BY StreamAssumption DEF StreamTypes, StreamTypeOK, Held, SlotInv, SlotsReturned
<1>2. /\ Held' = Held \ {c} /\ subs' = subs \ {c}
      /\ perUser' = [perUser EXCEPT ![UserOf[c]] = @ - 1]
  BY <1>1 DEF Unsubscribe, Held
<1>3. IsFiniteSet(Held')
  BY <1>2, FS_RemoveElement DEF SlotInv
<1>4. ASSUME NEW u \in Users
      PROVE  /\ perUser'[u] = Cardinality({d \in Held' : UserOf[d] = u})
             /\ perUser'[u] \in 0 .. MaxPerUser
  <2>1. PICK mine : mine = {d \in Held : UserOf[d] = u}
    OBVIOUS
  <2>2. IsFiniteSet(mine) /\ perUser[u] = Cardinality(mine)
    BY <2>1, FS_Subset DEF SlotInv, SlotsReturned
  <2>3. CASE u = UserOf[c]
    <3>1. {d \in Held' : UserOf[d] = u} = mine \ {c} /\ c \in mine
      BY <1>2, <2>1, <2>3
    <3>2. Cardinality(mine \ {c}) = Cardinality(mine) - 1 /\ IsFiniteSet(mine \ {c})
      BY <2>2, <3>1, FS_RemoveElement
    <3>3. Cardinality(mine \ {c}) \in Nat
      BY <3>2, FS_CardinalityType
    <3>4. perUser'[u] = perUser[u] - 1
      BY <1>1, <1>2, <2>3
    <3> QED
      BY <1>1, <2>2, <3>1, <3>2, <3>3, <3>4
  <2>4. CASE u # UserOf[c]
    <3>1. {d \in Held' : UserOf[d] = u} = mine
      BY <1>2, <2>1, <2>4
    <3> QED
      BY <1>1, <1>2, <2>2, <2>4, <3>1
  <2> QED
    BY <2>3, <2>4
<1>5. subs' = Held' /\ subs' \subseteq Conns
  BY <1>1, <1>2 DEF SlotInv, SlotsReturned
<1>6. perUser' \in [Users -> 0 .. MaxPerUser]
  BY <1>1, <1>2, <1>4
<1> QED
  BY <1>3, <1>4, <1>5, <1>6 DEF SlotInv, SlotsReturned

(***************************************************************************)
(* One connection at a time                                                *)
(***************************************************************************)
OrderOK(c) ==
    /\ \A i, j \in 2 .. Len(seen[c]) : i < j => seen[c][i] < seen[c][j]
    /\ \A i \in 1 .. Len(seen[c]) : seen[c][i] = Last => i = Len(seen[c]) /\ pc[c] = "ended"

LEMMA OrderOfAll == SeenInOrder <=> \A c \in Watchers : OrderOK(c)
BY DEF SeenInOrder, OrderOK

LEMMA OrderOfAllNext == SeenInOrder' <=> \A c \in Watchers : OrderOK(c)'
BY DEF SeenInOrder, OrderOK

LEMMA RowSame ==
    ASSUME PipeInv, UNCHANGED <<row, reached, worker, failing>>
    PROVE  RowInv'
BY DEF PipeInv, RowInv

LEMMA OneConnection ==
    ASSUME StreamTypes, PipeInv, UNCHANGED <<wire, worker, failing>>, RowInv',
           \A v \in Versions : Old(v) => Old(v)',
           fan'.event \in {fan.event, CaseEvent},
           \A d \in fan'.to : d \in fan.to /\ fan'.event = fan.event,
           NEW c \in Conns,
           \A d \in Conns \ {c} : chan'[d] = chan[d] /\ seen'[d] = seen[d] /\ pc'[d] = pc[d],
           c \in Watchers => ChanOK(c)' /\ SeenOK(c)' /\ OrderOK(c)'
    PROVE  PipeInv'
<1>1. /\ wire \in Seq(Event) /\ fan \in [event: Event, to: SUBSET Conns]
      /\ chan \in [Conns -> Seq(Event)] /\ seen \in [Conns -> Seq(Versions)]
      /\ \A i \in 1..Len(wire) : wire[i] \in Event
  BY DEF StreamTypes, StreamTypeOK
<1>2. \A i \in 1..Len(wire) : wire[i].version \in Versions
  BY <1>1, EventFields
<1>3. WireInv'
  BY <1>2 DEF PipeInv, WireInv, OfVerification
<1>4. FanInv'
  BY <1>1, EventFields DEF PipeInv, FanInv, OfVerification, ScopeKey
<1>5. ASSUME NEW d \in Watchers PROVE ChanOK(d)' /\ SeenOK(d)' /\ OrderOK(d)'
  <2>1. CASE d = c
    BY <2>1 DEF ChanOK, SeenOK, OrderOK, Passed, OfVerification
  <2>2. CASE d # c
    <3>1. chan'[d] = chan[d] /\ seen'[d] = seen[d] /\ pc'[d] = pc[d] /\ d \in Conns
      BY <2>2 DEF Conns
    <3>2. ASSUME NEW v \in Versions, Passed(v, d) PROVE Passed(v, d)'
      BY <3>2 DEF Passed, OfVerification
    <3>3. \A i \in 1..Len(chan[d]) : chan[d][i].version \in Versions
      BY <1>1, <3>1, EventFields
    <3>4. \A i \in 2..Len(seen[d]) : seen[d][i] \in Versions
      BY <1>1, <3>1
    <3>5. ChanOK(d)'
      BY <3>1, <3>2, <3>3 DEF PipeInv, ChanOK, OfVerification
    <3>6. SeenOK(d)'
      BY <3>1, <3>2, <3>4 DEF PipeInv, SeenOK
    <3>7. OrderOK(d)'
      BY <3>1, OrderOfAll DEF PipeInv, OrderOK
    <3> QED
      BY <3>5, <3>6, <3>7
  <2> QED
    BY <2>1, <2>2
<1> QED
  BY <1>2, <1>3, <1>4, <1>5, OrderOfAllNext DEF PipeInv

LEMMA DispatchStep ==
    ASSUME StreamInv, NEW c \in Conns, Dispatch(c)
    PROVE  StreamTypes' /\ SlotInv' /\ PipeInv'
<1>1. /\ StreamTypes /\ SlotInv /\ PipeInv /\ c \in fan.to
      /\ wire \in Seq(Event) /\ fan \in [event: Event, to: SUBSET Conns]
      /\ chan \in [Conns -> Seq(Event)] /\ seen \in [Conns -> Seq(Versions)]
      /\ Buffer \in Nat /\ fan.event \in Event
  BY StreamAssumption DEF StreamInv, StreamTypes, StreamTypeOK, Dispatch
<1>2. UNCHANGED <<row, reached, worker, failing, notices, lost, wire, manager, subs,
                  perUser, pc, initial, seen>>
  BY DEF Dispatch
<1>3. PICK rest : rest = [fan EXCEPT !.to = @ \ {c}]
  OBVIOUS
<1>4. rest \in [event: Event, to: SUBSET Conns] /\ rest.event = fan.event /\ rest.to = fan.to \ {c}
  BY <1>1, <1>3
<1>5. Idle \in [event: Event, to: SUBSET Conns] /\ Idle.event = CaseEvent /\ Idle.to = {}
  BY EventFields DEF Idle
<1>6. fan' \in {Idle, rest}
  BY <1>3 DEF Dispatch
<1>7. /\ fan' \in [event: Event, to: SUBSET Conns]
      /\ fan'.event \in {fan.event, CaseEvent}
      /\ \A d \in fan'.to : d \in fan.to /\ d # c /\ fan'.event = fan.event
  BY <1>1, <1>4, <1>5, <1>6
<1>8. PICK q \in Seq(Event) :
         /\ chan' = [chan EXCEPT ![c] = q] /\ Len(q) <= Buffer
         /\ q = chan[c] \/ q = Append(chan[c], fan.event)
  <2>1. chan[c] \in Seq(Event) /\ Append(chan[c], fan.event) \in Seq(Event)
    BY <1>1, Appended
  <2>2. Len(chan[c]) \in Nat /\ Len(Append(chan[c], fan.event)) = Len(chan[c]) + 1
    BY <1>1, Appended
  <2>3. CASE chan' = chan
    BY <1>1, <2>1, <2>3 DEF StreamTypes, StreamTypeOK
  <2>4. CASE Len(chan[c]) < Buffer /\ chan' = [chan EXCEPT ![c] = Append(chan[c], fan.event)]
    <3>1. PICK q \in Seq(Event) : q = Append(chan[c], fan.event)
      BY <2>1
    <3>2. Len(q) <= Buffer
      BY <1>1, <2>2, <2>4, <3>1
    <3> QED
      BY <2>4, <3>1, <3>2
  <2> QED
    BY <1>1, <2>3, <2>4 DEF Dispatch
<1>9. StreamTypes'
  <2>1. missed' \subseteq Conns
    BY <1>1 DEF Dispatch, StreamTypes, StreamTypeOK
  <2>2. chan' \in [Conns -> Seq(Event)] /\ (\A d \in Conns : Len(chan'[d]) <= Buffer)
    BY <1>1, <1>8 DEF StreamTypes, StreamTypeOK
  <2>3. fan'.event \in Event /\ fan'.to \subseteq Conns
    BY <1>7
  <2> QED
    BY <1>1, <1>2, <1>7, <2>1, <2>2, <2>3 DEF StreamTypes, StreamTypeOK
<1>10. SlotInv'
  BY <1>1, <1>2, SlotSame
<1>11. \A v \in Versions : Old(v) => Old(v)'
  BY <1>2 DEF Old
<1>12. ASSUME c \in Watchers PROVE ChanOK(c)' /\ SeenOK(c)' /\ OrderOK(c)'
  <2>1. /\ chan'[c] = q /\ seen'[c] = seen[c] /\ pc'[c] = pc[c]
        /\ chan[c] \in Seq(Event) /\ Len(chan[c]) \in Nat
    BY <1>1, <1>2, <1>8
  <2>2. OfVerification(fan.event) /\ fan.event.version \in Versions
    BY <1>1, <1>12, EventFields DEF PipeInv, FanInv, ScopeKey, OfVerification
  <2>3. ASSUME NEW v \in Versions, Passed(v, c) PROVE Passed(v, c)' /\ v < fan.event.version
    BY <1>1, <1>2, <1>7, <2>3 DEF Passed, Old, OfVerification
  <2>4. \A i \in 1..Len(q) :
           \/ i \in 1..Len(chan[c]) /\ q[i] = chan[c][i]
           \/ i = Len(chan[c]) + 1 /\ q[i] = fan.event
    <3>1. CASE q = chan[c]
      BY <3>1
    <3>2. CASE q = Append(chan[c], fan.event)
      BY <1>1, <2>1, <3>2, Appended
    <3> QED
      BY <1>8, <3>1, <3>2
  <2>5. \A i \in 1..Len(chan[c]) : chan[c][i].version \in Versions
    BY <2>1, EventFields
  <2>6. ChanOK(c)'
    <3>1. ASSUME NEW i \in 1..Len(q) PROVE OfVerification(q[i]) /\ Passed(q[i].version, c)'
      <4>1. CASE i \in 1..Len(chan[c]) /\ q[i] = chan[c][i]
        <5>1. PICK v \in Versions : v = q[i].version
          BY <2>5, <4>1
        <5>2. OfVerification(q[i]) /\ Passed(v, c)
          BY <1>1, <1>12, <4>1, <5>1 DEF PipeInv, ChanOK
        <5> QED
          BY <2>3, <5>1, <5>2 DEF Passed, Old
      <4>2. CASE q[i] = fan.event
        <5>1. PICK v : v = fan.event.version
          OBVIOUS
        <5>2. Passed(v, c)'
          BY <1>1, <1>2, <1>7, <2>2, <5>1 DEF PipeInv, FanInv, Passed, Old, OfVerification
        <5> QED
          BY <2>2, <4>2, <5>1, <5>2 DEF Passed, Old
      <4> QED
        BY <2>4, <4>1, <4>2
    <3>2. ASSUME NEW i \in 1..Len(q), NEW j \in 1..Len(q), i < j
          PROVE  q[i].version < q[j].version
      <4>1. i \in 1..Len(chan[c]) /\ q[i] = chan[c][i]
        BY <2>1, <2>4, <3>2
      <4>2. CASE j \in 1..Len(chan[c]) /\ q[j] = chan[c][j]
        BY <1>1, <1>12, <3>2, <4>1, <4>2 DEF PipeInv, ChanOK
      <4>3. CASE q[j] = fan.event
        <5>1. Passed(chan[c][i].version, c) /\ chan[c][i].version \in Versions
          BY <1>1, <1>12, <2>5, <4>1 DEF PipeInv, ChanOK
        <5> QED
          BY <2>3, <4>1, <4>3, <5>1
      <4> QED
        BY <2>4, <4>2, <4>3
    <3> QED
      BY <2>1, <3>1, <3>2 DEF ChanOK, OfVerification
  <2>7. SeenOK(c)'
    <3>1. ASSUME NEW i \in 2..Len(seen[c])
          PROVE  Passed(seen[c][i], c)' /\ (\A j \in 1..Len(q) : seen[c][i] < q[j].version)
      <4>1. PICK v \in Versions : v = seen[c][i]
        BY <1>1, <2>1
      <4>2. Passed(v, c)
        BY <1>1, <1>12, <4>1 DEF PipeInv, SeenOK
      <4>3. Passed(v, c)' /\ v < fan.event.version
        BY <2>3, <4>2
      <4>4. \A j \in 1..Len(q) : v < q[j].version
        BY <1>1, <1>12, <2>4, <4>1, <4>3 DEF PipeInv, SeenOK
      <4> QED
        BY <1>2, <4>1, <4>3, <4>4 DEF Passed, Old
    <3> QED
      BY <1>1, <1>12, <2>1, <3>1 DEF SeenOK, PipeInv
  <2>8. OrderOK(c)'
    BY <1>1, <1>12, <2>1, OrderOfAll DEF OrderOK, PipeInv
  <2> QED
    BY <2>6, <2>7, <2>8
<1>13. \A d \in Conns \ {c} : chan'[d] = chan[d] /\ seen'[d] = seen[d] /\ pc'[d] = pc[d]
  BY <1>1, <1>2, <1>8
<1>14. PipeInv'
  BY <1>1, <1>2, <1>7, <1>11, <1>12, <1>13, RowSame, OneConnection
<1> QED
  BY <1>9, <1>10, <1>14

LEMMA ReceiveStep ==
    ASSUME StreamInv, ManagerReceive
    PROVE  StreamTypes' /\ SlotInv' /\ PipeInv'
<1>1. /\ StreamTypes /\ SlotInv /\ PipeInv /\ wire # << >> /\ fan.to = {}
      /\ wire \in Seq(Event) /\ chan \in [Conns -> Seq(Event)]
      /\ seen \in [Conns -> Seq(Versions)] /\ subs \subseteq Conns
  BY DEF StreamInv, StreamTypes, StreamTypeOK, ManagerReceive
<1>2. UNCHANGED <<row, reached, worker, failing, notices, lost, manager, missed, connVars>>
  BY DEF ManagerReceive
<1>3. PICK w \in Seq(Event) : w = Tail(wire) /\ wire' = w
  BY <1>1, HeadAndTail DEF ManagerReceive
<1>4. PICK e \in Event : e = Head(wire) /\ e = wire[1]
  BY <1>1, HeadAndTail
<1>5. /\ Len(wire) \in Nat \ {0} /\ Len(w) = Len(wire) - 1
      /\ \A i \in 1..Len(w) : w[i] = wire[i + 1]
  BY <1>1, <1>3, HeadAndTail
<1>6. /\ fan' = [event |-> e, to |-> {c \in subs : ScopeKey(c) = e.resource}]
      /\ fan' \in [event: Event, to: SUBSET Conns]
  BY <1>1, <1>4 DEF ManagerReceive
<1>7. StreamTypes'
  BY <1>1, <1>2, <1>3, <1>6 DEF StreamTypes, StreamTypeOK, connVars
<1>8. SlotInv'
  BY <1>1, <1>2, SlotSame DEF connVars
<1>9. \A v : Old(v) <=> Old(v)'
  BY <1>2 DEF Old
<1>10. \A i \in 1..Len(w) : i + 1 \in 1..Len(wire) /\ w[i] = wire[i + 1] /\ w[i] \in Event
  BY <1>5
<1>11. WireInv'
  <2>1. ASSUME NEW i \in 1..Len(w), OfVerification(w[i])
        PROVE  Old(w[i].version)
    BY <1>1, <1>10, <2>1 DEF PipeInv, WireInv
  <2>2. ASSUME NEW i \in 1..Len(w), OfVerification(w[i]),
               NEW j \in 1..Len(w), i < j, OfVerification(w[j])
        PROVE  w[i].version < w[j].version
    <3>1. i + 1 < j + 1 /\ i + 1 \in 1..Len(wire) /\ j + 1 \in 1..Len(wire)
      BY <1>10, <2>2
    <3> QED
      BY <1>1, <1>10, <2>2, <3>1 DEF PipeInv, WireInv
  <2> QED
    BY <1>2, <1>3, <2>1, <2>2 DEF WireInv, Old, OfVerification
<1>12. OfVerification(e) =>
          /\ Old(e.version)
          /\ \A i \in 1..Len(w) : OfVerification(w[i]) => e.version < w[i].version
  <2> SUFFICES ASSUME OfVerification(e)
               PROVE  /\ Old(e.version)
                      /\ \A i \in 1..Len(w) : OfVerification(w[i]) => e.version < w[i].version
    OBVIOUS
  <2>1. 1 \in 1..Len(wire) /\ OfVerification(wire[1])
    BY <1>4, <1>5
  <2>2. Old(e.version)
    BY <1>1, <1>4, <2>1 DEF PipeInv, WireInv
  <2>3. ASSUME NEW i \in 1..Len(w), OfVerification(w[i]) PROVE e.version < w[i].version
    <3>1. 1 < i + 1 /\ i + 1 \in 1..Len(wire) /\ w[i] = wire[i + 1]
      BY <1>10
    <3> QED
      BY <1>1, <1>4, <2>1, <2>3, <3>1 DEF PipeInv, WireInv
  <2> QED
    BY <2>2, <2>3
<1>13. FanInv'
  BY <1>2, <1>3, <1>6, <1>12 DEF FanInv, Old, OfVerification, ScopeKey
<1>14. ASSUME NEW c \in Watchers, NEW v \in Versions, Passed(v, c) PROVE Passed(v, c)'
  <2>1. \A i \in 1..Len(w) : OfVerification(w[i]) => v < w[i].version
    BY <1>10, <1>14 DEF Passed
  <2>2. c \in fan'.to => v < fan'.event.version
    <3> SUFFICES ASSUME c \in fan'.to PROVE v < fan'.event.version
      OBVIOUS
    <3>1. OfVerification(e) /\ 1 \in 1..Len(wire)
      BY <1>5, <1>6 DEF ScopeKey, OfVerification
    <3> QED
      BY <1>4, <1>6, <1>14, <3>1 DEF Passed
  <2> QED
    BY <1>3, <1>9, <1>14, <2>1, <2>2 DEF Passed, OfVerification
<1>15. ASSUME NEW c \in Watchers PROVE ChanOK(c)' /\ SeenOK(c)'
  <2>1. chan' = chan /\ seen' = seen /\ pc' = pc /\ c \in Conns
    BY <1>2 DEF connVars, Conns
  <2>2. \A i \in 1..Len(chan[c]) : chan[c][i].version \in Versions
    BY <1>1, <2>1, EventFields
  <2>3. \A i \in 2..Len(seen[c]) : seen[c][i] \in Versions
    BY <1>1, <2>1
  <2>4. ChanOK(c)'
    BY <1>1, <1>14, <2>1, <2>2 DEF PipeInv, ChanOK, OfVerification
  <2>5. SeenOK(c)'
    BY <1>1, <1>14, <2>1, <2>3 DEF PipeInv, SeenOK
  <2> QED
    BY <2>4, <2>5
<1>16. RowInv' /\ SeenInOrder'
  BY <1>1, <1>2 DEF PipeInv, RowInv, SeenInOrder, connVars
<1> QED
  BY <1>7, <1>8, <1>11, <1>13, <1>15, <1>16 DEF PipeInv

(***************************************************************************)
(* The handlers                                                            *)
(***************************************************************************)
LEMMA AtStreams ==
    ASSUME StreamInv
    PROVE  /\ StreamTypes /\ SlotInv /\ PipeInv
           /\ wire \in Seq(Event) /\ fan \in [event: Event, to: SUBSET Conns]
           /\ chan \in [Conns -> Seq(Event)] /\ seen \in [Conns -> Seq(Versions)]
           /\ pc \in [Conns -> {"new", "registered", "read", "open", "ended"}]
           /\ initial \in [Conns -> Versions]
           /\ \A c \in Conns : Len(chan[c]) <= Buffer
BY DEF StreamInv, StreamTypes, StreamTypeOK

\* A connection that registers, or is refused for the number of its streams.
LEMMA RegisterStep ==
    ASSUME StreamInv, NEW c \in Conns, EventsRegister(c) \/ ListenerEvents(c)
    PROVE  StreamTypes' /\ SlotInv' /\ PipeInv'
<1>1. PICK next \in {"registered", "open"} : pc[c] = "new" /\ Register(c, next)
  BY DEF EventsRegister, ListenerEvents
<1>2. UNCHANGED <<row, reached, worker, failing, notices, lost, wire, manager, fan, chan,
                  initial, seen, missed>>
  BY DEF EventsRegister, ListenerEvents
<1>3. SlotInv' /\ perUser' \in [Users -> 0 .. MaxPerUser] /\ subs' \subseteq Conns
  BY <1>1, AtStreams, SlotJoin DEF Held
<1>4. PICK p \in {"registered", "open", "ended"} : pc' = [pc EXCEPT ![c] = p]
  BY <1>1 DEF Register
<1>5. StreamTypes'
  BY <1>2, <1>3, <1>4, AtStreams DEF StreamTypes, StreamTypeOK
<1>6. ASSUME c \in Watchers PROVE ChanOK(c)' /\ SeenOK(c)' /\ OrderOK(c)'
  <2>1. ChanOK(c) /\ SeenOK(c) /\ seen[c] = << >>
    BY <1>1, <1>6, AtStreams DEF PipeInv, SeenOK
  <2> QED
    BY <1>2, <2>1 DEF ChanOK, SeenOK, OrderOK, Passed, Old, OfVerification
<1>7. (\A v \in Versions : Old(v) => Old(v)')
      /\ \A d \in Conns \ {c} : chan'[d] = chan[d] /\ seen'[d] = seen[d] /\ pc'[d] = pc[d]
  BY <1>2, <1>4, AtStreams DEF Old
<1>8. PipeInv'
  BY <1>2, <1>6, <1>7, AtStreams, RowSame, OneConnection
<1> QED
  BY <1>3, <1>5, <1>8

\* A handler that returns without another event.
LEMMA LeaveStep ==
    ASSUME StreamInv, NEW c \in Conns, EventsRefused(c) \/ StreamEnds(c)
    PROVE  StreamTypes' /\ SlotInv' /\ PipeInv'
<1>1. c \in Held /\ Unsubscribe(c) /\ pc' = [pc EXCEPT ![c] = "ended"]
  BY DEF EventsRefused, StreamEnds, Held
<1>2. UNCHANGED <<row, reached, worker, failing, notices, lost, wire, manager, fan, seen, missed>>
  BY DEF EventsRefused, StreamEnds
<1>3. SlotInv' /\ perUser' \in [Users -> 0 .. MaxPerUser] /\ subs' \subseteq Conns
  BY <1>1, AtStreams, SlotLeave
<1>4. chan' = [chan EXCEPT ![c] = << >>] /\ initial' = [initial EXCEPT ![c] = 0]
  BY <1>1 DEF Unsubscribe
<1>5. << >> \in Seq(Event) /\ Len(<< >>) = 0 /\ 0 \in Versions /\ Buffer \in Nat
  BY StreamAssumption DEF Versions
<1>6. chan' \in [Conns -> Seq(Event)] /\ \A d \in Conns : Len(chan'[d]) <= Buffer
  BY <1>4, <1>5, AtStreams
<1>7. StreamTypes'
  BY <1>1, <1>2, <1>3, <1>4, <1>5, <1>6, AtStreams DEF StreamTypes, StreamTypeOK
<1>8. ASSUME c \in Watchers PROVE ChanOK(c)' /\ SeenOK(c)' /\ OrderOK(c)'
  <2>1. SeenOK(c) /\ OrderOK(c) /\ pc[c] # "ended"
    BY <1>1, <1>8, AtStreams, OrderOfAll DEF PipeInv, Held
  <2>2. chan'[c] = << >> /\ pc'[c] = "ended"
    BY <1>1, <1>4, AtStreams
  <2>3. ChanOK(c)'
    BY <1>5, <2>2 DEF ChanOK
  <2> QED
    BY <1>2, <1>5, <2>1, <2>2, <2>3 DEF SeenOK, OrderOK, Passed, Old, OfVerification
<1>9. (\A v \in Versions : Old(v) => Old(v)')
      /\ \A d \in Conns \ {c} : chan'[d] = chan[d] /\ seen'[d] = seen[d] /\ pc'[d] = pc[d]
  BY <1>1, <1>2, <1>4, AtStreams DEF Old
<1>10. PipeInv'
  BY <1>2, <1>8, <1>9, AtStreams, RowSame, OneConnection
<1> QED
  BY <1>3, <1>7, <1>10

LEMMA SnapshotStep ==
    ASSUME StreamInv, NEW c \in Conns, EventsSnapshot(c)
    PROVE  StreamTypes' /\ SlotInv' /\ PipeInv'
<1>1. /\ pc[c] = "registered" /\ pc' = [pc EXCEPT ![c] = "read"]
      /\ row' = row \/ row' = Last
      /\ initial' = [initial EXCEPT ![c] = row']
      /\ UNCHANGED <<reached, worker, failing, notices, lost, wire, manager, fan, chan, subs,
                     perUser, seen, missed>>
  BY DEF EventsSnapshot, Settle
<1>2. row' \in Versions
  BY <1>1, AtStreams, StreamAssumption DEF StreamTypes, StreamTypeOK, Versions
<1>3. StreamTypes'
  BY <1>1, <1>2, AtStreams DEF StreamTypes, StreamTypeOK
<1>4. Held' = Held
  BY <1>1, AtStreams DEF Held
<1>5. SlotInv'
  BY <1>1, <1>4, AtStreams DEF SlotInv, SlotsReturned
<1>6. RowInv' /\ \A v \in Versions : Old(v) => Old(v)'
  BY <1>1, AtStreams DEF Old, RowInv, PipeInv
<1>7. ASSUME c \in Watchers PROVE ChanOK(c)' /\ SeenOK(c)' /\ OrderOK(c)'
  <2>1. ChanOK(c) /\ SeenOK(c) /\ seen[c] = << >>
    BY <1>1, <1>7, AtStreams DEF PipeInv, SeenOK
  <2>2. ASSUME NEW v \in Versions, Passed(v, c) PROVE Passed(v, c)'
    BY <1>1, <1>6, <2>2 DEF Passed, OfVerification
  <2>3. \A i \in 1..Len(chan[c]) : chan[c][i].version \in Versions
    BY <1>7, AtStreams, EventFields DEF Conns
  <2>4. ChanOK(c)'
    BY <1>1, <2>1, <2>2, <2>3 DEF ChanOK, OfVerification
  <2> QED
    BY <1>1, <2>1, <2>4 DEF SeenOK, OrderOK
<1>8. \A d \in Conns \ {c} : chan'[d] = chan[d] /\ seen'[d] = seen[d] /\ pc'[d] = pc[d]
  BY <1>1, AtStreams
<1>9. PipeInv'
  BY <1>1, <1>6, <1>7, <1>8, AtStreams, OneConnection
<1> QED
  BY <1>3, <1>5, <1>9

\* An event is written: the snapshot, before any other, or the head of the
\* channel. q is what the channel holds afterwards.
LEMMA WriteStep ==
    ASSUME StreamInv, NEW c \in Conns, NEW e \in Event, NEW q \in Seq(Event),
           pc[c] \in {"read", "open"}, WriteEvent(c, e, q), Len(q) <= Buffer,
           UNCHANGED <<row, reached, worker, failing, notices, lost, wire, manager, fan, missed>>,
           c \in Watchers =>
              /\ OfVerification(e)
              /\ \A i \in 1..Len(q) :
                    /\ OfVerification(q[i]) /\ Passed(q[i].version, c)
                    /\ \A j \in 1..Len(q) : i < j => q[i].version < q[j].version
                    /\ \A k \in 2..Len(seen[c]) : seen[c][k] < q[i].version
              /\ seen[c] # << >> \/ pc[c] = "open" =>
                    /\ Passed(e.version, c)
                    /\ \A i \in 1..Len(q) : e.version < q[i].version
                    /\ \A k \in 2..Len(seen[c]) : seen[c][k] < e.version
    PROVE  StreamTypes' /\ SlotInv' /\ PipeInv'
<1>1. c \in Held /\ Buffer \in Nat /\ e.version \in Versions /\ 0 \in Versions
  BY StreamAssumption, EventFields DEF Held, Versions
<1>2. << >> \in Seq(Event) /\ Len(<< >>) = 0
  OBVIOUS
<1>3. PICK p \in {"open", "ended"} :
         pc' = [pc EXCEPT ![c] = p] /\ (p = "ended" <=> isTerminal(e))
  BY DEF WriteEvent
<1>4. PICK rest \in Seq(Event) :
         chan' = [chan EXCEPT ![c] = rest] /\ rest \in {q, << >>}
  BY <1>2 DEF WriteEvent, Unsubscribe
<1>5. /\ SlotInv' /\ perUser' \in [Users -> 0 .. MaxPerUser] /\ subs' \subseteq Conns
      /\ initial' \in [Conns -> Versions]
  <2>1. CASE isTerminal(e)
    BY <1>1, <2>1, AtStreams, SlotLeave DEF WriteEvent, Unsubscribe
  <2>2. CASE ~isTerminal(e)
    <3>1. UNCHANGED <<subs, perUser, initial>> /\ pc' = [pc EXCEPT ![c] = "open"]
      BY <2>2 DEF WriteEvent
    <3>2. Held' = Held
      BY <1>1, <3>1, AtStreams DEF Held
    <3> QED
      BY <3>1, <3>2, AtStreams DEF SlotInv, SlotsReturned, StreamTypes, StreamTypeOK
  <2> QED
    BY <2>1, <2>2
<1>6. chan' \in [Conns -> Seq(Event)] /\ \A d \in Conns : Len(chan'[d]) <= Buffer
  BY <1>1, <1>2, <1>4, AtStreams
<1>7. PICK log \in Seq(Versions) :
         /\ seen' = [seen EXCEPT ![c] = log]
         /\ log = IF c \in Watchers THEN Append(seen[c], e.version) ELSE seen[c]
  <2>1. seen[c] \in Seq(Versions)
    BY AtStreams
  <2>2. Append(seen[c], e.version) \in Seq(Versions)
    BY <1>1, <2>1, Appended
  <2> QED
    BY <2>1, <2>2, AtStreams DEF WriteEvent
<1>8. StreamTypes'
  BY <1>3, <1>5, <1>6, <1>7, AtStreams DEF StreamTypes, StreamTypeOK
<1>9. \A v : Passed(v, c) => Passed(v, c)'
  BY DEF Passed, Old, OfVerification
<1>10. ASSUME c \in Watchers PROVE ChanOK(c)' /\ SeenOK(c)' /\ OrderOK(c)'
  <2>1. chan'[c] = rest /\ seen'[c] = log /\ pc'[c] = p
    BY <1>3, <1>4, <1>7, AtStreams
  <2>2. PICK n \in Nat : n = Len(seen[c])
    BY AtStreams
  <2>3. /\ Len(log) = n + 1 /\ log[n + 1] = e.version
        /\ \A k \in 1..n : log[k] = seen[c][k] /\ log[k] \in Versions
    BY <1>1, <1>7, <1>10, <2>2, AtStreams, Appended
  <2>4. \A i \in 1..Len(rest) : i \in 1..Len(q) /\ rest = q
    BY <1>2, <1>4
  <2>5. ChanOK(c)'
    <3>1. \A i \in 1..Len(rest) : rest[i].version \in Versions
      BY <1>4, EventFields
    <3>2. ASSUME NEW i \in 1..Len(rest)
          PROVE  /\ OfVerification(rest[i]) /\ Passed(rest[i].version, c)
                 /\ \A j \in 1..Len(rest) : i < j => rest[i].version < rest[j].version
      BY <1>10, <2>4
    <3> QED
      BY <1>9, <2>1, <3>1, <3>2 DEF ChanOK, OfVerification, Passed, Old
  <2>6. \A k \in 2..n : Passed(seen[c][k], c)
    BY <1>10, <2>2, AtStreams DEF PipeInv, SeenOK
  <2>7. n >= 1 => seen[c] # << >>
    BY <2>2
  <2>8. SeenOK(c)'
    <3>1. ASSUME NEW k \in 2..n + 1
          PROVE  Passed(log[k], c) /\ \A j \in 1..Len(rest) : log[k] < rest[j].version
      <4>1. CASE k \in 2..n
        BY <1>10, <2>2, <2>3, <2>4, <2>6, <4>1
      <4>2. CASE k = n + 1
        BY <1>10, <2>2, <2>3, <2>4, <2>7, <4>2
      <4> QED
        BY <3>1, <4>1, <4>2
    <3>2. ASSUME NEW k \in 2..n + 1
          PROVE  Passed(log[k], c)'
      <4>1. PICK v : v = log[k]
        OBVIOUS
      <4>2. Passed(v, c)'
        BY <1>9, <3>1, <4>1
      <4> QED
        BY <4>1, <4>2
    <3>3. p \notin {"new", "registered", "read"}
      OBVIOUS
    <3> QED
      BY <2>1, <2>3, <3>1, <3>2, <3>3 DEF SeenOK, Passed, Old
  <2>9. OrderOK(c)'
    <3>1. /\ \A i, j \in 2..n : i < j => seen[c][i] < seen[c][j]
          /\ \A k \in 1..n : seen[c][k] # Last
      <4>1. OrderOK(c)
        BY <1>10, AtStreams, OrderOfAll DEF PipeInv
      <4> QED
        BY <2>2, <4>1 DEF OrderOK
    <3>2. ASSUME NEW i \in 2..n + 1, NEW j \in 2..n + 1, i < j PROVE log[i] < log[j]
      <4>1. i \in 2..n /\ i \in 1..n /\ n >= 1 /\ (j \in 2..n \/ j = n + 1)
        BY <3>2
      <4>2. CASE j \in 2..n
        <5>1. j \in 1..n
          BY <4>2
        <5> QED
          BY <2>3, <3>1, <3>2, <4>1, <4>2, <5>1
      <4>3. CASE j = n + 1
        BY <1>10, <2>2, <2>3, <2>7, <4>1, <4>3
      <4> QED
        BY <4>1, <4>2, <4>3
    <3>3. ASSUME NEW i \in 1..n + 1, log[i] = Last PROVE i = n + 1 /\ p = "ended"
      <4>1. i \notin 1..n
        BY <2>3, <3>1, <3>3
      <4>2. i = n + 1
        BY <3>3, <4>1
      <4>3. isTerminal(e)
        BY <1>10, <2>3, <3>3, <4>2, EventFields
      <4> QED
        BY <1>3, <4>2, <4>3
    <3> QED
      BY <2>1, <2>3, <3>2, <3>3 DEF OrderOK
  <2> QED
    BY <2>5, <2>8, <2>9
<1>11. \A d \in Conns \ {c} : chan'[d] = chan[d] /\ seen'[d] = seen[d] /\ pc'[d] = pc[d]
  BY <1>3, <1>4, <1>7, AtStreams
<1>12. \A v \in Versions : Old(v) => Old(v)'
  BY DEF Old
<1>13. PipeInv'
  BY <1>10, <1>11, <1>12, AtStreams, RowSame, OneConnection
<1> QED
  BY <1>5, <1>8, <1>13

LEMMA InitialStep ==
    ASSUME StreamInv, NEW c \in Conns, StreamInitial(c)
    PROVE  StreamTypes' /\ SlotInv' /\ PipeInv'
<1>1. PICK e \in Event : e = VerificationEvent(initial[c]) /\ OfVerification(e)
  BY AtStreams, EventFields
<1>2. PICK q \in Seq(Event) : q = chan[c] /\ Len(q) <= Buffer
  BY AtStreams
<1>3. /\ pc[c] = "read" /\ WriteEvent(c, e, q)
      /\ UNCHANGED <<row, reached, worker, failing, notices, lost, wire, manager, fan, missed>>
  BY <1>1, <1>2 DEF StreamInitial
<1>4. c \in Watchers => seen[c] = << >> /\ ChanOK(c) /\ SeenOK(c)
  BY <1>3, AtStreams DEF PipeInv, SeenOK
<1>5. c \in Watchers =>
        \A i \in 1..Len(q) :
              /\ OfVerification(q[i]) /\ Passed(q[i].version, c)
              /\ \A j \in 1..Len(q) : i < j => q[i].version < q[j].version
              /\ \A k \in 2..Len(seen[c]) : seen[c][k] < q[i].version
  BY <1>2, <1>4 DEF ChanOK, SeenOK
<1> QED
  BY <1>1, <1>2, <1>3, <1>4, <1>5, WriteStep

LEMMA RelayStep ==
    ASSUME StreamInv, NEW c \in Conns, StreamRelay(c)
    PROVE  StreamTypes' /\ SlotInv' /\ PipeInv'
<1>1. PICK old \in Seq(Event) : old = chan[c] /\ old # << >> /\ Len(old) <= Buffer
  BY AtStreams DEF StreamRelay
<1>2. PICK e \in Event : e = Head(old) /\ e = old[1]
  BY <1>1, HeadAndTail
<1>3. PICK q \in Seq(Event) : q = Tail(old)
  BY <1>1, HeadAndTail
<1>4. /\ Len(old) \in Nat \ {0} /\ Len(q) = Len(old) - 1 /\ Buffer \in Nat
      /\ \A i \in 1..Len(q) : i + 1 \in 1..Len(old) /\ q[i] = old[i + 1]
  BY <1>1, <1>3, HeadAndTail, StreamAssumption
<1>5. /\ pc[c] = "open" /\ WriteEvent(c, e, q) /\ Len(q) <= Buffer
      /\ UNCHANGED <<row, reached, worker, failing, notices, lost, wire, manager, fan, missed>>
  BY <1>1, <1>2, <1>3, <1>4 DEF StreamRelay
<1>6. ASSUME c \in Watchers
      PROVE  /\ OfVerification(e) /\ Passed(e.version, c)
             /\ \A i \in 1..Len(q) :
                    /\ OfVerification(q[i]) /\ Passed(q[i].version, c)
                    /\ e.version < q[i].version
                    /\ \A j \in 1..Len(q) : i < j => q[i].version < q[j].version
                    /\ \A k \in 2..Len(seen[c]) : seen[c][k] < q[i].version
             /\ \A k \in 2..Len(seen[c]) : seen[c][k] < e.version
  <2>1. \A i \in 1..Len(old) :
           /\ OfVerification(old[i]) /\ Passed(old[i].version, c)
           /\ \A j \in 1..Len(old) : i < j => old[i].version < old[j].version
           /\ \A k \in 2..Len(seen[c]) : seen[c][k] < old[i].version
    BY <1>1, <1>6, AtStreams DEF PipeInv, ChanOK, SeenOK
  <2>2. 1 \in 1..Len(old)
    BY <1>4
  <2>3. ASSUME NEW i \in 1..Len(q)
        PROVE  /\ OfVerification(q[i]) /\ Passed(q[i].version, c) /\ e.version < q[i].version
               /\ \A k \in 2..Len(seen[c]) : seen[c][k] < q[i].version
    <3>1. i + 1 \in 1..Len(old) /\ q[i] = old[i + 1] /\ 1 < i + 1
      BY <1>4
    <3> QED
      BY <1>2, <2>1, <2>2, <3>1
  <2>4. ASSUME NEW i \in 1..Len(q), NEW j \in 1..Len(q), i < j
        PROVE  q[i].version < q[j].version
    <3>1. i + 1 \in 1..Len(old) /\ j + 1 \in 1..Len(old) /\ i + 1 < j + 1
      BY <1>4, <2>4
    <3> QED
      BY <1>4, <2>1, <3>1
  <2> QED
    BY <1>2, <2>1, <2>2, <2>3, <2>4
<1> QED
  BY <1>5, <1>6, WriteStep

(***************************************************************************)
(* The completion                                                          *)
(***************************************************************************)
HasTerminal(s) == \E i \in 1..Len(s) : isTerminal(s[i])

\* CompletionNotMissed, of one connection.
Told(c) ==
    reached = Last /\ pc[c] \in {"read", "open"} /\ worker # "dead" =>
        \/ initial[c] = Last \/ worker = "publish" \/ HasTerminal(wire)
        \/ isTerminal(fan.event) /\ c \in fan.to
        \/ HasTerminal(chan[c]) \/ lost \/ c \in missed \/ manager = "done"

LEMMA ToldAll ==
    ASSUME StreamTypes
    PROVE  CompletionNotMissed <=> \A c \in Watchers : Told(c)
<1>1. wire \in Seq(Event) /\ \A c \in Watchers : chan[c] \in Seq(Event)
  BY DEF StreamTypes, StreamTypeOK, Conns
<1>2. DOMAIN wire = 1..Len(wire) /\ \A c \in Watchers : DOMAIN chan[c] = 1..Len(chan[c])
  BY <1>1
<1> QED
  BY <1>2 DEF CompletionNotMissed, Told, HasTerminal, Delivered, Coming

LEMMA ToldAllNext ==
    ASSUME StreamTypes'
    PROVE  CompletionNotMissed' <=> \A c \in Watchers : Told(c)'
<1>1. wire' \in Seq(Event) /\ \A c \in Watchers : chan'[c] \in Seq(Event)
  BY DEF StreamTypes, StreamTypeOK, Conns
<1>2. DOMAIN wire' = 1..Len(wire') /\ \A c \in Watchers : DOMAIN chan'[c] = 1..Len(chan'[c])
  BY <1>1
<1> QED
  BY <1>2 DEF CompletionNotMissed, Told, HasTerminal, Delivered, Coming, isTerminal

LEMMA HeldAppended ==
    ASSUME NEW s \in Seq(Event), NEW e \in Event
    PROVE  HasTerminal(Append(s, e)) <=> HasTerminal(s) \/ isTerminal(e)
<1>1. PICK t : t = Append(s, e)
  OBVIOUS
<1>2. /\ Len(s) \in Nat /\ Len(t) = Len(s) + 1 /\ t[Len(s) + 1] = e
      /\ \A i \in 1..Len(s) : t[i] = s[i]
  BY <1>1, Appended
<1>3. \A i \in 1..Len(t) : i \in 1..Len(s) \/ i = Len(s) + 1
  BY <1>2
<1>4. Len(s) + 1 \in 1..Len(t) /\ \A i \in 1..Len(s) : i \in 1..Len(t)
  BY <1>2
<1> QED
  BY <1>1, <1>2, <1>3, <1>4 DEF HasTerminal

LEMMA HeldTail ==
    ASSUME NEW s \in Seq(Event), s # << >>
    PROVE  HasTerminal(s) <=> isTerminal(Head(s)) \/ HasTerminal(Tail(s))
<1>1. PICK t : t = Tail(s)
  OBVIOUS
<1>2. /\ Len(s) \in Nat \ {0} /\ Len(t) = Len(s) - 1 /\ Head(s) = s[1]
      /\ \A i \in 1..Len(t) : t[i] = s[i + 1]
  BY <1>1, HeadAndTail
<1>3. ASSUME NEW i \in 1..Len(s), isTerminal(s[i]) PROVE isTerminal(Head(s)) \/ HasTerminal(t)
  <2>1. CASE i = 1
    BY <1>2, <1>3, <2>1
  <2>2. CASE i # 1
    <3>1. i - 1 \in 1..Len(t) /\ t[i - 1] = s[(i - 1) + 1] /\ (i - 1) + 1 = i
      BY <1>2, <2>2
    <3> QED
      BY <1>3, <3>1 DEF HasTerminal
  <2> QED
    BY <2>1, <2>2
<1>4. ASSUME NEW i \in 1..Len(t), isTerminal(t[i]) PROVE HasTerminal(s)
  <2>1. i + 1 \in 1..Len(s) /\ t[i] = s[i + 1]
    BY <1>2
  <2> QED
    BY <1>4, <2>1 DEF HasTerminal
<1>5. isTerminal(Head(s)) => HasTerminal(s)
  BY <1>2 DEF HasTerminal
<1> QED
  BY <1>1, <1>3, <1>4, <1>5 DEF HasTerminal

LEMMA ToldByPublishers ==
    ASSUME StreamInv, NEW c \in Watchers, Told(c),
           \/ WorkerCommit \/ WorkerPublish \/ WorkerDies \/ FailureRead \/ FailurePublish
           \/ FailureCommit \/ ReconcileStale \/ CaseNotice \/ ReaderStarts \/ WorkerShutdown \/ ReaderStops
    PROVE  Told(c)'
<1>1. UNCHANGED <<fan, missed, connVars>> /\ StreamTypes /\ wire \in Seq(Event)
  BY AtStreams DEF WorkerCommit, WorkerPublish, WorkerDies, FailureRead, FailurePublish, FailureCommit,
     ReconcileStale, CaseNotice, ReaderStarts, WorkerShutdown, ReaderStops
<1>2. ASSUME NEW e \in Event, Publish(e)
      PROVE  /\ HasTerminal(wire) => HasTerminal(wire')
             /\ lost => lost'
             /\ isTerminal(e) => HasTerminal(wire') \/ lost'
  BY <1>1, <1>2, Published, HeadAndTail, HeldAppended
<1>3. CASE WorkerCommit \/ WorkerDies \/ WorkerShutdown \/ ReconcileStale
  BY <1>1, <1>3 DEF WorkerCommit, WorkerDies, WorkerShutdown, ReconcileStale, connVars, Told,
     HasTerminal
<1>4. CASE WorkerPublish
  <2>1. reached \in Versions
    BY <1>1 DEF StreamTypes, StreamTypeOK
  <2>2. PICK e \in Event : e = VerificationEvent(reached) /\ (isTerminal(e) <=> reached = Last)
    BY <2>1, EventFields
  <2>3. Publish(e) /\ UNCHANGED <<reached, manager>>
    BY <1>4, <2>2 DEF WorkerPublish
  <2>4. reached = Last => HasTerminal(wire') \/ lost'
    BY <1>2, <2>2, <2>3
  <2> QED
    BY <2>3, <2>4 DEF Told, HasTerminal
<1>5. CASE FailureRead \/ FailurePublish \/ FailureCommit
  <2>1. worker = "dead" /\ worker' = worker
    BY <1>5, AtStreams DEF FailureRead, FailurePublish, FailureCommit, PipeInv, RowInv
  <2> QED
    BY <2>1 DEF Told
<1>6. CASE CaseNotice
  <2>1. Publish(CaseEvent) /\ UNCHANGED <<reached, worker, manager>>
    BY <1>6 DEF CaseNotice
  <2>2. (HasTerminal(wire) => HasTerminal(wire')) /\ (lost => lost')
    BY <1>2, <2>1, EventFields
  <2> QED
    BY <1>1, <2>1, <2>2 DEF Told, HasTerminal, connVars
<1>7. CASE ReaderStarts \/ ReaderStops
  BY <1>1, <1>7 DEF ReaderStarts, ReaderStops, connVars, Told, HasTerminal
<1> QED
  BY <1>3, <1>4, <1>5, <1>6, <1>7

LEMMA ToldByReceive ==
    ASSUME StreamInv, NEW c \in Watchers, Told(c), ManagerReceive
    PROVE  Told(c)'
<1>1. /\ UNCHANGED <<reached, worker, lost, manager, missed, connVars>>
      /\ wire \in Seq(Event) /\ wire # << >> /\ wire' = Tail(wire) /\ fan.to = {}
  BY AtStreams DEF ManagerReceive
<1>2. PICK e \in Event : e = Head(wire)
  BY <1>1, HeadAndTail
<1>3. fan' = [event |-> e, to |-> {d \in subs : ScopeKey(d) = e.resource}]
  BY <1>2 DEF ManagerReceive
<1>4. HasTerminal(wire) => isTerminal(e) \/ HasTerminal(wire')
  BY <1>1, <1>2, HeldTail
<1>5. pc[c] \in {"read", "open"} /\ isTerminal(e) => c \in fan'.to /\ isTerminal(fan'.event)
  <2>1. pc[c] \in {"read", "open"} => c \in subs
    BY AtStreams DEF SlotInv, SlotsReturned, Held, Conns
  <2> QED
    BY <1>3, <2>1 DEF isTerminal, ScopeKey
<1> QED
  BY <1>1, <1>4, <1>5 DEF Told, HasTerminal, connVars, isTerminal

LEMMA ToldByDispatch ==
    ASSUME StreamInv, NEW c \in Watchers, Told(c), NEW d \in Conns, Dispatch(d)
    PROVE  Told(c)'
<1>1. /\ UNCHANGED <<reached, worker, lost, wire, manager, subs, pc, initial>>
      /\ fan \in [event: Event, to: SUBSET Conns] /\ chan \in [Conns -> Seq(Event)]
      /\ c \in Conns
  BY AtStreams DEF Dispatch, Conns
<1>2. /\ missed \subseteq missed'
      /\ HasTerminal(chan[c]) => HasTerminal(chan'[c])
  <2>1. chan[d] \in Seq(Event) /\ fan.event \in Event
    BY <1>1
  <2>2. HasTerminal(chan[d]) => HasTerminal(Append(chan[d], fan.event))
    BY <2>1, HeldAppended
  <2> QED
    BY <1>1, <2>2 DEF Dispatch
<1>3. ASSUME c = d, isTerminal(fan.event), pc[c] \in {"read", "open"}
      PROVE  HasTerminal(chan'[c]) \/ c \in missed'
  <2>1. c \in subs
    BY <1>3, AtStreams DEF SlotInv, SlotsReturned, Held, Conns
  <2>2. HasTerminal(Append(chan[c], fan.event))
    BY <1>1, <1>3, HeldAppended
  <2> QED
    BY <1>1, <1>3, <2>1, <2>2 DEF Dispatch
<1>4. ASSUME c # d, c \in fan.to PROVE c \in fan'.to /\ fan'.event = fan.event
  <2>1. PICK rest : rest = [fan EXCEPT !.to = @ \ {d}]
    OBVIOUS
  <2>2. c \in rest.to /\ rest.event = fan.event
    BY <1>1, <1>4, <2>1
  <2>3. fan' = rest
    BY <1>4, <2>1 DEF Dispatch
  <2> QED
    BY <2>2, <2>3
<1> QED
  BY <1>1, <1>2, <1>3, <1>4 DEF Told, HasTerminal, isTerminal

LEMMA ToldByHandlers ==
    ASSUME StreamInv, NEW c \in Watchers, Told(c), NEW d \in Conns,
           \/ EventsRegister(d) \/ ListenerEvents(d) \/ EventsRefused(d) \/ StreamEnds(d)
           \/ EventsSnapshot(d) \/ StreamInitial(d) \/ StreamRelay(d)
    PROVE  Told(c)'
<1>1. /\ UNCHANGED <<reached, worker, lost, wire, manager, fan, missed>>
      /\ c \in Conns /\ c \notin Listeners
  BY StreamAssumption DEF EventsRegister, ListenerEvents, EventsRefused, StreamEnds, EventsSnapshot,
     StreamInitial, StreamRelay, Conns
<1>2. CASE c # d
  <2>1. pc'[c] = pc[c] /\ chan'[c] = chan[c] /\ initial'[c] = initial[c]
    BY <1>1, <1>2, AtStreams DEF EventsRegister, ListenerEvents, EventsRefused, StreamEnds,
       EventsSnapshot, StreamInitial, StreamRelay, Register, Unsubscribe, WriteEvent
  <2> QED
    BY <1>1, <2>1 DEF Told, HasTerminal, isTerminal
<1>3. CASE c = d
  <2>1. CASE EventsRegister(c) \/ ListenerEvents(c) \/ EventsRefused(c) \/ StreamEnds(c)
    <3>1. pc'[c] \in {"registered", "ended"}
      BY <1>1, <2>1, AtStreams DEF EventsRegister, ListenerEvents, EventsRefused, StreamEnds,
         Register
    <3> QED
      BY <3>1 DEF Told
  <2>2. CASE EventsSnapshot(c)
    <3>1. initial'[c] = row' /\ (row' = row \/ row' = Last)
      BY <1>1, <2>2, AtStreams DEF EventsSnapshot, Settle
    <3>2. reached = Last => row = Last
      BY AtStreams DEF PipeInv, RowInv
    <3> QED
      BY <1>1, <3>1, <3>2 DEF Told
  <2>3. CASE StreamInitial(c)
    <3>1. pc[c] = "read"
      BY <2>3 DEF StreamInitial
    <3>2. CASE isTerminal(VerificationEvent(initial[c]))
      <4>1. pc'[c] = "ended"
        BY <1>1, <2>3, <3>2, AtStreams DEF StreamInitial, WriteEvent
      <4> QED
        BY <4>1 DEF Told
    <3>3. CASE ~isTerminal(VerificationEvent(initial[c]))
      <4>1. initial' = initial /\ chan'[c] = chan[c]
        BY <1>1, <2>3, <3>3, AtStreams DEF StreamInitial, WriteEvent
      <4> QED
        BY <1>1, <3>1, <4>1 DEF Told, HasTerminal, isTerminal
    <3> QED
      BY <3>2, <3>3
  <2>4. CASE StreamRelay(c)
    <3>1. pc[c] = "open" /\ chan[c] \in Seq(Event) /\ chan[c] # << >>
      BY <1>1, <2>4, AtStreams DEF StreamRelay
    <3>2. CASE isTerminal(Head(chan[c]))
      <4>1. pc'[c] = "ended"
        BY <1>1, <2>4, <3>2, AtStreams DEF StreamRelay, WriteEvent
      <4> QED
        BY <4>1 DEF Told
    <3>3. CASE ~isTerminal(Head(chan[c]))
      <4>1. initial' = initial /\ chan'[c] = Tail(chan[c])
        BY <1>1, <2>4, <3>3, AtStreams DEF StreamRelay, WriteEvent
      <4>2. HasTerminal(chan[c]) => HasTerminal(chan'[c])
        BY <3>1, <3>3, <4>1, HeldTail
      <4> QED
        BY <1>1, <3>1, <4>1, <4>2 DEF Told, HasTerminal, isTerminal
    <3> QED
      BY <3>2, <3>3
  <2> QED
    BY <1>3, <2>1, <2>2, <2>3, <2>4
<1> QED
  BY <1>2, <1>3

(***************************************************************************)
(* The invariant of the streams                                            *)
(***************************************************************************)
LEMMA StreamsInit == StreamInit => StreamInv
<1> SUFFICES ASSUME StreamInit PROVE StreamInv
  OBVIOUS
<1>1. /\ << >> \in Seq(Event) /\ << >> \in Seq(Versions) /\ Len(<< >>) = 0
      /\ 0 \in Versions /\ 0 \in 0 .. MaxPerUser /\ 0 \in 0 .. MaxNotices /\ 0 <= Buffer
  BY StreamAssumption DEF Versions
<1>2. Idle.event = CaseEvent /\ Idle.to = {} /\ Idle \in [event: Event, to: SUBSET Conns]
  BY EventFields DEF Idle
<1>3. /\ chan \in [Conns -> Seq(Event)] /\ seen \in [Conns -> Seq(Versions)]
      /\ pc \in [Conns -> {"new", "registered", "read", "open", "ended"}]
      /\ initial \in [Conns -> Versions] /\ perUser \in [Users -> 0 .. MaxPerUser]
      /\ \A c \in Conns : chan[c] = << >> /\ seen[c] = << >> /\ pc[c] = "new"
  BY <1>1 DEF StreamInit
<1>4. StreamTypes
  BY <1>1, <1>2, <1>3 DEF StreamInit, StreamTypes, StreamTypeOK
<1>5. SlotInv
  <2>1. Held = {}
    BY <1>3 DEF Held
  <2>2. \A u \in Users : {c \in Held : UserOf[c] = u} = {}
    BY <2>1
  <2>3. IsFiniteSet({}) /\ Cardinality({}) = 0
    BY FS_EmptySet
  <2> QED
    BY <2>1, <2>2, <2>3 DEF SlotInv, SlotsReturned, StreamInit
<1>6. PipeInv
  <2>1. WireInv /\ FanInv /\ RowInv
    BY <1>1, <1>2, EventFields DEF StreamInit, WireInv, FanInv, RowInv
  <2>2. \A c \in Watchers : ChanOK(c) /\ SeenOK(c) /\ OrderOK(c)
    BY <1>1, <1>3 DEF ChanOK, SeenOK, OrderOK, Conns
  <2> QED
    BY <2>1, <2>2, OrderOfAll DEF PipeInv
<1>7. CompletionNotMissed
  BY <1>3 DEF CompletionNotMissed, Conns
<1> QED
  BY <1>4, <1>5, <1>6, <1>7 DEF StreamInv

LEMMA StreamsSame ==
    ASSUME StreamInv, UNCHANGED streamVars
    PROVE  StreamInv'
BY DEF streamVars, StreamInv, StreamTypes, StreamTypeOK, SlotInv, SlotsReturned, Held,
   PipeInv, RowInv, WireInv, FanInv, ChanOK, SeenOK, Passed, Old, SeenInOrder,
   CompletionNotMissed, Delivered, Coming, OfVerification, isTerminal, ScopeKey

LEMMA StreamsNext == ProcessInv /\ StreamInv /\ [Next]_vars => StreamInv'
<1> SUFFICES ASSUME ProcessInv, StreamInv, [Next]_vars PROVE StreamInv'
  OBVIOUS
<1>0. ASSUME StreamTypes', SlotInv', PipeInv', \A c \in Watchers : Told(c) => Told(c)'
      PROVE  StreamInv'
  <2>1. CompletionNotMissed'
    BY <1>0, ToldAll, ToldAllNext DEF StreamInv
  <2> QED
    BY <1>0, <2>1 DEF StreamInv
<1>1. CASE \/ Start \/ StopRequested \/ ShutdownTimeout \/ HTTPShutdown \/ AwaitReader \/ Close
           \/ UNCHANGED vars
  BY <1>1, StartStep, RunStep, StreamsSame DEF vars
<1>2. CASE \/ WorkerStep \/ LookupStep \/ ReaderStarts \/ WorkerShutdown \/ ReaderStops
  BY <1>0, <1>2, PublisherStep, ToldByPublishers DEF WorkerStep, LookupStep, Publishers
<1>3. CASE ManagerStep
  BY <1>0, <1>3, ReceiveStep, DispatchStep, ToldByReceive, ToldByDispatch DEF ManagerStep
<1>4. ASSUME NEW d \in Conns, Accept(d) \/ HandlerStep(d) \/ HandlerEnds(d)
      PROVE  StreamInv'
  <2>1. CASE EventsRegister(d) \/ ListenerEvents(d)
    BY <1>0, <2>1, RegisterStep, ToldByHandlers
  <2>2. CASE EventsRefused(d) \/ StreamEnds(d)
    BY <1>0, <2>2, LeaveStep, ToldByHandlers
  <2>3. CASE EventsSnapshot(d) \/ StreamInitial(d) \/ StreamRelay(d)
    BY <1>0, <2>3, SnapshotStep, InitialStep, RelayStep, ToldByHandlers
  <2> QED
    BY <1>4, <2>1, <2>2, <2>3 DEF Accept, HandlerStep, HandlerEnds, Handle
<1> QED
  BY <1>1, <1>2, <1>3, <1>4 DEF Next, Stop, Finished

LEMMA ServerInvariant == Spec => []ServerInv
<1>1. Init => ServerInv
  BY ProcessInit0, StreamsInit DEF Init, ServerInv
<1>2. ServerInv /\ [Next]_vars => ServerInv'
  BY ProcessNext, StreamsNext DEF ServerInv
<1> QED
  BY <1>1, <1>2, PTL DEF Spec

\* Manager.Register and the unsubscribe of each way out of a handler: a user's
\* count is at any time the number of streams he has open, so that nobody is
\* refused for streams that are gone.
THEOREM EverySlotIsReturned == Spec => [](TypeOK /\ SlotsReturned)
<1>1. ServerInv => TypeOK /\ SlotsReturned
  BY DEF ServerInv, ProcessInv, StreamInv, StreamTypes, SlotInv, TypeOK
<1> QED
  BY <1>1, ServerInvariant, PTL

\* Stream: behind its snapshot a client sees the versions of a verification
\* in their order, each once, and nothing behind the terminal one, whatever
\* is dropped or lost on the way.
THEOREM WatchersSeeOrder == Spec => []SeenInOrder
<1>1. ServerInv => SeenInOrder
  BY DEF ServerInv, StreamInv, PipeInv
<1> QED
  BY <1>1, ServerInvariant, PTL

\* handlers/audit Events registers before it reads: whoever is streaming when
\* the worker has committed the end of a verification has a terminal snapshot,
\* or the event is on its way to him, whether or not a reader has failed the
\* row before; the exceptions are a lost event, a full buffer and a stopped
\* process.  It says nothing of a row that only a reader has settled.
THEOREM CompletionReachesWatchers == Spec => []CompletionNotMissed
<1>1. ServerInv => CompletionNotMissed
  BY DEF ServerInv, StreamInv
<1> QED
  BY <1>1, ServerInvariant, PTL

(***************************************************************************)
(* Requests: sequences of steps                                            *)
(* A chain of routes.go is a sequence of steps (Services, Routes) that the *)
(* request pipeline takes one by one.  Nothing is said of their lengths:   *)
(* what follows needs only that they are sequences, in any set.            *)
(***************************************************************************)
\* A sequence, of whatever elements.
IsSeq(q) == \E S : q \in Seq(S)

\* Two sequences are sequences in one set, and so is the one followed by the other.
LEMMA JoinIsSeq ==
    ASSUME NEW a, NEW b, IsSeq(a), IsSeq(b)
    PROVE  \E S : a \in Seq(S) /\ b \in Seq(S) /\ a \o b \in Seq(S)
<1>1. PICK A : a \in Seq(A)
  BY DEF IsSeq
<1>2. PICK B : b \in Seq(B)
  BY DEF IsSeq
<1>3. a \in Seq(A \cup B) /\ b \in Seq(A \cup B)
  BY <1>1, <1>2, ElementOfSeq, SeqDef
<1>4. a \o b \in Seq(A \cup B)
  BY <1>3
<1> QED
  BY <1>3, <1>4

\* Joining sequences is associative, whatever their elements.
LEMMA JoinAssociates ==
    ASSUME NEW a, NEW b, NEW c, IsSeq(a), IsSeq(b), IsSeq(c)
    PROVE  (a \o b) \o c = a \o (b \o c)
<1>1. PICK S : a \in Seq(S) /\ b \in Seq(S) /\ a \o b \in Seq(S)
  BY JoinIsSeq
<1>2. PICK T : c \in Seq(T) /\ a \o b \in Seq(T)
  BY <1>1, JoinIsSeq DEF IsSeq
<1>3. /\ a \in Seq(S \cup T) /\ b \in Seq(S \cup T) /\ c \in Seq(S \cup T)
  BY <1>1, <1>2, SeqDef
<1> QED
  BY <1>3

\* A step put before a sequence is its head, and the sequence its tail.
LEMMA StepFirst ==
    ASSUME NEW step, NEW q, IsSeq(q)
    PROVE  /\ IsSeq(<<step>> \o q) /\ <<step>> \o q # << >>
           /\ Head(<<step>> \o q) = step /\ Tail(<<step>> \o q) = q
<1>0. <<step>> \in Seq({step})
  OBVIOUS
<1>1. PICK S : <<step>> \in Seq(S) /\ q \in Seq(S) /\ <<step>> \o q \in Seq(S)
  BY <1>0, JoinIsSeq DEF IsSeq
<1>2. step \in S
  BY <1>1
<1> QED
  BY <1>1, <1>2 DEF IsSeq

\* A single step is a sequence that begins with it.
LEMMA OneStep ==
    ASSUME NEW step
    PROVE  IsSeq(<<step>>) /\ <<step>> # << >> /\ Head(<<step>>) = step
<1>1. <<step>> \in Seq({step})
  OBVIOUS
<1>2. <<step>> # << >> /\ Head(<<step>>) = step
  OBVIOUS
<1> QED
  BY <1>1, <1>2 DEF IsSeq

\* The empty sequence before another leaves it as it is.
LEMMA NothingFirst ==
    ASSUME NEW q, IsSeq(q)
    PROVE  << >> \o q = q
  BY DEF IsSeq

(***************************************************************************)
(* Requests: sequences that record what they commit                        *)
(* Whether a handler records every change it makes is a question about all *)
(* the ways through its steps.  The proof answers it without an induction  *)
(* on their length: a sequence is careful when it lies in SOME set C, with *)
(* companions K and T, in which every member says what its first step is   *)
(* and that the rest lies in one of them again.  K holds the sequences     *)
(* that follow the commit of a change: they must reach Record before       *)
(* anything that may end the request.  T holds those behind a touched      *)
(* column: they may end it, but by a refusal.                              *)
(***************************************************************************)
\* The kinds of step that commit nothing: behind them a sequence goes on as before,
\* if they do not end the request.
Passing == {"check", "admin", "identity", "permission", "allowed", "related", "read", "row",
            "nested", "list", "object", "queue", "throttle", "reset", "record"}

\* Nothing is unrecorded in front of q: it may end the request or note a refusal and end
\* it; what follows a commit is in K or in T.
CarefulIn(q, C, K, T) ==
    /\ IsSeq(q) /\ q # << >>
    /\ \/ Head(q).do \in {"answer", "note"}
       \/ Head(q).do \in Passing /\ Tail(q) \in C
       \/ Head(q).do \in {"write", "writeRow"} /\ Tail(q) \in K
       \/ Head(q).do = "touch" /\ Tail(q) \in T
       \/ /\ Head(q).do = "either"
          /\ Head(q).of[1] \o Tail(q) \in C /\ Head(q).of[2] \o Tail(q) \in C

\* A change is unrecorded in front of q: no step ends the request before Record, so a
\* read or a write may only be one that has no answer of its own.
CoveredIn(q, C, K) ==
    /\ IsSeq(q) /\ q # << >>
    /\ \/ Head(q).do = "record" /\ Tail(q) \in C
       \/ Head(q).do \in {"read", "write"} /\ Head(q).or = {} /\ Tail(q) \in K
       \/ Head(q).do \in {"object", "queue", "reset"} /\ Tail(q) \in K
       \/ /\ Head(q).do = "either"
          /\ Head(q).of[1] \o Tail(q) \in K /\ Head(q).of[2] \o Tail(q) \in K

\* None of these answers is a success.
Refused(or) == or \cap (200 .. 299) = {}

\* A touched column is unrecorded in front of q: until a change is committed, what follows
\* may refuse.
TouchedIn(q, K, T) ==
    /\ IsSeq(q) /\ q # << >>
    /\ \/ Head(q).do = "check" /\ Refused(Head(q).or) /\ Tail(q) \in T
       \/ Head(q).do \in {"object", "queue", "reset"} /\ Tail(q) \in T
       \/ Head(q).do = "write" /\ Refused(Head(q).or) /\ Tail(q) \in K

\* The sets contain, with a sequence, what follows its first step.
Honest(C, K, T) ==
    /\ \A q \in C : CarefulIn(q, C, K, T)
    /\ \A q \in K : CoveredIn(q, C, K) /\ q \in C
    /\ \A q \in T : TouchedIn(q, K, T) /\ q \in C

\* Every way through q records each change it commits.
Careful(q) == \E C, K, T : Honest(C, K, T) /\ q \in C
\* Every way through q first records the change that is still unrecorded, then is careful.
Covered(q) == \E C, K, T : Honest(C, K, T) /\ q \in K
\* Every way through q refuses, or commits a change and records it, and the touched column
\* with it.
Touched(q) == \E C, K, T : Honest(C, K, T) /\ q \in T

(***************************************************************************)
(* Requests: how the parts of a chain compose                              *)
(* Kinds of part, by what may come before and behind them: one that        *)
(* records all it changes, one that ends with an unrecorded change, one    *)
(* that goes on between a change and its record, one that records it; one  *)
(* that ends with a touched column, one that goes on behind it, one that   *)
(* commits a change behind it.  The services of the model are put together *)
(* from steps with \o and Either, so each proof below is that of a typing  *)
(* rule.                                                                   *)
(***************************************************************************)
\* a keeps a careful sequence careful.
Balanced(a) == IsSeq(a) /\ \A q : Careful(q) => Careful(a \o q)
\* a may leave a change unrecorded, which the sequence behind it must cover.
Opens(a) == IsSeq(a) /\ \A q : Covered(q) => Careful(a \o q)
\* a neither records nor ends the request: what is covered behind it is covered.
Stays(a) == IsSeq(a) /\ \A q : Covered(q) => Covered(a \o q)
\* a records the change that is open, and behind it comes a careful sequence.
Closes(a) == IsSeq(a) /\ \A q : Careful(q) => Covered(a \o q)
\* a may leave a column touched, behind which a sequence may only refuse or go on to a change.
Touches(a) == IsSeq(a) /\ \A q : Touched(q) => Careful(a \o q)
\* a may refuse, and goes on behind the touched column.
Endures(a) == IsSeq(a) /\ \A q : Touched(q) => Touched(a \o q)
\* a commits a change behind the touched column.
Reopens(a) == IsSeq(a) /\ \A q : Covered(q) => Touched(a \o q)

\* Two such triples of sets make another.
LEMMA HonestUnion ==
    ASSUME NEW C, NEW K, NEW T, NEW D, NEW L, NEW U, Honest(C, K, T), Honest(D, L, U)
    PROVE  Honest(C \cup D, K \cup L, T \cup U)
<1>1. ASSUME NEW q \in C \cup D PROVE CarefulIn(q, C \cup D, K \cup L, T \cup U)
  <2>1. CarefulIn(q, C, K, T) \/ CarefulIn(q, D, L, U)
    BY <1>1 DEF Honest
  <2> QED
    BY <2>1 DEF CarefulIn
<1>2. ASSUME NEW q \in K \cup L PROVE CoveredIn(q, C \cup D, K \cup L) /\ q \in C \cup D
  <2>1. (CoveredIn(q, C, K) \/ CoveredIn(q, D, L)) /\ q \in C \cup D
    BY <1>2 DEF Honest
  <2> QED
    BY <2>1 DEF CoveredIn
<1>3. ASSUME NEW q \in T \cup U PROVE TouchedIn(q, K \cup L, T \cup U) /\ q \in C \cup D
  <2>1. (TouchedIn(q, K, T) \/ TouchedIn(q, L, U)) /\ q \in C \cup D
    BY <1>3 DEF Honest
  <2> QED
    BY <2>1 DEF TouchedIn
<1> QED
  BY <1>1, <1>2, <1>3 DEF Honest

\* Before a covering sequence nothing has to be open, nor before one that may follow a touched
\* column; and a careful sequence is not empty: no handler ends without an answer.
LEMMA CoveredIsCareful ==
    ASSUME NEW q
    PROVE  /\ Covered(q) \/ Touched(q) => Careful(q)
           /\ Careful(q) => IsSeq(q) /\ q # << >>
  BY DEF Covered, Touched, Careful, Honest, CarefulIn

\* What Careful says of the first step, without the sets.
CarefulFirst(q) ==
    \/ Head(q).do \in {"answer", "note"}
    \/ Head(q).do \in Passing /\ Careful(Tail(q))
    \/ Head(q).do \in {"write", "writeRow"} /\ Covered(Tail(q))
    \/ Head(q).do = "touch" /\ Touched(Tail(q))
    \/ /\ Head(q).do = "either"
       /\ Careful(Head(q).of[1] \o Tail(q)) /\ Careful(Head(q).of[2] \o Tail(q))

\* What Covered says of the first step, without the sets.
CoveredFirst(q) ==
    \/ Head(q).do = "record" /\ Careful(Tail(q))
    \/ Head(q).do \in {"read", "write"} /\ Head(q).or = {} /\ Covered(Tail(q))
    \/ Head(q).do \in {"object", "queue", "reset"} /\ Covered(Tail(q))
    \/ /\ Head(q).do = "either"
       /\ Covered(Head(q).of[1] \o Tail(q)) /\ Covered(Head(q).of[2] \o Tail(q))

\* What Touched says of the first step, without the sets.
TouchedFirst(q) ==
    \/ Head(q).do = "check" /\ Refused(Head(q).or) /\ Touched(Tail(q))
    \/ Head(q).do \in {"object", "queue", "reset"} /\ Touched(Tail(q))
    \/ Head(q).do = "write" /\ Refused(Head(q).or) /\ Covered(Tail(q))

\* A careful, covering or touched sequence, its first step taken.
LEMMA Unfolds ==
    ASSUME NEW q
    PROVE  /\ Careful(q) => CarefulFirst(q)
           /\ Covered(q) => CoveredFirst(q)
           /\ Touched(q) => TouchedFirst(q)
<1>1. ASSUME Careful(q) PROVE CarefulFirst(q)
  <2>1. PICK C, K, T : Honest(C, K, T) /\ q \in C
    BY <1>1 DEF Careful
  <2>2. /\ CarefulIn(q, C, K, T)
        /\ \A p \in C : Careful(p)
        /\ \A p \in K : Covered(p)
        /\ \A p \in T : Touched(p)
    BY <2>1 DEF Honest, Careful, Covered, Touched
  <2> QED
    BY <2>2 DEF CarefulIn, CarefulFirst
<1>2. ASSUME Covered(q) PROVE CoveredFirst(q)
  <2>1. PICK C, K, T : Honest(C, K, T) /\ q \in K
    BY <1>2 DEF Covered
  <2>2. /\ CoveredIn(q, C, K)
        /\ \A p \in C : Careful(p)
        /\ \A p \in K : Covered(p)
    BY <2>1 DEF Honest, Careful, Covered
  <2> QED
    BY <2>2 DEF CoveredIn, CoveredFirst
<1>3. ASSUME Touched(q) PROVE TouchedFirst(q)
  <2>1. PICK C, K, T : Honest(C, K, T) /\ q \in T
    BY <1>3 DEF Touched
  <2>2. /\ TouchedIn(q, K, T)
        /\ \A p \in K : Covered(p)
        /\ \A p \in T : Touched(p)
    BY <2>1 DEF Honest, Covered, Touched
  <2> QED
    BY <2>2 DEF TouchedIn, TouchedFirst
<1> QED
  BY <1>1, <1>2, <1>3

\* Both branches of an Either find common sets.
LEMMA Together ==
    ASSUME NEW p, NEW q
    PROVE  /\ Careful(p) /\ Careful(q)
              => \E C, K, T : Honest(C, K, T) /\ p \in C /\ q \in C
           /\ Covered(p) /\ Covered(q)
              => \E C, K, T : Honest(C, K, T) /\ p \in K /\ q \in K
<1>1. ASSUME Careful(p), Careful(q)
      PROVE  \E C, K, T : Honest(C, K, T) /\ p \in C /\ q \in C
  <2>1. PICK C, K, T : Honest(C, K, T) /\ p \in C
    BY <1>1 DEF Careful
  <2>2. PICK D, L, U : Honest(D, L, U) /\ q \in D
    BY <1>1 DEF Careful
  <2> QED
    BY <2>1, <2>2, HonestUnion, p \in C \cup D, q \in C \cup D
<1>2. ASSUME Covered(p), Covered(q)
      PROVE  \E C, K, T : Honest(C, K, T) /\ p \in K /\ q \in K
  <2>1. PICK C, K, T : Honest(C, K, T) /\ p \in K
    BY <1>2 DEF Covered
  <2>2. PICK D, L, U : Honest(D, L, U) /\ q \in L
    BY <1>2 DEF Covered
  <2> QED
    BY <2>1, <2>2, HonestUnion, p \in K \cup L, q \in K \cup L
<1> QED
  BY <1>1, <1>2

\* A sequence whose first step leads into C, K or T is careful.
LEMMA GrowsCareful ==
    ASSUME NEW C, NEW K, NEW T, NEW q, Honest(C, K, T), CarefulIn(q, C, K, T)
    PROVE  Careful(q)
<1>1. Honest(C \cup {q}, K, T)
  BY DEF Honest, CarefulIn, CoveredIn
<1> QED
  BY <1>1, q \in C \cup {q} DEF Careful

\* A sequence whose first step leads into K, or by Record into C, is covering.
LEMMA GrowsCovered ==
    ASSUME NEW C, NEW K, NEW T, NEW q, Honest(C, K, T), CoveredIn(q, C, K)
    PROVE  Covered(q)
<1>1. CarefulIn(q, C, K \cup {q}, T)
  BY DEF Honest, CarefulIn, CoveredIn, Passing
<1>2. Honest(C \cup {q}, K \cup {q}, T)
  BY <1>1 DEF Honest, CarefulIn, CoveredIn, TouchedIn
<1> QED
  BY <1>2, q \in K \cup {q} DEF Covered

\* A sequence whose first step refuses or leads into T, or commits and leads into K, may
\* follow a touched column.
LEMMA GrowsTouched ==
    ASSUME NEW C, NEW K, NEW T, NEW q, Honest(C, K, T), TouchedIn(q, K, T)
    PROVE  Touched(q)
<1>1. CarefulIn(q, C, K, T \cup {q})
  BY DEF Honest, CarefulIn, TouchedIn, Passing
<1>2. Honest(C \cup {q}, K, T \cup {q})
  BY <1>1 DEF Honest, CarefulIn, CoveredIn, TouchedIn
<1> QED
  BY <1>2, q \in T \cup {q} DEF Touched

\* The converse of Unfolds: care is decided by the first step and the rest.
LEMMA FoldsCareful ==
    ASSUME NEW q, IsSeq(q), q # << >>, CarefulFirst(q)
    PROVE  Careful(q)
<1>1. CASE Head(q).do \in {"answer", "note"}
  <2>1. Honest({q}, {}, {})
    BY <1>1 DEF Honest, CarefulIn
  <2> QED
    BY <2>1 DEF Careful
<1>2. CASE Head(q).do \in Passing /\ Careful(Tail(q))
  <2>1. PICK C, K, T : Honest(C, K, T) /\ Tail(q) \in C
    BY <1>2 DEF Careful
  <2>2. CarefulIn(q, C, K, T)
    BY <1>2, <2>1 DEF CarefulIn
  <2> QED
    BY <2>1, <2>2, GrowsCareful
<1>3. CASE Head(q).do \in {"write", "writeRow"} /\ Covered(Tail(q))
  <2>1. PICK C, K, T : Honest(C, K, T) /\ Tail(q) \in K
    BY <1>3 DEF Covered
  <2>2. CarefulIn(q, C, K, T)
    BY <1>3, <2>1 DEF CarefulIn
  <2> QED
    BY <2>1, <2>2, GrowsCareful
<1>4. CASE Head(q).do = "touch" /\ Touched(Tail(q))
  <2>1. PICK C, K, T : Honest(C, K, T) /\ Tail(q) \in T
    BY <1>4 DEF Touched
  <2>2. CarefulIn(q, C, K, T)
    BY <1>4, <2>1 DEF CarefulIn
  <2> QED
    BY <2>1, <2>2, GrowsCareful
<1>5. CASE /\ Head(q).do = "either"
           /\ Careful(Head(q).of[1] \o Tail(q)) /\ Careful(Head(q).of[2] \o Tail(q))
  <2>1. PICK C, K, T : /\ Honest(C, K, T)
                       /\ Head(q).of[1] \o Tail(q) \in C /\ Head(q).of[2] \o Tail(q) \in C
    BY <1>5, Together
  <2>2. CarefulIn(q, C, K, T)
    BY <1>5, <2>1 DEF CarefulIn
  <2> QED
    BY <2>1, <2>2, GrowsCareful
<1> QED
  BY <1>1, <1>2, <1>3, <1>4, <1>5 DEF CarefulFirst

\* The converse of Unfolds for covering sequences.
LEMMA FoldsCovered ==
    ASSUME NEW q, IsSeq(q), q # << >>, CoveredFirst(q)
    PROVE  Covered(q)
<1>1. CASE Head(q).do = "record" /\ Careful(Tail(q))
  <2>1. PICK C, K, T : Honest(C, K, T) /\ Tail(q) \in C
    BY <1>1 DEF Careful
  <2>2. CoveredIn(q, C, K)
    BY <1>1, <2>1 DEF CoveredIn
  <2> QED
    BY <2>1, <2>2, GrowsCovered
<1>2. CASE /\ \/ Head(q).do \in {"read", "write"} /\ Head(q).or = {}
              \/ Head(q).do \in {"object", "queue", "reset"}
           /\ Covered(Tail(q))
  <2>1. PICK C, K, T : Honest(C, K, T) /\ Tail(q) \in K
    BY <1>2 DEF Covered
  <2>2. CoveredIn(q, C, K)
    BY <1>2, <2>1 DEF CoveredIn
  <2> QED
    BY <2>1, <2>2, GrowsCovered
<1>3. CASE /\ Head(q).do = "either"
           /\ Covered(Head(q).of[1] \o Tail(q)) /\ Covered(Head(q).of[2] \o Tail(q))
  <2>1. PICK C, K, T : /\ Honest(C, K, T)
                       /\ Head(q).of[1] \o Tail(q) \in K /\ Head(q).of[2] \o Tail(q) \in K
    BY <1>3, Together
  <2>2. CoveredIn(q, C, K)
    BY <1>3, <2>1 DEF CoveredIn
  <2> QED
    BY <2>1, <2>2, GrowsCovered
<1> QED
  BY <1>1, <1>2, <1>3 DEF CoveredFirst

\* The converse of Unfolds for sequences behind a touched column.
LEMMA FoldsTouched ==
    ASSUME NEW q, IsSeq(q), q # << >>, TouchedFirst(q)
    PROVE  Touched(q)
<1>1. CASE /\ \/ Head(q).do = "check" /\ Refused(Head(q).or)
              \/ Head(q).do \in {"object", "queue", "reset"}
           /\ Touched(Tail(q))
  <2>1. PICK C, K, T : Honest(C, K, T) /\ Tail(q) \in T
    BY <1>1 DEF Touched
  <2>2. TouchedIn(q, K, T)
    BY <1>1, <2>1 DEF TouchedIn
  <2> QED
    BY <2>1, <2>2, GrowsTouched
<1>2. CASE Head(q).do = "write" /\ Refused(Head(q).or) /\ Covered(Tail(q))
  <2>1. PICK C, K, T : Honest(C, K, T) /\ Tail(q) \in K
    BY <1>2 DEF Covered
  <2>2. TouchedIn(q, K, T)
    BY <1>2, <2>1 DEF TouchedIn
  <2> QED
    BY <2>1, <2>2, GrowsTouched
<1> QED
  BY <1>1, <1>2 DEF TouchedFirst

\* What one step is, by its kind: a transaction that commits opens a change, Record closes
\* it, the rest neither opens nor closes.
LEMMA StepsPass ==
    ASSUME NEW kind, NEW what, NEW ors, NEW failure
    PROVE  /\ kind \in Passing \cup {"answer", "note"} => Balanced(Step(kind, what, ors, failure))
           /\ kind \in {"write", "writeRow"} => Opens(Step(kind, what, ors, failure))
           /\ kind = "record" => Closes(Step(kind, what, ors, failure))
           /\ kind \in {"read", "write"} /\ ors = {} => Stays(Step(kind, what, ors, failure))
           /\ kind \in {"object", "queue", "reset"} => Stays(Step(kind, what, ors, failure))
           /\ kind = "touch" => Touches(Step(kind, what, ors, failure))
           /\ kind = "check" /\ Refused(ors) => Endures(Step(kind, what, ors, failure))
           /\ kind \in {"object", "queue", "reset"} => Endures(Step(kind, what, ors, failure))
           /\ kind = "write" /\ Refused(ors) => Reopens(Step(kind, what, ors, failure))
<1> DEFINE step == [do |-> kind, of |-> what, or |-> ors, fails |-> failure]
<1>1. IsSeq(Step(kind, what, ors, failure))
  <2>1. <<step>> \in Seq({step})
    OBVIOUS
  <2> QED
    BY <2>1 DEF IsSeq, Step
<1>2. ASSUME NEW q, Careful(q) \/ Covered(q) \/ Touched(q)
      PROVE  LET p == Step(kind, what, ors, failure) \o q
             IN  /\ IsSeq(p) /\ p # << >> /\ Tail(p) = q
                 /\ Head(p).do = kind /\ Head(p).or = ors
  <2>1. IsSeq(q)
    BY <1>2, CoveredIsCareful
  <2>2. Step(kind, what, ors, failure) = <<step>>
    BY DEF Step
  <2>3. step.do = kind /\ step.or = ors
    OBVIOUS
  <2> HIDE DEF step
  <2> QED
    BY <2>1, <2>2, <2>3, StepFirst
<1>3. ASSUME kind \in Passing \cup {"answer", "note"}
      PROVE  Balanced(Step(kind, what, ors, failure))
  <2>1. ASSUME NEW q, Careful(q) PROVE Careful(Step(kind, what, ors, failure) \o q)
    BY <1>2, <1>3, <2>1, FoldsCareful DEF CarefulFirst
  <2> QED
    BY <1>1, <2>1 DEF Balanced
<1>4. ASSUME kind \in {"write", "writeRow"} PROVE Opens(Step(kind, what, ors, failure))
  <2>1. ASSUME NEW q, Covered(q) PROVE Careful(Step(kind, what, ors, failure) \o q)
    BY <1>2, <1>4, <2>1, FoldsCareful DEF CarefulFirst
  <2> QED
    BY <1>1, <2>1 DEF Opens
<1>5. ASSUME kind = "record" PROVE Closes(Step(kind, what, ors, failure))
  <2>1. ASSUME NEW q, Careful(q) PROVE Covered(Step(kind, what, ors, failure) \o q)
    BY <1>2, <1>5, <2>1, FoldsCovered DEF CoveredFirst
  <2> QED
    BY <1>1, <2>1 DEF Closes
<1>6. ASSUME \/ kind \in {"read", "write"} /\ ors = {}
             \/ kind \in {"object", "queue", "reset"}
      PROVE  Stays(Step(kind, what, ors, failure))
  <2>1. ASSUME NEW q, Covered(q) PROVE Covered(Step(kind, what, ors, failure) \o q)
    BY <1>2, <1>6, <2>1, FoldsCovered DEF CoveredFirst
  <2> QED
    BY <1>1, <2>1 DEF Stays
<1>7. ASSUME kind = "touch" PROVE Touches(Step(kind, what, ors, failure))
  <2>1. ASSUME NEW q, Touched(q) PROVE Careful(Step(kind, what, ors, failure) \o q)
    BY <1>2, <1>7, <2>1, FoldsCareful DEF CarefulFirst
  <2> QED
    BY <1>1, <2>1 DEF Touches
<1>8. ASSUME (kind = "check" /\ Refused(ors)) \/ kind \in {"object", "queue", "reset"}
      PROVE  Endures(Step(kind, what, ors, failure))
  <2>1. ASSUME NEW q, Touched(q) PROVE Touched(Step(kind, what, ors, failure) \o q)
    BY <1>2, <1>8, <2>1, FoldsTouched DEF TouchedFirst
  <2> QED
    BY <1>1, <2>1 DEF Endures
<1>9. ASSUME kind = "write", Refused(ors) PROVE Reopens(Step(kind, what, ors, failure))
  <2>1. ASSUME NEW q, Covered(q) PROVE Touched(Step(kind, what, ors, failure) \o q)
    BY <1>2, <1>9, <2>1, FoldsTouched DEF TouchedFirst
  <2> QED
    BY <1>1, <2>1 DEF Reopens
<1> QED
  BY <1>3, <1>4, <1>5, <1>6, <1>7, <1>8, <1>9

\* The answer of a handler, and the audit row in front of a noted refusal.
LEMMA AnswerIsCareful ==
    ASSUME NEW status
    PROVE  Careful(Answer(status)) /\ Covered(Record \o Answer(status))
<1> DEFINE step == [do |-> "answer", of |-> Nothing, or |-> {status}, fails |-> GoesOn]
<1>1. IsSeq(Answer(status)) /\ Answer(status) # << >> /\ Head(Answer(status)).do = "answer"
  <2>1. Answer(status) = <<step>> /\ step.do = "answer"
    BY DEF Answer, Step
  <2> HIDE DEF step
  <2> QED
    BY <2>1, OneStep
<1>2. Careful(Answer(status))
  BY <1>1, FoldsCareful DEF CarefulFirst, IsSeq
<1> QED
  BY <1>2, StepsPass DEF Closes, Record

\* A branch is what both of its arms are.
LEMMA EitherPasses ==
    ASSUME NEW a, NEW b
    PROVE  /\ Balanced(a) /\ Balanced(b) => Balanced(Either(a, b))
           /\ (Opens(a) \/ Balanced(a)) /\ (Opens(b) \/ Balanced(b)) => Opens(Either(a, b))
           /\ Stays(a) /\ Stays(b) => Stays(Either(a, b))
           /\ (Touches(a) \/ Balanced(a)) /\ Touches(b) => Touches(Either(a, b))
<1> DEFINE step == [do |-> "either", of |-> <<a, b>>, or |-> {}, fails |-> GoesOn]
<1>1. IsSeq(Either(a, b))
  <2>1. <<step>> \in Seq({step})
    OBVIOUS
  <2> QED
    BY <2>1 DEF IsSeq, Either, Step
<1>2. ASSUME NEW q, Careful(q) \/ Covered(q) \/ Touched(q)
      PROVE  LET p == Either(a, b) \o q
             IN  /\ IsSeq(p) /\ p # << >> /\ Tail(p) = q
                 /\ Head(p).do = "either" /\ Head(p).of[1] = a /\ Head(p).of[2] = b
  <2>1. IsSeq(q)
    BY <1>2, CoveredIsCareful
  <2>2. Either(a, b) = <<step>>
    BY DEF Either, Step
  <2>3. step.do = "either" /\ step.of[1] = a /\ step.of[2] = b
    OBVIOUS
  <2> HIDE DEF step
  <2> QED
    BY <2>1, <2>2, <2>3, StepFirst
<1>3. ASSUME Balanced(a), Balanced(b) PROVE Balanced(Either(a, b))
  <2>1. ASSUME NEW q, Careful(q) PROVE Careful(Either(a, b) \o q)
    BY <1>2, <1>3, <2>1, FoldsCareful DEF CarefulFirst, Balanced
  <2> QED
    BY <1>1, <2>1 DEF Balanced
<1>4. ASSUME Opens(a) \/ Balanced(a), Opens(b) \/ Balanced(b) PROVE Opens(Either(a, b))
  <2>1. ASSUME NEW q, Covered(q) PROVE Careful(Either(a, b) \o q)
    <3>1. Careful(a \o q) /\ Careful(b \o q)
      BY <1>4, <2>1, CoveredIsCareful DEF Opens, Balanced
    <3> QED
      BY <1>2, <2>1, <3>1, FoldsCareful DEF CarefulFirst
  <2> QED
    BY <1>1, <2>1 DEF Opens
<1>5. ASSUME Stays(a), Stays(b) PROVE Stays(Either(a, b))
  <2>1. ASSUME NEW q, Covered(q) PROVE Covered(Either(a, b) \o q)
    BY <1>2, <1>5, <2>1, FoldsCovered DEF CoveredFirst, Stays
  <2> QED
    BY <1>1, <2>1 DEF Stays
<1>6. ASSUME Touches(a) \/ Balanced(a), Touches(b) PROVE Touches(Either(a, b))
  <2>1. ASSUME NEW q, Touched(q) PROVE Careful(Either(a, b) \o q)
    <3>1. Careful(a \o q) /\ Careful(b \o q)
      BY <1>6, <2>1, CoveredIsCareful DEF Touches, Balanced
    <3> QED
      BY <1>2, <2>1, <3>1, FoldsCareful DEF CarefulFirst
  <2> QED
    BY <1>1, <2>1 DEF Touches
<1> QED
  BY <1>3, <1>4, <1>5, <1>6

\* The arm of a branch that does nothing.
LEMMA NothingPasses == Balanced(<< >>) /\ Stays(<< >>)
<1>1. << >> \in Seq({})
  OBVIOUS
<1> QED
  BY <1>1, CoveredIsCareful, NothingFirst DEF Balanced, Stays, IsSeq

\* Two parts of a chain before a third.
LEMMA Regroups ==
    ASSUME NEW a, NEW b, IsSeq(a), IsSeq(b)
    PROVE  /\ IsSeq(a \o b)
           /\ \A q : IsSeq(q) => (a \o b) \o q = a \o (b \o q)
<1>1. IsSeq(a \o b)
  BY JoinIsSeq DEF IsSeq
<1>2. ASSUME NEW q, IsSeq(q) PROVE (a \o b) \o q = a \o (b \o q)
  BY <1>2, JoinAssociates
<1> QED
  BY <1>1, <1>2

\* The rules by which a service is what its parts are: each is the call of one function
\* behind another in the Go code.
LEMMA Composes ==
    /\ \A a, b : Balanced(a) /\ Balanced(b) => Balanced(a \o b)
    /\ \A a, b : Opens(a) /\ Closes(b) => Balanced(a \o b)
    /\ \A a, b : Balanced(a) /\ Opens(b) => Opens(a \o b)
    /\ \A a, b : Opens(a) /\ Stays(b) => Opens(a \o b)
    /\ \A a, b : Stays(a) /\ Stays(b) => Stays(a \o b)
    /\ \A a, b : Stays(a) /\ Closes(b) => Closes(a \o b)
    /\ \A a, b : Closes(a) /\ Balanced(b) => Closes(a \o b)
    /\ \A a, b : Balanced(a) /\ Careful(b) => Careful(a \o b)
    /\ \A a, b : Balanced(a) /\ Touches(b) => Touches(a \o b)
    /\ \A a, b : Touches(a) /\ Endures(b) => Touches(a \o b)
    /\ \A a, b : Touches(a) /\ Reopens(b) => Opens(a \o b)
    /\ \A a, b : Endures(a) /\ Reopens(b) => Reopens(a \o b)
<1>1. ASSUME NEW a, NEW b, Balanced(a), Balanced(b) PROVE Balanced(a \o b)
  <2>1. IsSeq(a \o b) /\ \A q : IsSeq(q) => (a \o b) \o q = a \o (b \o q)
    BY <1>1, Regroups DEF Balanced
  <2>2. ASSUME NEW q, Careful(q) PROVE Careful((a \o b) \o q)
    <3>1. Careful(a \o (b \o q))
      BY <1>1, <2>2 DEF Balanced
    <3>2. IsSeq(q)
      BY <2>2, CoveredIsCareful
    <3> QED
      BY <2>1, <3>1, <3>2
  <2> QED
    BY <2>1, <2>2 DEF Balanced
<1>2. ASSUME NEW a, NEW b, Opens(a), Closes(b) PROVE Balanced(a \o b)
  <2>1. IsSeq(a \o b) /\ \A q : IsSeq(q) => (a \o b) \o q = a \o (b \o q)
    BY <1>2, Regroups DEF Opens, Closes
  <2>2. ASSUME NEW q, Careful(q) PROVE Careful((a \o b) \o q)
    <3>1. Careful(a \o (b \o q))
      BY <1>2, <2>2 DEF Opens, Closes
    <3>2. IsSeq(q)
      BY <2>2, CoveredIsCareful
    <3> QED
      BY <2>1, <3>1, <3>2
  <2> QED
    BY <2>1, <2>2 DEF Balanced
<1>3. ASSUME NEW a, NEW b, Balanced(a), Opens(b) PROVE Opens(a \o b)
  <2>1. IsSeq(a \o b) /\ \A q : IsSeq(q) => (a \o b) \o q = a \o (b \o q)
    BY <1>3, Regroups DEF Balanced, Opens
  <2>2. ASSUME NEW q, Covered(q) PROVE Careful((a \o b) \o q)
    <3>1. Careful(a \o (b \o q))
      BY <1>3, <2>2 DEF Balanced, Opens
    <3>2. IsSeq(q)
      BY <2>2, CoveredIsCareful
    <3> QED
      BY <2>1, <3>1, <3>2
  <2> QED
    BY <2>1, <2>2 DEF Opens
<1>4. ASSUME NEW a, NEW b, Opens(a), Stays(b) PROVE Opens(a \o b)
  <2>1. IsSeq(a \o b) /\ \A q : IsSeq(q) => (a \o b) \o q = a \o (b \o q)
    BY <1>4, Regroups DEF Opens, Stays
  <2>2. ASSUME NEW q, Covered(q) PROVE Careful((a \o b) \o q)
    <3>1. Careful(a \o (b \o q))
      BY <1>4, <2>2 DEF Opens, Stays
    <3>2. IsSeq(q)
      BY <2>2, CoveredIsCareful
    <3> QED
      BY <2>1, <3>1, <3>2
  <2> QED
    BY <2>1, <2>2 DEF Opens
<1>5. ASSUME NEW a, NEW b, Stays(a), Stays(b) PROVE Stays(a \o b)
  <2>1. IsSeq(a \o b) /\ \A q : IsSeq(q) => (a \o b) \o q = a \o (b \o q)
    BY <1>5, Regroups DEF Stays
  <2>2. ASSUME NEW q, Covered(q) PROVE Covered((a \o b) \o q)
    <3>1. Covered(a \o (b \o q))
      BY <1>5, <2>2 DEF Stays
    <3>2. IsSeq(q)
      BY <2>2, CoveredIsCareful
    <3> QED
      BY <2>1, <3>1, <3>2
  <2> QED
    BY <2>1, <2>2 DEF Stays
<1>6. ASSUME NEW a, NEW b, Stays(a), Closes(b) PROVE Closes(a \o b)
  <2>1. IsSeq(a \o b) /\ \A q : IsSeq(q) => (a \o b) \o q = a \o (b \o q)
    BY <1>6, Regroups DEF Stays, Closes
  <2>2. ASSUME NEW q, Careful(q) PROVE Covered((a \o b) \o q)
    <3>1. Covered(a \o (b \o q))
      BY <1>6, <2>2 DEF Stays, Closes
    <3>2. IsSeq(q)
      BY <2>2, CoveredIsCareful
    <3> QED
      BY <2>1, <3>1, <3>2
  <2> QED
    BY <2>1, <2>2 DEF Closes
<1>7. ASSUME NEW a, NEW b, Closes(a), Balanced(b) PROVE Closes(a \o b)
  <2>1. IsSeq(a \o b) /\ \A q : IsSeq(q) => (a \o b) \o q = a \o (b \o q)
    BY <1>7, Regroups DEF Closes, Balanced
  <2>2. ASSUME NEW q, Careful(q) PROVE Covered((a \o b) \o q)
    <3>1. Covered(a \o (b \o q))
      BY <1>7, <2>2 DEF Closes, Balanced
    <3>2. IsSeq(q)
      BY <2>2, CoveredIsCareful
    <3> QED
      BY <2>1, <3>1, <3>2
  <2> QED
    BY <2>1, <2>2 DEF Closes
<1>8. \A a, b : Balanced(a) /\ Careful(b) => Careful(a \o b)
  BY DEF Balanced
<1>9. ASSUME NEW a, NEW b, Balanced(a), Touches(b) PROVE Touches(a \o b)
  <2>1. IsSeq(a \o b) /\ \A q : IsSeq(q) => (a \o b) \o q = a \o (b \o q)
    BY <1>9, Regroups DEF Balanced, Touches
  <2>2. ASSUME NEW q, Touched(q) PROVE Careful((a \o b) \o q)
    <3>1. Careful(a \o (b \o q))
      BY <1>9, <2>2 DEF Balanced, Touches
    <3>2. IsSeq(q)
      BY <2>2, CoveredIsCareful
    <3> QED
      BY <2>1, <3>1, <3>2
  <2> QED
    BY <2>1, <2>2 DEF Touches
<1>10. ASSUME NEW a, NEW b, Touches(a), Endures(b) PROVE Touches(a \o b)
  <2>1. IsSeq(a \o b) /\ \A q : IsSeq(q) => (a \o b) \o q = a \o (b \o q)
    BY <1>10, Regroups DEF Touches, Endures
  <2>2. ASSUME NEW q, Touched(q) PROVE Careful((a \o b) \o q)
    <3>1. Careful(a \o (b \o q))
      BY <1>10, <2>2 DEF Touches, Endures
    <3>2. IsSeq(q)
      BY <2>2, CoveredIsCareful
    <3> QED
      BY <2>1, <3>1, <3>2
  <2> QED
    BY <2>1, <2>2 DEF Touches
<1>11. ASSUME NEW a, NEW b, Touches(a), Reopens(b) PROVE Opens(a \o b)
  <2>1. IsSeq(a \o b) /\ \A q : IsSeq(q) => (a \o b) \o q = a \o (b \o q)
    BY <1>11, Regroups DEF Touches, Reopens
  <2>2. ASSUME NEW q, Covered(q) PROVE Careful((a \o b) \o q)
    <3>1. Careful(a \o (b \o q))
      BY <1>11, <2>2 DEF Touches, Reopens
    <3>2. IsSeq(q)
      BY <2>2, CoveredIsCareful
    <3> QED
      BY <2>1, <3>1, <3>2
  <2> QED
    BY <2>1, <2>2 DEF Opens
<1>12. ASSUME NEW a, NEW b, Endures(a), Reopens(b) PROVE Reopens(a \o b)
  <2>1. IsSeq(a \o b) /\ \A q : IsSeq(q) => (a \o b) \o q = a \o (b \o q)
    BY <1>12, Regroups DEF Endures, Reopens
  <2>2. ASSUME NEW q, Covered(q) PROVE Touched((a \o b) \o q)
    <3>1. Touched(a \o (b \o q))
      BY <1>12, <2>2 DEF Endures, Reopens
    <3>2. IsSeq(q)
      BY <2>2, CoveredIsCareful
    <3> QED
      BY <2>1, <3>1, <3>2
  <2> QED
    BY <2>1, <2>2 DEF Reopens
<1> QED
  BY <1>1, <1>2, <1>3, <1>4, <1>5, <1>6, <1>7, <1>8, <1>9, <1>10, <1>11, <1>12

\* The steps from which Services builds every service, with their kinds.
LEMMA ElementsPass ==
    /\ \A x : Balanced(Check(x)) /\ Balanced(NotedCheck(x)) /\ Balanced(Read(x))
    /\ \A x : Balanced(Row(x)) /\ Balanced(List(x)) /\ Balanced(HasPermission(x))
    /\ \A x : Balanced(Object(x)) /\ Balanced(Enqueue(x)) /\ Balanced(Throttle(x))
    /\ \A x : Balanced(Answer(x)) /\ Careful(Answer(x))
    /\ \A x, y : Balanced(CanAccess(x, y))
    /\ \A x, y : Opens(Write(x)) /\ Opens(WriteRow(x, y))
    /\ \A x : Stays(Object(x)) /\ Stays(Enqueue(x))
    /\ Stays(Read({})) /\ Stays(Write({})) /\ Closes(Record) /\ Balanced(Record)
    /\ Balanced(ResolveIdentity) /\ Balanced(<< >>) /\ Stays(<< >>)
    /\ Balanced(Tolerated(Read({}))) /\ Stays(Tolerated(Read({})))
    /\ Opens(Tolerated(Write({})))
    /\ Touches(Touch) /\ Touches(Either(<< >>, Touch)) /\ Reopens(Write({}))
    /\ Endures(Check({500})) /\ Endures(Check({400, 422, 500})) /\ \A x : Endures(Object(x))
<1>1. \A x : Balanced(Check(x)) /\ Balanced(NotedCheck(x)) /\ Balanced(Read(x))
  BY StepsPass, EitherPasses, NothingPasses DEF Check, NotedCheck, Read, Passing
<1>2. \A x : Balanced(Row(x)) /\ Balanced(List(x)) /\ Balanced(HasPermission(x))
  BY StepsPass DEF Row, List, HasPermission, Passing
<1>3. \A x : Balanced(Object(x)) /\ Balanced(Enqueue(x)) /\ Balanced(Throttle(x))
  BY StepsPass DEF Object, Enqueue, Throttle, Passing
<1>4. \A x : Balanced(Answer(x)) /\ Careful(Answer(x))
  BY StepsPass, AnswerIsCareful DEF Answer
<1>5. \A x, y : Balanced(CanAccess(x, y))
  BY StepsPass, Composes DEF CanAccess, Passing
<1>6. \A x, y : Opens(Write(x)) /\ Opens(WriteRow(x, y))
  BY StepsPass DEF Write, WriteRow
<1>7. \A x : Stays(Object(x)) /\ Stays(Enqueue(x))
  BY StepsPass DEF Object, Enqueue
<1>8. Stays(Read({})) /\ Stays(Write({})) /\ Closes(Record) /\ Balanced(Record)
  BY StepsPass DEF Read, Write, Record, Passing
<1>9. Balanced(ResolveIdentity) /\ Balanced(<< >>) /\ Stays(<< >>)
  BY StepsPass, NothingPasses DEF ResolveIdentity, Passing
<1>10. \A do, of, or, fails : Tolerated(Step(do, of, or, fails)) = Step(do, of, or, GoesOn)
  BY DEF Tolerated, Step
<1>11. Balanced(Tolerated(Read({}))) /\ Stays(Tolerated(Read({})))
  BY <1>10, StepsPass DEF Read, Passing
<1>12. Opens(Tolerated(Write({})))
  BY <1>10, StepsPass DEF Write
<1>13. Touches(Touch) /\ Touches(Either(<< >>, Touch))
  BY StepsPass, EitherPasses, NothingPasses DEF Touch
<1>14. /\ Reopens(Write({}))
       /\ Endures(Check({500})) /\ Endures(Check({400, 422, 500})) /\ \A x : Endures(Object(x))
  <2>1. Refused({}) /\ Refused({500}) /\ Refused({400, 422, 500})
    BY DEF Refused
  <2> QED
    BY <2>1, StepsPass DEF Write, Check, Object
<1> QED
  BY <1>1, <1>2, <1>3, <1>4, <1>5, <1>6, <1>7, <1>8, <1>9, <1>11, <1>12, <1>13, <1>14

(***************************************************************************)
(* Requests: the services and handlers of the program, one by one          *)
(***************************************************************************)
\* auth_service.go: Login, Refresh, Logout and the theft of a token record what they commit.
LEMMA AuthServiceIsBalanced ==
    /\ Balanced(checkLoginRateLimit)
    /\ Stays(Step("reset", "account", {}, GoesOn))
    /\ Opens(issueSession) /\ Reopens(issueSession)
    /\ Balanced(Login)
    /\ Balanced(ReuseDetected)
    /\ Balanced(Refresh)
    /\ Balanced(Logout)
<1>1. Balanced(checkLoginRateLimit)
  BY ElementsPass, Composes DEF checkLoginRateLimit
<1>2. Stays(Step("reset", "account", {}, GoesOn))
  BY ElementsPass, StepsPass
<1>3. Opens(issueSession) /\ Reopens(issueSession)
  BY ElementsPass, Composes DEF issueSession
<1>4. Balanced(Login)
  BY ElementsPass, Composes, <1>1, <1>2, <1>3 DEF Login
<1>5. Balanced(ReuseDetected)
  BY ElementsPass, Composes DEF ReuseDetected
<1>6. Balanced(Refresh)
  BY ElementsPass, Composes, EitherPasses, <1>3, <1>5 DEF Refresh
<1>7. Balanced(Logout)
  BY ElementsPass, Composes, EitherPasses DEF Logout
<1> QED
  BY <1>1, <1>2, <1>3, <1>4, <1>5, <1>6, <1>7

\* case_service.go: every operation on cases and members records what it commits.
LEMMA CaseServiceIsBalanced ==
    /\ Balanced(CreateCase) /\ Balanced(ListCases)
    /\ Balanced(loadCaseDetail) /\ Balanced(GetCase)
    /\ Balanced(UpdateCase)
    /\ Balanced(AddMember)
    /\ Balanced(RemoveMember)
    /\ Balanced(ListCaseMembers)
<1>1. Balanced(CreateCase) /\ Balanced(ListCases)
  BY ElementsPass, Composes DEF CreateCase, ListCases
<1>2. Balanced(loadCaseDetail) /\ Balanced(GetCase)
  BY ElementsPass, Composes DEF loadCaseDetail, GetCase, CanAccessCase
<1>3. Balanced(UpdateCase)
  BY ElementsPass, Composes, <1>2 DEF UpdateCase, CanAccessCase
<1>4. Balanced(AddMember)
  BY ElementsPass, Composes DEF AddMember, CanAccessCase
<1>5. Balanced(RemoveMember)
  BY ElementsPass, Composes DEF RemoveMember, CanAccessCase
<1>6. Balanced(ListCaseMembers)
  BY ElementsPass, Composes DEF ListCaseMembers, CanAccessCase
<1> QED
  BY <1>1, <1>2, <1>3, <1>4, <1>5, <1>6

\* blockchain_anchor_service.go: the anchor row and the reconciled tamper status are followed
\* by their audit event.
LEMMA LedgerServiceIsBalanced ==
    /\ \A done : Balanced(CreateAnchorForDocument(done))
    /\ Balanced(GetAnchorStatus) /\ Balanced(GetAnchorProvenance)
    /\ Opens(reconcileTamperStatus)
    /\ Balanced(VerifyRequested)
    /\ Opens(StoredFile) /\ Balanced(CandidateFile)
    /\ Balanced(LedgerVerdict) /\ Closes(LedgerVerdict)
    /\ Balanced(VerifyDocumentBlockchain) /\ Balanced(VerifyCandidate)
<1>1. \A done : Balanced(CreateAnchorForDocument(done))
  BY ElementsPass, Composes, EitherPasses, StepsPass DEF CreateAnchorForDocument
<1>2. Balanced(GetAnchorStatus) /\ Balanced(GetAnchorProvenance)
  BY ElementsPass, Composes DEF GetAnchorStatus, GetAnchorProvenance, CanAccessDocument
<1>3. Opens(reconcileTamperStatus)
  BY ElementsPass, EitherPasses DEF reconcileTamperStatus
<1>4. Balanced(VerifyRequested)
  BY ElementsPass, Composes DEF VerifyRequested, CanAccessDocument
<1>5. Opens(StoredFile) /\ Balanced(CandidateFile)
  BY ElementsPass, Composes, EitherPasses DEF StoredFile, CandidateFile
<1>6. Balanced(LedgerVerdict) /\ Closes(LedgerVerdict)
  BY ElementsPass, Composes DEF LedgerVerdict
<1>7. Balanced(VerifyDocumentBlockchain) /\ Balanced(VerifyCandidate)
  BY ElementsPass, Composes, <1>4, <1>5, <1>6 DEF VerifyDocumentBlockchain, VerifyCandidate
<1> QED
  BY <1>1, <1>2, <1>3, <1>4, <1>5, <1>6, <1>7

\* document_service.go, document_redact.go, document_share.go, export_service.go,
\* certificate_service.go and watermark_service.go record what they change; a redaction and a
\* certificate may only leave the status of a document that matches again behind a refusal.
LEMMA DocumentServiceIsBalanced ==
    /\ Balanced(UploadDocument)
    /\ Balanced(DownloadDocument)
    /\ Balanced(VerifyDocument)
    /\ Touches(MatchRequired)
    /\ Touches(RedactionSource) /\ Balanced(RedactDocument)
    /\ Balanced(CreateShare) /\ Balanced(ListShares)
    /\ Balanced(RevokeShare)
    /\ Balanced(ListSharedWithMe) /\ Balanced(SearchRecipients)
    /\ Balanced(generateCertificate) /\ Balanced(GetOrCreateCertificate)
    /\ Balanced(RequestExport)
    /\ Balanced(DownloadEvidenceExport) /\ Balanced(VerifyWatermark)
<1>1. Balanced(UploadDocument)
  BY ElementsPass, Composes, LedgerServiceIsBalanced DEF UploadDocument, CanAccessCase
<1>2. Balanced(DownloadDocument)
  BY ElementsPass, Composes DEF DownloadDocument, CanAccessDocument
<1>3. Balanced(VerifyDocument)
  BY ElementsPass, Composes, LedgerServiceIsBalanced DEF VerifyDocument, CanAccessDocument
<1>11. Touches(MatchRequired)
  BY ElementsPass, Composes, EitherPasses, LedgerServiceIsBalanced DEF MatchRequired
<1>4. Touches(RedactionSource) /\ Balanced(RedactDocument)
  BY ElementsPass, Composes, <1>11 DEF RedactionSource, RedactDocument, CanAccessDocument
<1>5. Balanced(CreateShare) /\ Balanced(ListShares)
  BY ElementsPass, Composes DEF CreateShare, ListShares, validateRecipient, CanAccessDocument
<1>6. Balanced(RevokeShare)
  BY ElementsPass, Composes DEF RevokeShare, CanAccessDocument
<1>7. Balanced(ListSharedWithMe) /\ Balanced(SearchRecipients)
  BY ElementsPass, Composes DEF ListSharedWithMe, SearchRecipients
<1>8. Balanced(generateCertificate) /\ Balanced(GetOrCreateCertificate)
  BY ElementsPass, Composes, EitherPasses, <1>11
     DEF generateCertificate, GetOrCreateCertificate, CanAccessDocument
<1>9. Balanced(RequestExport)
  BY ElementsPass, Composes, LedgerServiceIsBalanced DEF RequestExport, CanAccessDocument
<1>10. Balanced(DownloadEvidenceExport) /\ Balanced(VerifyWatermark)
  BY ElementsPass, Composes DEF DownloadEvidenceExport, VerifyWatermark
<1> QED
  BY <1>1, <1>2, <1>3, <1>4, <1>5, <1>6, <1>7, <1>8, <1>9, <1>10, <1>11

\* user_service.go and audit_service.go record what they commit.
LEMMA UserAndAuditServicesAreBalanced ==
    /\ Balanced(loadUserSummary) /\ Balanced(CreateUser)
    /\ Balanced(ListUsers) /\ Balanced(GetUser) /\ Balanced(GetOwnProfile)
    /\ Balanced(UpdateUser)
    /\ Balanced(CanModifyUserRole) /\ Balanced(UpdateRole)
    /\ Balanced(UpdateStatus)
    /\ Balanced(ResetPassword) /\ Balanced(ListRoles)
    /\ Balanced(ListAudit)
    /\ Balanced(StartVerification)
    /\ Balanced(GetVerification) /\ Balanced(ListVerifications) /\ Balanced(GetIntegritySummary)
<1>1. Balanced(loadUserSummary) /\ Balanced(CreateUser)
  BY ElementsPass, Composes DEF loadUserSummary, CreateUser
<1>2. Balanced(ListUsers) /\ Balanced(GetUser) /\ Balanced(GetOwnProfile)
  BY ElementsPass, Composes, <1>1 DEF ListUsers, GetUser, GetOwnProfile
<1>3. Balanced(UpdateUser)
  BY ElementsPass, Composes DEF UpdateUser
<1>4. Balanced(CanModifyUserRole) /\ Balanced(UpdateRole)
  BY ElementsPass, Composes, StepsPass, <1>1 DEF CanModifyUserRole, UpdateRole, Passing
<1>5. Balanced(UpdateStatus)
  BY ElementsPass, Composes, <1>1 DEF UpdateStatus
<1>6. Balanced(ResetPassword) /\ Balanced(ListRoles)
  BY ElementsPass, Composes DEF ResetPassword, ListRoles
<1>7. Balanced(ListAudit)
  BY ElementsPass, Composes DEF ListAudit
<1>8. Balanced(StartVerification)
  BY ElementsPass, Composes, EitherPasses DEF StartVerification
<1>9. Balanced(GetVerification) /\ Balanced(ListVerifications) /\ Balanced(GetIntegritySummary)
  BY ElementsPass, Composes DEF GetVerification, ListVerifications, GetIntegritySummary
<1> QED
  BY <1>1, <1>2, <1>3, <1>4, <1>5, <1>6, <1>7, <1>8, <1>9

\* Every handler of the HTTP layer: binding, the service, its audit event and the answer.
LEMMA HandlersAreCareful ==
    /\ Careful(Liveness) /\ Careful(Readiness) /\ Careful(CORSPreflight)
    /\ Careful(NoRoute) /\ Careful(NoMethod) /\ Careful(LoginHandler)
    /\ Careful(RefreshHandler) /\ Careful(LogoutHandler)
    /\ Careful(CreateCaseHandler) /\ Careful(ListCasesHandler) /\ Careful(GetCaseHandler)
    /\ Careful(UpdateCaseHandler) /\ Careful(ListMembersHandler) /\ Careful(AddMemberHandler)
    /\ Careful(RemoveMemberHandler) /\ Careful(CaseEventsHandler)
    /\ Careful(UploadHandler) /\ Careful(DownloadHandler) /\ Careful(RequestExportHandler)
    /\ Careful(DownloadExportHandler) /\ Careful(VerifyHandler) /\ Careful(CertificateHandler)
    /\ Careful(RedactHandler) /\ Careful(ShareHandler) /\ Careful(ListSharesHandler)
    /\ Careful(RevokeShareHandler) /\ Careful(VerifyWatermarkHandler)
    /\ Careful(SharedWithMeHandler)
    /\ Careful(SearchHandler)
    /\ Careful(BlockchainStatusHandler) /\ Careful(BlockchainProvenanceHandler)
    /\ Careful(BlockchainVerifyHandler)
    /\ Careful(VerifyCandidateHandler)
    /\ Careful(ProfileHandler) /\ Careful(CreateUserHandler) /\ Careful(ListUsersHandler)
    /\ Careful(UserEventsHandler) /\ Careful(GetUserHandler) /\ Careful(UpdateUserHandler)
    /\ Careful(UpdateRoleHandler) /\ Careful(UpdateStatusHandler) /\ Careful(ResetPasswordHandler)
    /\ Careful(ListRolesHandler)
    /\ Careful(StatsHandler) /\ Careful(BlockchainHandler) /\ Careful(JobsHandler)
    /\ Careful(SystemHealthHandler)
    /\ Careful(ListAuditHandler) /\ Careful(VerifyChainHandler) /\ Careful(StatusHandler)
    /\ Careful(AuditEventsHandler) /\ Careful(HistoryHandler) /\ Careful(IntegrityHandler)
<1>1. Careful(Liveness) /\ Careful(Readiness) /\ Careful(CORSPreflight)
  BY ElementsPass, AuthServiceIsBalanced, Composes, StepsPass
     DEF Liveness, Readiness, CORSPreflight, Bind, BindOptional, Multipart, Query, PathID,
         Passing
<1>2. Careful(NoRoute) /\ Careful(NoMethod) /\ Careful(LoginHandler)
  BY ElementsPass, AuthServiceIsBalanced, Composes, StepsPass
     DEF NoRoute, NoMethod, LoginHandler, Bind, BindOptional, Multipart, Query, PathID, Passing
<1>3. Careful(RefreshHandler) /\ Careful(LogoutHandler)
  BY ElementsPass, AuthServiceIsBalanced, Composes, StepsPass
     DEF RefreshHandler, LogoutHandler, Bind, BindOptional, Multipart, Query, PathID, Passing
<1>4. Careful(CreateCaseHandler) /\ Careful(ListCasesHandler) /\ Careful(GetCaseHandler)
  BY ElementsPass, CaseServiceIsBalanced, Composes
     DEF CreateCaseHandler, ListCasesHandler, GetCaseHandler, Bind, BindOptional, Multipart,
         Query, PathID
<1>5. Careful(UpdateCaseHandler) /\ Careful(ListMembersHandler) /\ Careful(AddMemberHandler)
  BY ElementsPass, CaseServiceIsBalanced, Composes
     DEF UpdateCaseHandler, ListMembersHandler, AddMemberHandler, Bind, BindOptional,
         Multipart, Query, PathID
<1>6. Careful(RemoveMemberHandler) /\ Careful(CaseEventsHandler)
  BY ElementsPass, CaseServiceIsBalanced, Composes
     DEF RemoveMemberHandler, CaseEventsHandler, Bind, BindOptional, Multipart, Query, PathID
<1>7. Careful(UploadHandler) /\ Careful(DownloadHandler) /\ Careful(RequestExportHandler)
  BY ElementsPass, DocumentServiceIsBalanced, Composes
     DEF UploadHandler, DownloadHandler, RequestExportHandler, Bind, BindOptional, Multipart,
         Query, PathID
<1>8. Careful(DownloadExportHandler) /\ Careful(VerifyHandler) /\ Careful(CertificateHandler)
  BY ElementsPass, DocumentServiceIsBalanced, Composes
     DEF DownloadExportHandler, VerifyHandler, CertificateHandler, Bind, BindOptional,
         Multipart, Query, PathID
<1>9. Careful(RedactHandler) /\ Careful(ShareHandler) /\ Careful(ListSharesHandler)
  BY ElementsPass, DocumentServiceIsBalanced, Composes
     DEF RedactHandler, ShareHandler, ListSharesHandler, Bind, BindOptional, Multipart, Query,
         PathID
<1>10. /\ Careful(RevokeShareHandler) /\ Careful(VerifyWatermarkHandler)
       /\ Careful(SharedWithMeHandler)
  BY ElementsPass, DocumentServiceIsBalanced, Composes
     DEF RevokeShareHandler, VerifyWatermarkHandler, SharedWithMeHandler, Bind, BindOptional,
         Multipart, Query, PathID
<1>11. Careful(SearchHandler)
  BY ElementsPass, DocumentServiceIsBalanced, Composes
     DEF SearchHandler, Bind, BindOptional, Multipart, Query, PathID
<1>12. /\ Careful(BlockchainStatusHandler) /\ Careful(BlockchainProvenanceHandler)
       /\ Careful(BlockchainVerifyHandler)
  BY ElementsPass, LedgerServiceIsBalanced, Composes, EitherPasses
     DEF BlockchainStatusHandler, BlockchainProvenanceHandler, BlockchainVerifyHandler, Bind,
         BindOptional, Multipart, Query, PathID
<1>13. Careful(VerifyCandidateHandler)
  BY ElementsPass, LedgerServiceIsBalanced, Composes, EitherPasses
     DEF VerifyCandidateHandler, Bind, BindOptional, Multipart, Query, PathID
<1>14. Careful(ProfileHandler) /\ Careful(CreateUserHandler) /\ Careful(ListUsersHandler)
  BY ElementsPass, UserAndAuditServicesAreBalanced, Composes
     DEF ProfileHandler, CreateUserHandler, ListUsersHandler, Bind, BindOptional, Multipart,
         Query, PathID
<1>15. Careful(UserEventsHandler) /\ Careful(GetUserHandler) /\ Careful(UpdateUserHandler)
  BY ElementsPass, UserAndAuditServicesAreBalanced, Composes
     DEF UserEventsHandler, GetUserHandler, UpdateUserHandler, Bind, BindOptional, Multipart,
         Query, PathID
<1>16. Careful(UpdateRoleHandler) /\ Careful(UpdateStatusHandler) /\ Careful(ResetPasswordHandler)
  BY ElementsPass, UserAndAuditServicesAreBalanced, Composes
     DEF UpdateRoleHandler, UpdateStatusHandler, ResetPasswordHandler, Bind, BindOptional,
         Multipart, Query, PathID
<1>17. Careful(ListRolesHandler)
  BY ElementsPass, UserAndAuditServicesAreBalanced, Composes
     DEF ListRolesHandler, Bind, BindOptional, Multipart, Query, PathID
<1>18. Careful(StatsHandler) /\ Careful(BlockchainHandler) /\ Careful(JobsHandler)
  BY ElementsPass, Composes, StepsPass
     DEF StatsHandler, BlockchainHandler, JobsHandler, Bind, BindOptional, Multipart, Query,
         PathID, Passing
<1>19. Careful(SystemHealthHandler)
  BY ElementsPass, Composes, StepsPass
     DEF SystemHealthHandler, Bind, BindOptional, Multipart, Query, PathID, Passing
<1>20. Careful(ListAuditHandler) /\ Careful(VerifyChainHandler) /\ Careful(StatusHandler)
  BY ElementsPass, UserAndAuditServicesAreBalanced, Composes
     DEF ListAuditHandler, VerifyChainHandler, StatusHandler, Bind, BindOptional, Multipart,
         Query, PathID
<1>21. Careful(AuditEventsHandler) /\ Careful(HistoryHandler) /\ Careful(IntegrityHandler)
  BY ElementsPass, UserAndAuditServicesAreBalanced, Composes
     DEF AuditEventsHandler, HistoryHandler, IntegrityHandler, Bind, BindOptional, Multipart,
         Query, PathID
<1> QED
  BY <1>1, <1>2, <1>3, <1>4, <1>5, <1>6, <1>7, <1>8, <1>9, <1>10, <1>11, <1>12, <1>13, <1>14,
     <1>15, <1>16, <1>17, <1>18, <1>19, <1>20, <1>21

\* Every chain of a table of routes records what it commits.
AllCareful(chains) == \A r \in DOMAIN chains : Careful(chains[r])

\* The middleware in front of the handlers commits nothing that it does not record.
LEMMA GatesPass ==
    /\ Balanced(Auth) /\ Balanced(Auth \o RequireAdmin)
    /\ \A action : /\ Balanced(Auth \o RequirePermission(action))
                  /\ Balanced(Auth \o RequireCaseAccess(action))
                  /\ Balanced(Auth \o RequireDocumentAccess(action))
<1>1. Balanced(Auth)
  BY ElementsPass, Composes DEF Auth
<1>2. Balanced(Auth \o RequireAdmin)
  BY <1>1, StepsPass, Composes DEF RequireAdmin, Passing
<1>3. ASSUME NEW action
      PROVE  /\ Balanced(Auth \o RequirePermission(action))
             /\ Balanced(Auth \o RequireCaseAccess(action))
             /\ Balanced(Auth \o RequireDocumentAccess(action))
  <2>1. /\ Balanced(RequirePermission(action)) /\ Balanced(RequireCaseAccess(action))
        /\ Balanced(RequireDocumentAccess(action))
    BY ElementsPass, Composes
       DEF RequirePermission, RequireCaseAccess, RequireDocumentAccess, PathID,
           CanAccessCase, CanAccessDocument
  <2> QED
    BY <1>1, <2>1, Composes
<1> QED
  BY <1>1, <1>2, <1>3

\* A handler behind any of the middleware is still careful.
LEMMA GatedChains ==
    ASSUME NEW h, Careful(h)
    PROVE  /\ Careful(Auth \o h) /\ Careful(Auth \o RequireAdmin \o h)
           /\ \A action : /\ Careful(Auth \o RequirePermission(action) \o h)
                         /\ Careful(Auth \o RequireCaseAccess(action) \o h)
                         /\ Careful(Auth \o RequireDocumentAccess(action) \o h)
  BY GatesPass, Composes

\* Every chain that routes.go registers, middleware and handler, records what it commits.
LEMMA ChainsAreCareful == AllCareful(Routes)
<1>1. AllCareful(ProbeRoutes)
  <2> DEFINE t == ProbeRoutes
  <2>1. /\ Careful(t.Health) /\ Careful(t.Ready) /\ Careful(t.Preflight)
        /\ Careful(t.Unknown) /\ Careful(t.WrongMethod)
    BY HandlersAreCareful, GatedChains DEF ProbeRoutes
  <2>2. DOMAIN t = {"Health", "Ready", "Preflight", "Unknown", "WrongMethod"}
    BY DEF ProbeRoutes
  <2> HIDE DEF t
  <2>3. AllCareful(t)
    BY <2>1, <2>2 DEF AllCareful
  <2> QED
    BY <2>3 DEF t
<1>2. AllCareful(AuthRoutes)
  <2> DEFINE t == AuthRoutes
  <2>1. /\ Careful(t.Login) /\ Careful(t.Refresh) /\ Careful(t.Logout)
    BY HandlersAreCareful, GatedChains DEF AuthRoutes
  <2>2. DOMAIN t = {"Login", "Refresh", "Logout"}
    BY DEF AuthRoutes
  <2> HIDE DEF t
  <2>3. AllCareful(t)
    BY <2>1, <2>2 DEF AllCareful
  <2> QED
    BY <2>3 DEF t
<1>3. AllCareful(CaseRoutes)
  <2> DEFINE t == CaseRoutes
  <2>1. /\ Careful(t.CreateCase) /\ Careful(t.ListCases) /\ Careful(t.GetCase)
        /\ Careful(t.UpdateCase) /\ Careful(t.ListMembers) /\ Careful(t.AddMember)
        /\ Careful(t.RemoveMember) /\ Careful(t.CaseEvents) /\ Careful(t.Upload)
    BY HandlersAreCareful, GatedChains DEF CaseRoutes
  <2>2. DOMAIN t = {"CreateCase", "ListCases", "GetCase", "UpdateCase",
                  "ListMembers", "AddMember", "RemoveMember", "CaseEvents",
                  "Upload"}
    BY DEF CaseRoutes
  <2> HIDE DEF t
  <2>3. AllCareful(t)
    BY <2>1, <2>2 DEF AllCareful
  <2> QED
    BY <2>3 DEF t
<1>4. AllCareful(DocumentRoutes)
  <2> DEFINE t == DocumentRoutes
  <2>1. /\ Careful(t.Download) /\ Careful(t.RequestExport) /\ Careful(t.DownloadExport)
        /\ Careful(t.Verify) /\ Careful(t.Certificate) /\ Careful(t.Redact)
        /\ Careful(t.Share) /\ Careful(t.ListShares) /\ Careful(t.RevokeShare)
        /\ Careful(t.SharedWithMe) /\ Careful(t.SearchUsers)
    BY HandlersAreCareful, GatedChains DEF DocumentRoutes
  <2>2. DOMAIN t = {"Download", "RequestExport", "DownloadExport", "Verify",
                  "Certificate", "Redact", "Share", "ListShares", "RevokeShare",
                  "SharedWithMe", "SearchUsers"}
    BY DEF DocumentRoutes
  <2> HIDE DEF t
  <2>3. AllCareful(t)
    BY <2>1, <2>2 DEF AllCareful
  <2> QED
    BY <2>3 DEF t
<1>5. AllCareful(LedgerRoutes)
  <2> DEFINE t == LedgerRoutes
  <2>1. /\ Careful(t.AnchorStatus) /\ Careful(t.AnchorProvenance) /\ Careful(t.VerifyLedger)
        /\ Careful(t.VerifyCandidate)
    BY HandlersAreCareful, GatedChains DEF LedgerRoutes
  <2>2. DOMAIN t = {"AnchorStatus", "AnchorProvenance", "VerifyLedger",
                  "VerifyCandidate"}
    BY DEF LedgerRoutes
  <2> HIDE DEF t
  <2>3. AllCareful(t)
    BY <2>1, <2>2 DEF AllCareful
  <2> QED
    BY <2>3 DEF t
<1>6. AllCareful(UserRoutes)
  <2> DEFINE t == UserRoutes
  <2>1. /\ Careful(t.CreateUser) /\ Careful(t.ListUsers) /\ Careful(t.UserEvents)
        /\ Careful(t.GetUser) /\ Careful(t.UpdateUser) /\ Careful(t.UpdateRole)
        /\ Careful(t.UpdateStatus) /\ Careful(t.ResetPassword) /\ Careful(t.ListRoles)
        /\ Careful(t.Profile)
    BY HandlersAreCareful, GatedChains DEF UserRoutes
  <2>2. DOMAIN t = {"CreateUser", "ListUsers", "UserEvents", "GetUser", "UpdateUser",
                  "UpdateRole", "UpdateStatus", "ResetPassword", "ListRoles",
                  "Profile"}
    BY DEF UserRoutes
  <2> HIDE DEF t
  <2>3. AllCareful(t)
    BY <2>1, <2>2 DEF AllCareful
  <2> QED
    BY <2>3 DEF t
<1>7. AllCareful(MonitoringRoutes)
  <2> DEFINE t == MonitoringRoutes
  <2>1. /\ Careful(t.Stats) /\ Careful(t.SystemHealth) /\ Careful(t.Jobs)
        /\ Careful(t.Blockchain) /\ Careful(t.VerifyWatermark)
    BY HandlersAreCareful, GatedChains DEF MonitoringRoutes
  <2>2. DOMAIN t = {"Stats", "SystemHealth", "Jobs", "Blockchain", "VerifyWatermark"}
    BY DEF MonitoringRoutes
  <2> HIDE DEF t
  <2>3. AllCareful(t)
    BY <2>1, <2>2 DEF AllCareful
  <2> QED
    BY <2>3 DEF t
<1>8. AllCareful(AuditRoutes)
  <2> DEFINE t == AuditRoutes
  <2>1. /\ Careful(t.ListAudit) /\ Careful(t.VerifyChain) /\ Careful(t.RunStatus)
        /\ Careful(t.RunEvents) /\ Careful(t.History) /\ Careful(t.Integrity)
    BY HandlersAreCareful, GatedChains DEF AuditRoutes
  <2>2. DOMAIN t = {"ListAudit", "VerifyChain", "RunStatus", "RunEvents", "History",
                  "Integrity"}
    BY DEF AuditRoutes
  <2> HIDE DEF t
  <2>3. AllCareful(t)
    BY <2>1, <2>2 DEF AllCareful
  <2> QED
    BY <2>3 DEF t
<1>9. ASSUME NEW f, NEW g, AllCareful(f), AllCareful(g) PROVE AllCareful(f ++ g)
  <2>1. ASSUME NEW r \in DOMAIN (f ++ g) PROVE Careful((f ++ g)[r])
    BY <1>9, <2>1 DEF AllCareful, ++
  <2> QED
    BY <2>1 DEF AllCareful
<1> QED
  BY <1>1, <1>2, <1>3, <1>4, <1>5, <1>6, <1>7, <1>8, <1>9
     DEF Routes

(***************************************************************************)
(* Requests: sequences that keep a caller out                              *)
(* The same construction for admission: a sequence keeps a caller out with *)
(* certain answers when it lies in a set each of whose members begins with *)
(* a step that ends the request with one of them, or that goes on inside   *)
(* the set; the steps that the caller cannot pass ("barred") may have      *)
(* anything behind them.                                                   *)
(***************************************************************************)
\* q begins with a step that refuses, or that leaves the caller in C or is barred to him. A
\* noted refusal ("allowed", "related") writes its audit row, then answers.
RefusesIn(q, C, barred, refusals) ==
    /\ IsSeq(q) /\ q # << >>
    /\ \/ Head(q).do = "answer" /\ Head(q).or \subseteq refusals
       \/ Head(q).do = "record" /\ Head(q).fails = GoesOn /\ Tail(q) \in C
       \/ Head(q).do = "check" /\ Head(q).or \subseteq refusals /\ Tail(q) \in C
       \/ /\ Head(q).do = "admin" /\ 403 \in refusals
          /\ Head(q).do \in barred \/ Tail(q) \in C
       \/ /\ Head(q).do \in {"identity", "allowed", "related"}
          /\ Head(q).or \cup {Head(q).fails} \subseteq refusals
          /\ Head(q).do \in barred \/ Tail(q) \in C
       \/ /\ Head(q).do = "row" /\ Head(q).do \in barred
          /\ {403, Head(q).fails} \subseteq refusals

\* C contains what follows the first steps of its members, and every noted refusal.
Refusing(C, barred, refusals) ==
    /\ GoesOn \notin refusals
    /\ \A q \in C : RefusesIn(q, C, barred, refusals)
    /\ \A a \in refusals : Record \o Answer(a) \in C

\* A caller who passes no barred step gets one of these answers from q and no other.
KeepsOut(q, barred, refusals) ==
    \E C : Refusing(C, barred, refusals) /\ q \in C

\* Such a set exists for any answers: the refusals and their audit rows themselves.
LEMMA RefusalsAreRefusing ==
    ASSUME NEW barred, NEW refusals, GoesOn \notin refusals
    PROVE  \E C : Refusing(C, barred, refusals)
<1> DEFINE C == {Answer(a) : a \in refusals} \cup {Record \o Answer(a) : a \in refusals}
<1>1. ASSUME NEW a \in refusals
      PROVE  /\ RefusesIn(Answer(a), C, barred, refusals)
             /\ RefusesIn(Record \o Answer(a), C, barred, refusals)
  <2> DEFINE last == [do |-> "answer", of |-> Nothing, or |-> {a}, fails |-> GoesOn]
             note == [do |-> "record", of |-> Nothing, or |-> {}, fails |-> GoesOn]
  <2>1. last.do = "answer" /\ last.or = {a} /\ note.do = "record" /\ note.fails = GoesOn
    OBVIOUS
  <2>2. Answer(a) = <<last>> /\ Record = <<note>>
    BY DEF Answer, Record, Step
  <2>3. Answer(a) \in C
    OBVIOUS
  <2> HIDE DEF last, note, C
  <2>4. /\ IsSeq(Answer(a)) /\ Answer(a) # << >> /\ Head(Answer(a)) = last
    BY <2>2, OneStep
  <2>5. /\ IsSeq(Record \o Answer(a)) /\ Record \o Answer(a) # << >>
        /\ Head(Record \o Answer(a)) = note /\ Tail(Record \o Answer(a)) = Answer(a)
    BY <2>2, <2>4, StepFirst
  <2> QED
    BY <2>1, <2>3, <2>4, <2>5 DEF RefusesIn
<1>2. ASSUME NEW q \in C PROVE RefusesIn(q, C, barred, refusals)
  <2>1. PICK a \in refusals : q = Answer(a) \/ q = Record \o Answer(a)
    BY <1>2
  <2> QED
    BY <1>1, <2>1
<1>3. \A a \in refusals : Record \o Answer(a) \in C
  OBVIOUS
<1> QED
  BY <1>2, <1>3 DEF Refusing

\* A step in front of a sequence keeps a caller out if he cannot pass it, or if it refuses
\* with these answers only and the sequence keeps him out.
LEMMA KeepsOutFirst ==
    ASSUME NEW step, NEW q, IsSeq(q), NEW barred, NEW refusals, GoesOn \notin refusals,
           \/ /\ step.do = "check" /\ step.or \subseteq refusals
              /\ KeepsOut(q, barred, refusals)
           \/ /\ step.do = "admin" /\ 403 \in refusals
              /\ step.do \in barred \/ KeepsOut(q, barred, refusals)
           \/ /\ step.do \in {"identity", "allowed", "related"}
              /\ step.or \cup {step.fails} \subseteq refusals
              /\ step.do \in barred \/ KeepsOut(q, barred, refusals)
           \/ /\ step.do = "row" /\ step.do \in barred
              /\ {403, step.fails} \subseteq refusals
    PROVE  KeepsOut(<<step>> \o q, barred, refusals)
<1> DEFINE p == <<step>> \o q
<1>1. IsSeq(p) /\ p # << >> /\ Head(p) = step /\ Tail(p) = q
  BY StepFirst
<1> HIDE DEF p
<1>2. PICK C : Refusing(C, barred, refusals) /\ (KeepsOut(q, barred, refusals) => q \in C)
  BY RefusalsAreRefusing DEF KeepsOut
<1>3. RefusesIn(p, C, barred, refusals)
  <2>1. CASE step.do = "check" /\ step.or \subseteq refusals /\ KeepsOut(q, barred, refusals)
    BY <1>1, <1>2, <2>1 DEF RefusesIn
  <2>2. CASE /\ step.do = "admin" /\ 403 \in refusals
             /\ step.do \in barred \/ KeepsOut(q, barred, refusals)
    BY <1>1, <1>2, <2>2 DEF RefusesIn
  <2>3. CASE /\ step.do \in {"identity", "allowed", "related"}
             /\ step.or \cup {step.fails} \subseteq refusals
             /\ step.do \in barred \/ KeepsOut(q, barred, refusals)
    BY <1>1, <1>2, <2>3 DEF RefusesIn
  <2>4. CASE step.do = "row" /\ step.do \in barred /\ {403, step.fails} \subseteq refusals
    BY <1>1, <2>4 DEF RefusesIn
  <2> QED
    BY <2>1, <2>2, <2>3, <2>4
<1>4. Refusing(C \cup {p}, barred, refusals)
  BY <1>2, <1>3 DEF Refusing, RefusesIn
<1> QED
  BY <1>4, p \in C \cup {p} DEF KeepsOut, p

\* What KeepsOut says of the step that comes first, without the set.
KeepsOutNow(q, barred, refusals) ==
    /\ GoesOn \notin refusals
    /\ \/ Head(q).do = "answer" /\ Head(q).or \subseteq refusals
       \/ /\ Head(q).do = "record" /\ Head(q).fails = GoesOn
          /\ KeepsOut(Tail(q), barred, refusals)
       \/ /\ Head(q).do = "check" /\ Head(q).or \subseteq refusals
          /\ KeepsOut(Tail(q), barred, refusals)
       \/ /\ Head(q).do = "admin" /\ 403 \in refusals
          /\ Head(q).do \in barred \/ KeepsOut(Tail(q), barred, refusals)
       \/ /\ Head(q).do \in {"identity", "allowed", "related"}
          /\ Head(q).or \cup {Head(q).fails} \subseteq refusals
          /\ Head(q).do \in barred \/ KeepsOut(Tail(q), barred, refusals)
       \/ /\ Head(q).do = "row" /\ Head(q).do \in barred
          /\ {403, Head(q).fails} \subseteq refusals
    /\ \A a \in refusals : KeepsOut(Record \o Answer(a), barred, refusals)

\* A sequence that keeps a caller out, its first step taken.
LEMMA KeepsOutUnfolds ==
    ASSUME NEW q, NEW barred, NEW refusals, KeepsOut(q, barred, refusals)
    PROVE  KeepsOutNow(q, barred, refusals)
<1>1. PICK C : Refusing(C, barred, refusals) /\ q \in C
  BY DEF KeepsOut
<1>2. \A p \in C : KeepsOut(p, barred, refusals)
  BY <1>1 DEF KeepsOut
<1> QED
  BY <1>1, <1>2 DEF Refusing, RefusesIn, KeepsOutNow

(***************************************************************************)
(* Requests: what keeps whom out of which route                            *)
(***************************************************************************)
\* What a caller without a relation to the case or document may be answered: the export's
\* handler, which has no middleware of its own, also refuses a malformed id with 400.
Refusals(r) == {401, 403, 500} \cup (IF r = "DownloadExport" THEN {400} ELSE {})

\* What routes.go puts in front of route r: the identity for all but the public ones, the
\* role for the administrators', the relation for what is scoped to a case or document.
Gated(r, chain) ==
    /\ r \notin Public => KeepsOut(chain, {"identity"}, {401})
    /\ r \in AdminOnly => KeepsOut(chain, {"admin"}, {401, 403})
    /\ r \in Scoped => KeepsOut(chain, {"related", "row"}, Refusals(r))

\* Every chain of a table of routes has the gates of its route.
AllGated(chains) == \A r \in DOMAIN chains : Gated(r, chains[r])

\* A part of a chain that no barred caller gets beyond, whatever is behind it.
Guards(a, barred, refusals) ==
    IsSeq(a) /\ \A q : IsSeq(q) => KeepsOut(a \o q, barred, refusals)
\* A part of a chain behind which a barred caller may still be stopped: it refuses with the
\* same answers only.
Lets(a, barred, refusals) ==
    IsSeq(a) /\ \A q : KeepsOut(q, barred, refusals) => KeepsOut(a \o q, barred, refusals)

\* A guard stays one with anything behind it and with a passage before it.
LEMMA GuardsCompose ==
    ASSUME NEW a, NEW b, NEW barred, NEW refusals
    PROVE  /\ Guards(a, barred, refusals) /\ IsSeq(b) => Guards(a \o b, barred, refusals)
           /\ Lets(a, barred, refusals) /\ Guards(b, barred, refusals)
              => Guards(a \o b, barred, refusals)
           /\ Lets(a, barred, refusals) /\ Lets(b, barred, refusals)
              => Lets(a \o b, barred, refusals)
<1>1. ASSUME IsSeq(a), IsSeq(b)
      PROVE  IsSeq(a \o b) /\ \A q : IsSeq(q) => /\ (a \o b) \o q = a \o (b \o q)
                                                /\ IsSeq(b \o q)
  BY <1>1, Regroups
<1>2. \A q : KeepsOut(q, barred, refusals) => IsSeq(q)
  BY DEF KeepsOut, Refusing, RefusesIn
<1>3. ASSUME Guards(a, barred, refusals), IsSeq(b) PROVE Guards(a \o b, barred, refusals)
  BY <1>1, <1>3 DEF Guards
<1>4. ASSUME Lets(a, barred, refusals), Guards(b, barred, refusals)
      PROVE  Guards(a \o b, barred, refusals)
  BY <1>1, <1>4 DEF Guards, Lets
<1>5. ASSUME Lets(a, barred, refusals), Lets(b, barred, refusals)
      PROVE  Lets(a \o b, barred, refusals)
  BY <1>1, <1>2, <1>5 DEF Lets
<1> QED
  BY <1>3, <1>4, <1>5

\* Which single steps guard and which only let pass, by their kind.
LEMMA StepsGuard ==
    ASSUME NEW kind, NEW what, NEW ors, NEW failure, NEW barred, NEW refusals,
           GoesOn \notin refusals
    PROVE  LET a == Step(kind, what, ors, failure)
           IN  /\ kind = "check" /\ ors \subseteq refusals => Lets(a, barred, refusals)
               /\ kind \in {"identity", "allowed", "related"}
                  /\ ors \cup {failure} \subseteq refusals
                  => /\ Lets(a, barred, refusals)
                     /\ kind \in barred => Guards(a, barred, refusals)
               /\ kind = "admin" /\ 403 \in refusals /\ kind \in barred
                  => Guards(a, barred, refusals)
               /\ kind = "row" /\ {403, failure} \subseteq refusals /\ kind \in barred
                  => Guards(a, barred, refusals)
<1> DEFINE a == Step(kind, what, ors, failure)
           step == [do |-> kind, of |-> what, or |-> ors, fails |-> failure]
<1>1. a = <<step>> /\ step.do = kind /\ step.or = ors /\ step.fails = failure
  BY DEF Step
<1> HIDE DEF a, step
<1>2. IsSeq(a)
  BY <1>1, OneStep
<1>3. \A q : KeepsOut(q, barred, refusals) => IsSeq(q)
  BY DEF KeepsOut, Refusing, RefusesIn
<1>4. ASSUME kind = "check", ors \subseteq refusals PROVE Lets(a, barred, refusals)
  BY <1>1, <1>2, <1>3, <1>4, KeepsOutFirst DEF Lets
<1>5. ASSUME kind \in {"identity", "allowed", "related"}, ors \cup {failure} \subseteq refusals
      PROVE  Lets(a, barred, refusals)
  BY <1>1, <1>2, <1>3, <1>5, KeepsOutFirst DEF Lets
<1>6. ASSUME kind \in {"identity", "allowed", "related"}, ors \cup {failure} \subseteq refusals,
             kind \in barred
      PROVE  Guards(a, barred, refusals)
  BY <1>1, <1>2, <1>6, KeepsOutFirst DEF Guards
<1>7. ASSUME kind = "admin", 403 \in refusals, kind \in barred
      PROVE  Guards(a, barred, refusals)
  BY <1>1, <1>2, <1>7, KeepsOutFirst DEF Guards
<1>8. ASSUME kind = "row", {403, failure} \subseteq refusals, kind \in barred
      PROVE  Guards(a, barred, refusals)
  BY <1>1, <1>2, <1>8, KeepsOutFirst DEF Guards
<1> QED
  BY <1>4, <1>5, <1>6, <1>7, <1>8 DEF a

\* The middleware: Auth stops a caller without identity, RequireAdmin one without the role,
\* the access policies and the export's own query one without the relation.
LEMMA GatesGuard ==
    /\ Guards(Auth, {"identity"}, {401})
    /\ Guards(Auth \o RequireAdmin, {"admin"}, {401, 403})
    /\ \A action :
         LET barred == {"related", "row"}
             refusals == {401, 403, 500}
         IN  /\ Guards(Auth \o RequireCaseAccess(action), barred, refusals)
             /\ Guards(Auth \o RequireDocumentAccess(action), barred, refusals)
    /\ KeepsOut(Auth \o DownloadExportHandler, {"related", "row"}, {400, 401, 403, 500})
<1>1. Guards(Auth, {"identity"}, {401})
  BY StepsGuard, GuardsCompose DEF Auth, Check, ResolveIdentity, GoesOn
<1>2. ASSUME NEW barred, NEW refusals, 401 \in refusals, GoesOn \notin refusals
      PROVE  Lets(Auth, barred, refusals)
  BY <1>2, StepsGuard, GuardsCompose DEF Auth, Check, ResolveIdentity
<1>3. Guards(Auth \o RequireAdmin, {"admin"}, {401, 403})
  <2>1. Guards(RequireAdmin, {"admin"}, {401, 403})
    BY StepsGuard DEF RequireAdmin, GoesOn
  <2> QED
    BY <1>2, <2>1, GuardsCompose DEF GoesOn
<1>4. ASSUME NEW action
      PROVE  LET barred == {"related", "row"}
                 refusals == {401, 403, 500}
             IN  /\ Guards(Auth \o RequireCaseAccess(action), barred, refusals)
                 /\ Guards(Auth \o RequireDocumentAccess(action), barred, refusals)
  <2> DEFINE barred == {"related", "row"}
             refusals == {401, 403, 500}
  <2>1. /\ GoesOn \notin refusals /\ {401, 403, 500} \subseteq refusals
        /\ "related" \in barred
    BY DEF GoesOn
  <2> HIDE DEF barred, refusals
  <2>2. Lets(PathID(403), barred, refusals)
    BY <2>1, StepsGuard DEF PathID, Check
  <2>3. Guards(CanAccess(action, 403), barred, refusals)
    BY <2>1, StepsGuard, GuardsCompose DEF CanAccess
  <2>4. Lets(Auth, barred, refusals)
    BY <1>2, <2>1
  <2> QED
    BY <2>2, <2>3, <2>4, GuardsCompose
       DEF RequireCaseAccess, RequireDocumentAccess, CanAccessCase, CanAccessDocument,
           barred, refusals
<1>5. KeepsOut(Auth \o DownloadExportHandler, {"related", "row"}, {400, 401, 403, 500})
  <2> DEFINE barred == {"related", "row"}
             refusals == {400, 401, 403, 500}
  <2>1. /\ GoesOn \notin refusals /\ {400, 401, 403, 500} \subseteq refusals
        /\ "row" \in barred
    BY DEF GoesOn
  <2> HIDE DEF barred, refusals
  <2>2. Lets(PathID(400), barred, refusals)
    BY <2>1, StepsGuard DEF PathID, Check
  <2>3. Guards(Row({}), barred, refusals)
    BY <2>1, StepsGuard DEF Row
  <2>4. IsSeq(Check({400})) /\ IsSeq(Object(503)) /\ IsSeq(Record) /\ IsSeq(Answer(200))
    BY ElementsPass DEF Balanced
  <2>5. Guards(DownloadEvidenceExport, barred, refusals)
    BY <2>3, <2>4, GuardsCompose DEF DownloadEvidenceExport
  <2>6. KeepsOut(DownloadExportHandler, barred, refusals)
    <3>1. Guards(PathID(400) \o DownloadEvidenceExport, barred, refusals)
      BY <2>2, <2>5, GuardsCompose
    <3> QED
      BY <2>4, <3>1 DEF DownloadExportHandler, Guards
  <2>7. KeepsOut(Auth \o DownloadExportHandler, barred, refusals)
    BY <1>2, <2>1, <2>6 DEF Lets
  <2> QED
    BY <2>7 DEF barred, refusals
<1> QED
  BY <1>1, <1>3, <1>4, <1>5

\* The shapes that chains of routes.go have, and what they keep out.
LEMMA GatedKinds ==
    ASSUME NEW r, NEW h, IsSeq(h)
    PROVE  /\ r \in Public => \A chain : Gated(r, chain)
           /\ r \notin AdminOnly \cup Scoped =>
                /\ Gated(r, Auth \o h)
                /\ \A action : Gated(r, Auth \o RequirePermission(action) \o h)
           /\ r \in AdminOnly => Gated(r, Auth \o RequireAdmin \o h)
           /\ r \in Scoped \ {"DownloadExport"} =>
                \A action : /\ Gated(r, Auth \o RequireCaseAccess(action) \o h)
                            /\ Gated(r, Auth \o RequireDocumentAccess(action) \o h)
           /\ r = "DownloadExport" => Gated(r, Auth \o DownloadExportHandler)
<1>1. Public \cap AdminOnly = {} /\ Public \cap Scoped = {} /\ AdminOnly \cap Scoped = {}
  BY DEF Public, AdminOnly, Scoped
<1>2. ASSUME NEW g, IsSeq(g) PROVE KeepsOut(Auth \o g \o h, {"identity"}, {401})
  <2>1. Guards(Auth \o g, {"identity"}, {401})
    BY <1>2, GatesGuard, GuardsCompose
  <2> QED
    BY <2>1 DEF Guards
<1>3. KeepsOut(Auth \o h, {"identity"}, {401})
  BY GatesGuard DEF Guards
<1>4. \A action : /\ IsSeq(RequirePermission(action)) /\ IsSeq(RequireCaseAccess(action))
                  /\ IsSeq(RequireDocumentAccess(action))
  BY ElementsPass, Composes
     DEF RequirePermission, RequireCaseAccess, RequireDocumentAccess, PathID, CanAccessCase,
         CanAccessDocument, Balanced
<1>5. IsSeq(RequireAdmin)
  BY OneStep DEF RequireAdmin, Step
<1>6. r \in Public => \A chain : Gated(r, chain)
  BY <1>1 DEF Gated
<1>7. r \notin AdminOnly \cup Scoped =>
        /\ Gated(r, Auth \o h)
        /\ \A action : Gated(r, Auth \o RequirePermission(action) \o h)
  BY <1>2, <1>3, <1>4 DEF Gated
<1>8. r \in AdminOnly => Gated(r, Auth \o RequireAdmin \o h)
  BY <1>1, <1>2, <1>5, GatesGuard DEF Gated, Guards
<1>9. ASSUME r \in Scoped \ {"DownloadExport"}, NEW action
      PROVE  /\ Gated(r, Auth \o RequireCaseAccess(action) \o h)
             /\ Gated(r, Auth \o RequireDocumentAccess(action) \o h)
  <2>1. r \notin AdminOnly /\ Refusals(r) = {401, 403, 500}
    BY <1>1, <1>9 DEF Refusals
  <2> QED
    BY <1>2, <1>4, <2>1, GatesGuard DEF Gated, Guards
<1>10. ASSUME r = "DownloadExport" PROVE Gated(r, Auth \o DownloadExportHandler)
  <2>1. r \notin AdminOnly /\ Refusals(r) = {400, 401, 403, 500}
    BY <1>10 DEF Refusals, AdminOnly
  <2>2. IsSeq(DownloadExportHandler)
    BY HandlersAreCareful, CoveredIsCareful
  <2>3. KeepsOut(Auth \o DownloadExportHandler, {"identity"}, {401})
    BY <2>2, GatesGuard DEF Guards
  <2> QED
    BY <2>1, <2>3, GatesGuard DEF Gated
<1> QED
  BY <1>6, <1>7, <1>8, <1>9, <1>10

\* Every chain that routes.go registers has the gates of its route.
LEMMA ChainsAreGated == AllGated(Routes)
<1>0. \A h : Careful(h) => IsSeq(h)
  BY CoveredIsCareful
<1>1. AllGated(ProbeRoutes)
  <2> DEFINE t == ProbeRoutes
  <2>1. /\ Gated("Health", t.Health) /\ Gated("Ready", t.Ready)
        /\ Gated("Preflight", t.Preflight) /\ Gated("Unknown", t.Unknown)
        /\ Gated("WrongMethod", t.WrongMethod)
    BY <1>0, HandlersAreCareful, GatedKinds
       DEF ProbeRoutes, Public, AdminOnly, Scoped
  <2>2. DOMAIN t = {"Health", "Ready", "Preflight", "Unknown", "WrongMethod"}
    BY DEF ProbeRoutes
  <2> HIDE DEF t
  <2>3. AllGated(t)
    BY <2>1, <2>2 DEF AllGated
  <2> QED
    BY <2>3 DEF t
<1>2. AllGated(AuthRoutes)
  <2> DEFINE t == AuthRoutes
  <2>1. /\ Gated("Login", t.Login) /\ Gated("Refresh", t.Refresh)
        /\ Gated("Logout", t.Logout)
    BY <1>0, HandlersAreCareful, GatedKinds
       DEF AuthRoutes, Public, AdminOnly, Scoped
  <2>2. DOMAIN t = {"Login", "Refresh", "Logout"}
    BY DEF AuthRoutes
  <2> HIDE DEF t
  <2>3. AllGated(t)
    BY <2>1, <2>2 DEF AllGated
  <2> QED
    BY <2>3 DEF t
<1>3. AllGated(CaseRoutes)
  <2> DEFINE t == CaseRoutes
  <2>1. /\ Gated("CreateCase", t.CreateCase) /\ Gated("ListCases", t.ListCases)
        /\ Gated("GetCase", t.GetCase) /\ Gated("UpdateCase", t.UpdateCase)
        /\ Gated("ListMembers", t.ListMembers) /\ Gated("AddMember", t.AddMember)
        /\ Gated("RemoveMember", t.RemoveMember) /\ Gated("CaseEvents", t.CaseEvents)
        /\ Gated("Upload", t.Upload)
    BY <1>0, HandlersAreCareful, GatedKinds
       DEF CaseRoutes, Public, AdminOnly, Scoped
  <2>2. DOMAIN t = {"CreateCase", "ListCases", "GetCase", "UpdateCase",
                  "ListMembers", "AddMember", "RemoveMember", "CaseEvents",
                  "Upload"}
    BY DEF CaseRoutes
  <2> HIDE DEF t
  <2>3. AllGated(t)
    BY <2>1, <2>2 DEF AllGated
  <2> QED
    BY <2>3 DEF t
<1>4. AllGated(DocumentRoutes)
  <2> DEFINE t == DocumentRoutes
  <2>1. /\ Gated("Download", t.Download) /\ Gated("RequestExport", t.RequestExport)
        /\ Gated("Verify", t.Verify) /\ Gated("Certificate", t.Certificate)
        /\ Gated("Redact", t.Redact) /\ Gated("Share", t.Share)
        /\ Gated("ListShares", t.ListShares) /\ Gated("RevokeShare", t.RevokeShare)
        /\ Gated("SharedWithMe", t.SharedWithMe) /\ Gated("SearchUsers", t.SearchUsers)
    BY <1>0, HandlersAreCareful, GatedKinds
       DEF DocumentRoutes, Public, AdminOnly, Scoped
  <2>4. Gated("DownloadExport", t.DownloadExport)
    BY <1>0, HandlersAreCareful, GatedKinds DEF DocumentRoutes
  <2>2. DOMAIN t = {"Download", "RequestExport", "DownloadExport", "Verify",
                  "Certificate", "Redact", "Share", "ListShares", "RevokeShare",
                  "SharedWithMe", "SearchUsers"}
    BY DEF DocumentRoutes
  <2> HIDE DEF t
  <2>3. AllGated(t)
    BY <2>1, <2>2, <2>4 DEF AllGated
  <2> QED
    BY <2>3 DEF t
<1>5. AllGated(LedgerRoutes)
  <2> DEFINE t == LedgerRoutes
  <2>1. /\ Gated("AnchorStatus", t.AnchorStatus) /\ Gated("AnchorProvenance", t.AnchorProvenance)
        /\ Gated("VerifyLedger", t.VerifyLedger) /\ Gated("VerifyCandidate", t.VerifyCandidate)
    BY <1>0, HandlersAreCareful, GatedKinds
       DEF LedgerRoutes, Public, AdminOnly, Scoped
  <2>2. DOMAIN t = {"AnchorStatus", "AnchorProvenance", "VerifyLedger",
                  "VerifyCandidate"}
    BY DEF LedgerRoutes
  <2> HIDE DEF t
  <2>3. AllGated(t)
    BY <2>1, <2>2 DEF AllGated
  <2> QED
    BY <2>3 DEF t
<1>6. AllGated(UserRoutes)
  <2> DEFINE t == UserRoutes
  <2>1. /\ Gated("CreateUser", t.CreateUser) /\ Gated("ListUsers", t.ListUsers)
        /\ Gated("UserEvents", t.UserEvents) /\ Gated("GetUser", t.GetUser)
        /\ Gated("UpdateUser", t.UpdateUser) /\ Gated("UpdateRole", t.UpdateRole)
        /\ Gated("UpdateStatus", t.UpdateStatus) /\ Gated("ResetPassword", t.ResetPassword)
        /\ Gated("ListRoles", t.ListRoles) /\ Gated("Profile", t.Profile)
    BY <1>0, HandlersAreCareful, GatedKinds
       DEF UserRoutes, Public, AdminOnly, Scoped
  <2>2. DOMAIN t = {"CreateUser", "ListUsers", "UserEvents", "GetUser", "UpdateUser",
                  "UpdateRole", "UpdateStatus", "ResetPassword", "ListRoles",
                  "Profile"}
    BY DEF UserRoutes
  <2> HIDE DEF t
  <2>3. AllGated(t)
    BY <2>1, <2>2 DEF AllGated
  <2> QED
    BY <2>3 DEF t
<1>7. AllGated(MonitoringRoutes)
  <2> DEFINE t == MonitoringRoutes
  <2>1. /\ Gated("Stats", t.Stats) /\ Gated("SystemHealth", t.SystemHealth)
        /\ Gated("Jobs", t.Jobs) /\ Gated("Blockchain", t.Blockchain)
        /\ Gated("VerifyWatermark", t.VerifyWatermark)
    BY <1>0, HandlersAreCareful, GatedKinds
       DEF MonitoringRoutes, Public, AdminOnly, Scoped
  <2>2. DOMAIN t = {"Stats", "SystemHealth", "Jobs", "Blockchain", "VerifyWatermark"}
    BY DEF MonitoringRoutes
  <2> HIDE DEF t
  <2>3. AllGated(t)
    BY <2>1, <2>2 DEF AllGated
  <2> QED
    BY <2>3 DEF t
<1>8. AllGated(AuditRoutes)
  <2> DEFINE t == AuditRoutes
  <2>1. /\ Gated("ListAudit", t.ListAudit) /\ Gated("VerifyChain", t.VerifyChain)
        /\ Gated("RunStatus", t.RunStatus) /\ Gated("RunEvents", t.RunEvents)
        /\ Gated("History", t.History) /\ Gated("Integrity", t.Integrity)
    BY <1>0, HandlersAreCareful, GatedKinds
       DEF AuditRoutes, Public, AdminOnly, Scoped
  <2>2. DOMAIN t = {"ListAudit", "VerifyChain", "RunStatus", "RunEvents", "History",
                  "Integrity"}
    BY DEF AuditRoutes
  <2> HIDE DEF t
  <2>3. AllGated(t)
    BY <2>1, <2>2 DEF AllGated
  <2> QED
    BY <2>3 DEF t
<1>9. ASSUME NEW f, NEW g, AllGated(f), AllGated(g) PROVE AllGated(f ++ g)
  <2>1. ASSUME NEW r \in DOMAIN (f ++ g) PROVE Gated(r, (f ++ g)[r])
    BY <1>9, <2>1 DEF AllGated, ++
  <2> QED
    BY <2>1 DEF AllGated
<1> QED
  BY <1>1, <1>2, <1>3, <1>4, <1>5, <1>6, <1>7, <1>8, <1>9
     DEF Routes

(***************************************************************************)
(* Requests: what one step does                                            *)
(* Progress(s) has thirteen actions.  They come to one of the few changes  *)
(* of the record of slot s that are named here, so that each invariant     *)
(* needs one case per kind of step and not one per action.                 *)
(***************************************************************************)
\* The fields of the record that a slot keeps of its request.
Fields == {"asked", "user", "route", "todo", "at", "answer", "ever", "unrecorded", "hurt"}

\* One record per slot, with those fields.
RequestInv ==
    /\ DOMAIN request = Slots
    /\ \A s \in Slots : DOMAIN request[s] = Fields

\* q is request with the four fields of slot s that a step may set set to these values.
Sets(q, s, todo, at, answer, unrecorded) ==
    /\ DOMAIN q = Slots
    /\ \A t \in Slots \ {s} : q[t] = request[t]
    /\ DOMAIN q[s] = Fields
    /\ q[s].todo = todo /\ q[s].at = at /\ q[s].answer = answer
    /\ q[s].unrecorded = unrecorded
    /\ q[s].asked = request[s].asked /\ q[s].user = request[s].user
    /\ q[s].route = request[s].route /\ q[s].ever = request[s].ever
    /\ q[s].hurt = request[s].hurt

\* The ways in which RequestPipeline updates request, field by field.
LEMMA Setters ==
    ASSUME RequestInv, NEW s \in Slots
    PROVE  /\ Sets(GoOn(s), s, Tail(request[s].todo), "ready", request[s].answer,
                   request[s].unrecorded)
           /\ \A steps : Sets(Then(s, steps), s, steps, "ready", request[s].answer,
                              request[s].unrecorded)
           /\ \A a : Sets(Ends(s, a), s, << >>, "idle", a, request[s].unrecorded)
           /\ \A at : Sets([request EXCEPT ![s].at = at], s, request[s].todo, at,
                           request[s].answer, request[s].unrecorded)
           /\ \A b : Sets([GoOn(s) EXCEPT ![s].unrecorded = b], s, Tail(request[s].todo),
                          "ready", request[s].answer, b)
<1>1. Sets(GoOn(s), s, Tail(request[s].todo), "ready", request[s].answer, request[s].unrecorded)
  BY DEF RequestInv, Sets, Fields, GoOn
<1>2. ASSUME NEW steps
      PROVE  Sets(Then(s, steps), s, steps, "ready", request[s].answer, request[s].unrecorded)
  BY DEF RequestInv, Sets, Fields, Then
<1>3. ASSUME NEW a PROVE Sets(Ends(s, a), s, << >>, "idle", a, request[s].unrecorded)
  BY DEF RequestInv, Sets, Fields, Ends
<1>4. ASSUME NEW at
      PROVE  Sets([request EXCEPT ![s].at = at], s, request[s].todo, at, request[s].answer,
                  request[s].unrecorded)
  BY DEF RequestInv, Sets, Fields
<1>5. ASSUME NEW b
      PROVE  Sets([GoOn(s) EXCEPT ![s].unrecorded = b], s, Tail(request[s].todo), "ready",
                  request[s].answer, b)
  <2> DEFINE q == GoOn(s)
  <2> HIDE DEF q
  <2>1. Sets(q, s, Tail(request[s].todo), "ready", request[s].answer, request[s].unrecorded)
    BY <1>1 DEF q
  <2>2. Sets([q EXCEPT ![s].unrecorded = b], s, Tail(request[s].todo), "ready",
             request[s].answer, b)
    BY <2>1 DEF Sets, Fields
  <2> QED
    BY <2>2 DEF q
<1> QED
  BY <1>1, <1>2, <1>3, <1>4, <1>5

\* A commit, field by field.
LEMMA CommitSets ==
    ASSUME RequestInv, NEW s \in Slots, NEW b
    PROVE  Sets([GoOn(s) EXCEPT ![s].unrecorded = @ \cup b], s, Tail(request[s].todo),
                "ready", request[s].answer, request[s].unrecorded \cup b)
<1> DEFINE q == GoOn(s)
<1> HIDE DEF q
<1>1. Sets(q, s, Tail(request[s].todo), "ready", request[s].answer, request[s].unrecorded)
  BY Setters DEF q
<1>2. Sets([q EXCEPT ![s].unrecorded = @ \cup b], s, Tail(request[s].todo), "ready",
           request[s].answer, request[s].unrecorded \cup b)
  BY <1>1 DEF Sets, Fields
<1> QED
  BY <1>2 DEF q

\* A step that some pass and others are refused at.
Turned(s, passes, or) ==
    IF passes THEN request' = GoOn(s) ELSE \E a \in or : request' = Ends(s, a)

\* What a step of a request does while the stores answer: by its kind, the one change of
\* request that it may make.
Advances(s) ==
    LET step == First(s)
        user == request[s].user
    IN  \/ step.do = "answer" /\ \E a \in step.or : request' = Ends(s, a)
        \/ /\ step.do = "check"
           /\ request' = GoOn(s) \/ \E a \in step.or : request' = Ends(s, a)
        \/ step.do = "note" /\ \E a \in step.or : request' = Noted(s, a)
        \/ /\ step.do = "either"
           /\ \E i \in {1, 2} : request' = Then(s, step.of[i] \o Tail(request[s].todo))
        \/ step.do = "admin" /\ Turned(s, user \in Admins, {403})
        \/ /\ step.do \in Transactions \cup {"throttle"}
           /\ \E at \in {"inside", "later"} : request' = [request EXCEPT ![s].at = at]
        \/ step.do = "identity" /\ Turned(s, user \in active, step.or)
        \/ step.do = "permission" /\ Turned(s, step.of \in Granted[user], step.or)
        \/ /\ step.do \in {"allowed", "related"}
           /\ \/ request' = GoOn(s) /\ (step.do = "related" => Sees(user))
              \/ \E a \in step.or : request' = Noted(s, a)
        \/ /\ step.do \in {"read", "row"}
           /\ \/ step.do = "row" /\ ~Sees(user) /\ request' = Ends(s, 403)
              \/ /\ step.do = "row" => Sees(user)
                 /\ request' = GoOn(s) \/ \E a \in step.or : request' = Ends(s, a)
        \/ /\ step.do \in {"write", "writeRow", "touch"}
           /\ \/ request' = [GoOn(s) EXCEPT ![s].unrecorded = @ \cup {Committed(s)}]
              \/ \E a \in step.or : request' = Ends(s, a)
              \/ step.do = "writeRow" /\ request' = Ends(s, step.of)
        \/ step.do = "record" /\ request' = [GoOn(s) EXCEPT ![s].unrecorded = {}]
        \/ /\ step.do \in {"nested", "list", "object", "queue", "throttle", "reset"}
           /\ request' = GoOn(s)
        \/ step.do = "throttle" /\ request' = Noted(s, 429)

\* What a step does whose store is away or whose client is gone.
Loses(s) ==
    /\ Store(First(s).do) # "none" /\ ~Reaches(s)
    /\ request' = IF First(s).fails = GoesOn THEN GoOn(s) ELSE Ends(s, First(s).fails)

\* The thirteen actions of a request come to Advances or Loses and leave the environment.
LEMMA ProgressAdvances ==
    ASSUME NEW s \in Slots, Progress(s)
    PROVE  /\ Running(s) /\ UNCHANGED environment
           /\ Advances(s) \/ Loses(s)
<1>1. CASE Decide(s)
  BY <1>1 DEF Decide, Ready, Running, others, Advances, Turned
<1>2. CASE Begin(s)
  BY <1>2 DEF Begin, Ready, Running, others, Advances
<1>3. CASE Judge(s)
  <2> DEFINE step == First(s)
             user == request[s].user
             passes == CASE step.do = "identity" -> user \in active
                         [] step.do \in {"permission", "allowed"} -> step.of \in Granted[user]
                         [] step.do = "related" -> Sees(user)
  <2>1. /\ step.do \in {"identity", "permission", "allowed", "related"}
        /\ Running(s) /\ UNCHANGED environment
        /\ \E a \in step.or :
             request' = IF passes THEN GoOn(s)
                        ELSE IF step.do \in {"allowed", "related"} THEN Noted(s, a)
                        ELSE Ends(s, a)
    BY <1>3 DEF Judge, Inside, Running, others
  <2>2. CASE step.do = "identity"
    <3>1. passes <=> user \in active
      BY <2>2
    <3> HIDE DEF passes
    <3>2. Turned(s, user \in active, step.or)
      BY <2>1, <2>2, <3>1 DEF Turned
    <3> QED
      BY <2>1, <2>2, <3>2 DEF Advances
  <2>3. CASE step.do = "permission"
    <3>1. passes <=> step.of \in Granted[user]
      BY <2>3
    <3> HIDE DEF passes
    <3>2. Turned(s, step.of \in Granted[user], step.or)
      BY <2>1, <2>3, <3>1 DEF Turned
    <3> QED
      BY <2>1, <2>3, <3>2 DEF Advances
  <2>4. CASE step.do \in {"allowed", "related"}
    <3>1. step.do = "related" => (passes <=> Sees(user))
      OBVIOUS
    <3> HIDE DEF passes
    <3>2. \/ request' = GoOn(s) /\ (step.do = "related" => Sees(user))
          \/ \E a \in step.or : request' = Noted(s, a)
      BY <2>1, <2>4, <3>1
    <3> QED
      BY <2>1, <2>4, <3>2 DEF Advances
  <2> QED
    BY <2>1, <2>2, <2>3, <2>4
<1>4. CASE ReadRow(s)
  BY <1>4 DEF ReadRow, Inside, Running, others, Advances
<1>5. CASE Commit(s)
  BY <1>5 DEF Commit, Inside, Running, others, Advances
<1>6. CASE RecordEvent(s)
  BY <1>6 DEF RecordEvent, Inside, Running, others, Advances
<1>7. CASE NestedQuery(s)
  BY <1>7 DEF NestedQuery, Inside, Later, Running, others, Advances, Transactions
<1>8. CASE ListRows(s)
  BY <1>8 DEF ListRows, Inside, Later, Running, others, Advances, Transactions
<1>9. CASE Fetch(s)
  BY <1>9 DEF Fetch, Ready, Running, others, Advances
<1>10. CASE Incr(s)
  BY <1>10 DEF Incr, Ready, Running, others, Advances
<1>11. CASE Expire(s)
  BY <1>11 DEF Expire, Later, Running, others, Advances
<1>12. CASE ResetCounter(s)
  BY <1>12 DEF ResetCounter, Ready, Running, others, Advances
<1>13. CASE Unavailable(s)
  BY <1>13 DEF Unavailable, Running, others, Loses
<1> QED
  BY <1>1, <1>2, <1>3, <1>4, <1>5, <1>6, <1>7, <1>8, <1>9, <1>10, <1>11, <1>12, <1>13
     DEF Progress

\* A noted refusal, field by field.
LEMMA NotedSets ==
    ASSUME RequestInv, NEW s \in Slots, NEW a
    PROVE  Sets(Noted(s, a), s, Record \o Answer(a), "ready", request[s].answer,
                request[s].unrecorded)
  BY Setters DEF Noted

\* What is unrecorded behind a step of slot s, given what was before it.
Leaves(s) == {request[s].unrecorded, {}, request[s].unrecorded \cup {Committed(s)}}

\* Any step of a request sets only those four fields of its own slot.
LEMMA AdvanceSets ==
    ASSUME RequestInv, NEW s \in Slots, Advances(s) \/ Loses(s)
    PROVE  \E todo, at, answer, unrecorded :
             /\ Sets(request', s, todo, at, answer, unrecorded)
             /\ unrecorded \in Leaves(s)
<1> DEFINE P(q) == \E todo, at, answer, unrecorded :
                     /\ Sets(q, s, todo, at, answer, unrecorded)
                     /\ unrecorded \in Leaves(s)
<1>0. /\ request[s].unrecorded \in Leaves(s) /\ {} \in Leaves(s)
      /\ request[s].unrecorded \cup {Committed(s)} \in Leaves(s)
  BY DEF Leaves
<1>1. /\ P(GoOn(s)) /\ \A steps : P(Then(s, steps))
      /\ \A a : P(Ends(s, a)) /\ P(Noted(s, a))
      /\ \A at : P([request EXCEPT ![s].at = at])
      /\ P([GoOn(s) EXCEPT ![s].unrecorded = @ \cup {Committed(s)}])
      /\ P([GoOn(s) EXCEPT ![s].unrecorded = {}])
  <2>1. P(GoOn(s))
    BY <1>0, Setters
  <2>2. ASSUME NEW steps PROVE P(Then(s, steps))
    BY <1>0, Setters
  <2>3. ASSUME NEW a PROVE P(Ends(s, a))
    BY <1>0, Setters
  <2>4. ASSUME NEW a PROVE P(Noted(s, a))
    BY <1>0, NotedSets
  <2>5. ASSUME NEW at PROVE P([request EXCEPT ![s].at = at])
    BY <1>0, Setters
  <2>6. P([GoOn(s) EXCEPT ![s].unrecorded = @ \cup {Committed(s)}])
    BY <1>0, CommitSets
  <2>7. P([GoOn(s) EXCEPT ![s].unrecorded = {}])
    BY <1>0, Setters
  <2> QED
    BY <2>1, <2>2, <2>3, <2>4, <2>5, <2>6, <2>7
<1>2. \/ request' = GoOn(s) \/ \E steps : request' = Then(s, steps)
      \/ \E a : request' = Ends(s, a) \/ request' = Noted(s, a)
      \/ \E at : request' = [request EXCEPT ![s].at = at]
      \/ request' = [GoOn(s) EXCEPT ![s].unrecorded = @ \cup {Committed(s)}]
      \/ request' = [GoOn(s) EXCEPT ![s].unrecorded = {}]
  <2>1. CASE Loses(s)
    BY <2>1 DEF Loses
  <2>2. CASE Advances(s)
    BY <2>2 DEF Advances, Turned
  <2> QED
    BY <2>1, <2>2
<1> HIDE DEF P
<1> QED
  <2>1. P(request')
    BY <1>1, <1>2
  <2> QED
    BY <2>1 DEF P

\* Caller u passes none of the barred steps.
Barred(u, barred) ==
    /\ "identity" \in barred => u \notin active
    /\ "admin" \in barred => u \notin Admins
    /\ "related" \in barred \/ "row" \in barred => ~Sees(u)

\* A caller who is kept out is so after any step, or has been refused.
LEMMA KeptOutAdvances ==
    ASSUME RequestInv, NEW s \in Slots, Advances(s) \/ Loses(s),
           NEW barred, NEW refusals, "allowed" \notin barred,
           KeepsOut(request[s].todo, barred, refusals), Barred(request[s].user, barred)
    PROVE  \/ Running(s)' /\ KeepsOut(request'[s].todo, barred, refusals)
           \/ ~Running(s)' /\ request'[s].answer \in refusals
<1> DEFINE step == First(s)
           q == request[s].todo
           Out(todo) == KeepsOut(todo, barred, refusals)
           P(r) == \/ r[s].at # "idle" /\ Out(r[s].todo)
                   \/ r[s].at = "idle" /\ r[s].answer \in refusals
<1>1. KeepsOutNow(q, barred, refusals)
  BY KeepsOutUnfolds
<1>2. step = Head(q)
  BY DEF First
<1> SUFFICES P(request')
  BY DEF Running
<1> HIDE DEF q, step, Out
<1>3. /\ Out(Tail(q)) => P(GoOn(s))
      /\ \A a \in refusals : P(Ends(s, a))
      /\ \A a \in refusals : Out(Record \o Answer(a)) => P(Noted(s, a))
      /\ \A at \in {"inside", "later"} : P([request EXCEPT ![s].at = at])
      /\ \A b : Out(Tail(q)) => P([GoOn(s) EXCEPT ![s].unrecorded = b])
  <2>1. Out(Tail(q)) => P(GoOn(s))
    BY Setters DEF Sets, q
  <2>2. \A a \in refusals : P(Ends(s, a))
    BY Setters DEF Sets
  <2>3. \A a \in refusals : Out(Record \o Answer(a)) => P(Noted(s, a))
    BY NotedSets DEF Sets
  <2>4. \A at \in {"inside", "later"} : P([request EXCEPT ![s].at = at])
    BY Setters DEF Sets, Out, q
  <2>5. \A b : Out(Tail(q)) => P([GoOn(s) EXCEPT ![s].unrecorded = b])
    BY Setters DEF Sets, q
  <2> QED
    BY <2>1, <2>2, <2>3, <2>4, <2>5
<1>4. GoesOn \notin refusals /\ \A a \in refusals : P(Ends(s, a)) /\ P(Noted(s, a))
  BY <1>1, <1>3 DEF KeepsOutNow, Out
<1> HIDE DEF P
<1>5. CASE step.do = "answer" /\ step.or \subseteq refusals
  <2>1. \E a \in step.or : request' = Ends(s, a)
    BY <1>5 DEF Advances, Loses, step, Store, Transactions
  <2> QED
    BY <1>4, <1>5, <2>1
<1>6. CASE step.do = "record" /\ step.fails = GoesOn /\ Out(Tail(q))
  <2>1. \/ \E at \in {"inside", "later"} : request' = [request EXCEPT ![s].at = at]
        \/ request' = [GoOn(s) EXCEPT ![s].unrecorded = {}]
        \/ request' = GoOn(s)
    BY <1>6 DEF Advances, Loses, step, Store, Transactions
  <2> QED
    BY <1>3, <1>6, <2>1
<1>7. CASE step.do = "check" /\ step.or \subseteq refusals /\ Out(Tail(q))
  <2>1. request' = GoOn(s) \/ \E a \in step.or : request' = Ends(s, a)
    BY <1>7 DEF Advances, Loses, step, Store, Transactions
  <2> QED
    BY <1>3, <1>4, <1>7, <2>1
<1>8. CASE /\ step.do = "admin" /\ 403 \in refusals
           /\ step.do \in barred \/ Out(Tail(q))
  <2>1. Turned(s, request[s].user \in Admins, {403})
    BY <1>8 DEF Advances, Loses, step, Store, Transactions
  <2> QED
    BY <1>3, <1>4, <1>8, <2>1 DEF Barred, Turned
<1>9. CASE /\ step.do \in {"identity", "allowed", "related"}
           /\ step.or \cup {step.fails} \subseteq refusals
           /\ step.do \in barred \/ Out(Tail(q))
  <2>1. \/ request' = GoOn(s) /\ ~(step.do \in barred /\ step.do # "allowed")
        \/ \E a \in step.or : request' = Ends(s, a) \/ request' = Noted(s, a)
        \/ \E at \in {"inside", "later"} : request' = [request EXCEPT ![s].at = at]
        \/ request' = Ends(s, step.fails)
    BY <1>4, <1>9 DEF Advances, Loses, Turned, Barred, step
  <2> QED
    BY <1>3, <1>4, <1>9, <2>1
<1>10. CASE /\ step.do = "row" /\ step.do \in barred
            /\ {403, step.fails} \subseteq refusals
  <2>1. \/ request' = Ends(s, 403) \/ request' = Ends(s, step.fails)
        \/ \E at \in {"inside", "later"} : request' = [request EXCEPT ![s].at = at]
    BY <1>4, <1>10 DEF Advances, Loses, Barred, step
  <2>2. P(Ends(s, 403)) /\ P(Ends(s, step.fails))
    BY <1>4, <1>10
  <2>3. \A at \in {"inside", "later"} : P([request EXCEPT ![s].at = at])
    BY <1>3
  <2> QED
    BY <2>1, <2>2, <2>3
<1> QED
  <2>1. KeepsOutNow(q, barred, refusals) /\ step = Head(q)
    BY <1>1, <1>2
  <2> QED
    BY <1>5, <1>6, <1>7, <1>8, <1>9, <1>10, <2>1 DEF KeepsOutNow, Out

\* What the record r of a request has still before it fits what it has not recorded yet.
Trailed(r) ==
    IF "change" \in r.unrecorded THEN Covered(r.todo)
    ELSE IF "touch" \in r.unrecorded THEN Touched(r.todo) ELSE Careful(r.todo)

\* A request that was answered has recorded all, or touched a column and was refused.
Settled(r) ==
    \/ r.unrecorded = {}
    \/ r.unrecorded = {"touch"} /\ r.answer \notin 200 .. 299

\* A step of a request leaves covered what is changed and unrecorded, in front of a refusal
\* or a change what is touched, careful what is neither; and it ends no request but so.
LEMMA TrailAdvances ==
    ASSUME RequestInv, NEW s \in Slots, Advances(s),
           request[s].unrecorded \subseteq {"change", "touch"}, Trailed(request[s])
    PROVE  \/ Running(s)' /\ Trailed(request'[s])
           \/ ~Running(s)' /\ Settled(request'[s])
<1> DEFINE step == First(s)
           q == request[s].todo
           u == request[s].unrecorded
           new == Committed(s)
           P(r) == \/ r[s].at # "idle" /\ Trailed(r[s])
                   \/ r[s].at = "idle" /\ Settled(r[s])
<1> SUFFICES P(request')
  BY DEF Running
<1>1. step = Head(q) /\ new = (IF step.do = "touch" THEN "touch" ELSE "change")
  BY DEF First, Committed
<1>2. /\ Trailed([unrecorded |-> u, todo |-> Tail(q)]) => P(GoOn(s))
      /\ \A p : Trailed([unrecorded |-> u, todo |-> p]) => P(Then(s, p))
      /\ \A a : Settled([unrecorded |-> u, answer |-> a]) => P(Ends(s, a))
      /\ \A a : Trailed([unrecorded |-> u, todo |-> Record \o Answer(a)]) => P(Noted(s, a))
      /\ \A at \in {"inside", "later"} : P([request EXCEPT ![s].at = at])
      /\ Trailed([unrecorded |-> u \cup {new}, todo |-> Tail(q)])
         => P([GoOn(s) EXCEPT ![s].unrecorded = @ \cup {new}])
      /\ Careful(Tail(q)) => P([GoOn(s) EXCEPT ![s].unrecorded = {}])
  <2>1. Trailed([unrecorded |-> u, todo |-> Tail(q)]) => P(GoOn(s))
    BY Setters DEF Sets, Trailed
  <2>2. ASSUME NEW p PROVE Trailed([unrecorded |-> u, todo |-> p]) => P(Then(s, p))
    BY Setters DEF Sets, Trailed
  <2>3. ASSUME NEW a PROVE Settled([unrecorded |-> u, answer |-> a]) => P(Ends(s, a))
    <3>1. Sets(Ends(s, a), s, << >>, "idle", a, u)
      BY Setters
    <3>2. /\ Ends(s, a)[s].at = "idle" /\ Ends(s, a)[s].answer = a
          /\ Ends(s, a)[s].unrecorded = u
      BY <3>1 DEF Sets
    <3>3. Settled([unrecorded |-> u, answer |-> a]) => Settled(Ends(s, a)[s])
      BY <3>2 DEF Settled
    <3> HIDE DEF u
    <3> QED
      BY <3>2, <3>3
  <2>4. ASSUME NEW a
        PROVE  Trailed([unrecorded |-> u, todo |-> Record \o Answer(a)]) => P(Noted(s, a))
    BY NotedSets DEF Sets, Trailed
  <2>5. ASSUME NEW at \in {"inside", "later"} PROVE P([request EXCEPT ![s].at = at])
    BY <2>5, Setters DEF Sets, Trailed
  <2>6. Trailed([unrecorded |-> u \cup {new}, todo |-> Tail(q)])
        => P([GoOn(s) EXCEPT ![s].unrecorded = @ \cup {new}])
    BY CommitSets DEF Sets, Trailed
  <2>7. Careful(Tail(q)) => P([GoOn(s) EXCEPT ![s].unrecorded = {}])
    BY Setters DEF Sets, Trailed
  <2> QED
    BY <2>1, <2>2, <2>3, <2>4, <2>5, <2>6, <2>7
<1>3. CASE "change" \in u
  <2>1. Covered(q) /\ CoveredFirst(q)
    BY <1>3, Unfolds DEF Trailed
  <2>2. /\ Covered(Tail(q)) => P(GoOn(s))
        /\ \A p : Covered(p) => P(Then(s, p))
        /\ Covered(Tail(q)) => P([GoOn(s) EXCEPT ![s].unrecorded = @ \cup {new}])
    BY <1>2, <1>3 DEF Trailed
  <2> HIDE DEF q, step, P, u, new
  <2>3. CASE step.do = "record" /\ Careful(Tail(q))
    <3>1. \/ \E at \in {"inside", "later"} : request' = [request EXCEPT ![s].at = at]
          \/ request' = [GoOn(s) EXCEPT ![s].unrecorded = {}]
      BY <2>3 DEF Advances, step
    <3> QED
      BY <1>2, <2>3, <3>1
  <2>4. CASE step.do \in {"read", "write"} /\ step.or = {} /\ Covered(Tail(q))
    <3>1. \/ \E at \in {"inside", "later"} : request' = [request EXCEPT ![s].at = at]
          \/ request' = GoOn(s)
          \/ request' = [GoOn(s) EXCEPT ![s].unrecorded = @ \cup {new}]
      BY <2>4 DEF Advances, step, new
    <3> QED
      BY <1>2, <2>2, <2>4, <3>1
  <2>5. CASE step.do \in {"object", "queue", "reset"} /\ Covered(Tail(q))
    <3>1. request' = GoOn(s)
      BY <2>5 DEF Advances, Transactions, step
    <3> QED
      BY <2>2, <2>5, <3>1
  <2>6. CASE /\ step.do = "either"
             /\ Covered(step.of[1] \o Tail(q)) /\ Covered(step.of[2] \o Tail(q))
    <3>1. \E i \in {1, 2} : request' = Then(s, step.of[i] \o Tail(q))
      BY <2>6 DEF Advances, Transactions, step, q
    <3> QED
      BY <2>2, <2>6, <3>1
  <2> QED
    BY <1>1, <2>1, <2>3, <2>4, <2>5, <2>6 DEF CoveredFirst
<1>4. CASE "change" \notin u /\ "touch" \in u
  <2>1. Touched(q) /\ TouchedFirst(q) /\ u = {"touch"}
    BY <1>4, Unfolds DEF Trailed
  <2>2. /\ Touched(Tail(q)) => P(GoOn(s))
        /\ \A a : a \notin 200 .. 299 => P(Ends(s, a))
    BY <1>2, <1>4, <2>1 DEF Trailed, Settled
  <2>3. step.do = "write" /\ Covered(Tail(q))
        => P([GoOn(s) EXCEPT ![s].unrecorded = @ \cup {new}])
    BY <1>1, <1>2 DEF Trailed
  <2> HIDE DEF q, step, P, u, new
  <2>4. CASE step.do = "check" /\ Refused(step.or) /\ Touched(Tail(q))
    <3>1. request' = GoOn(s) \/ \E a \in step.or : request' = Ends(s, a)
      BY <2>4 DEF Advances, Transactions, step
    <3> QED
      BY <2>2, <2>4, <3>1 DEF Refused
  <2>5. CASE step.do \in {"object", "queue", "reset"} /\ Touched(Tail(q))
    <3>1. request' = GoOn(s)
      BY <2>5 DEF Advances, Transactions, step
    <3> QED
      BY <2>2, <2>5, <3>1
  <2>6. CASE step.do = "write" /\ Refused(step.or) /\ Covered(Tail(q))
    <3>1. \/ \E at \in {"inside", "later"} : request' = [request EXCEPT ![s].at = at]
          \/ request' = [GoOn(s) EXCEPT ![s].unrecorded = @ \cup {new}]
          \/ \E a \in step.or : request' = Ends(s, a)
      BY <2>6 DEF Advances, step, new
    <3> QED
      BY <1>2, <2>2, <2>3, <2>6, <3>1 DEF Refused
  <2> QED
    BY <1>1, <2>1, <2>4, <2>5, <2>6 DEF TouchedFirst
<1>5. CASE "change" \notin u /\ "touch" \notin u
  <2>1. Careful(q) /\ CarefulFirst(q) /\ u = {}
    BY <1>5, Unfolds DEF Trailed
  <2>2. /\ Careful(Tail(q)) => P(GoOn(s))
        /\ \A p : Careful(p) => P(Then(s, p))
        /\ \A a : P(Ends(s, a)) /\ P(Noted(s, a))
    <3>1. \A a : Careful(Record \o Answer(a))
      BY AnswerIsCareful, CoveredIsCareful
    <3> QED
      BY <1>2, <1>5, <2>1, <3>1 DEF Trailed, Settled
  <2>3. /\ step.do \in {"write", "writeRow"} /\ Covered(Tail(q))
           => P([GoOn(s) EXCEPT ![s].unrecorded = @ \cup {new}])
        /\ step.do = "touch" /\ Touched(Tail(q))
           => P([GoOn(s) EXCEPT ![s].unrecorded = @ \cup {new}])
    BY <1>1, <1>2, <2>1 DEF Trailed
  <2> HIDE DEF q, step, P, u, new
  <2>4. CASE step.do \in {"answer", "note"}
    <3>1. \E a : request' = Ends(s, a) \/ request' = Noted(s, a)
      BY <2>4 DEF Advances, Transactions, step
    <3> QED
      BY <2>2, <3>1
  <2>5. CASE step.do \in Passing /\ Careful(Tail(q))
    <3>1. \/ \E a : request' = Ends(s, a) \/ request' = Noted(s, a)
          \/ \E at \in {"inside", "later"} : request' = [request EXCEPT ![s].at = at]
          \/ request' = GoOn(s) \/ request' = [GoOn(s) EXCEPT ![s].unrecorded = {}]
      BY <2>5 DEF Advances, Turned, Passing, step
    <3> QED
      BY <1>2, <2>2, <2>5, <3>1
  <2>6. CASE \/ step.do \in {"write", "writeRow"} /\ Covered(Tail(q))
             \/ step.do = "touch" /\ Touched(Tail(q))
    <3>1. \/ \E a : request' = Ends(s, a)
          \/ \E at \in {"inside", "later"} : request' = [request EXCEPT ![s].at = at]
          \/ request' = [GoOn(s) EXCEPT ![s].unrecorded = @ \cup {new}]
      BY <2>6 DEF Advances, step, new
    <3> QED
      BY <1>2, <2>2, <2>3, <2>6, <3>1
  <2>7. CASE /\ step.do = "either"
             /\ Careful(step.of[1] \o Tail(q)) /\ Careful(step.of[2] \o Tail(q))
    <3>1. \E i \in {1, 2} : request' = Then(s, step.of[i] \o Tail(q))
      BY <2>7 DEF Advances, Transactions, step, q
    <3> QED
      BY <2>2, <2>7, <3>1
  <2> QED
    BY <1>1, <2>1, <2>4, <2>5, <2>6, <2>7 DEF CarefulFirst
<1> QED
  BY <1>3, <1>4, <1>5

(***************************************************************************)
(* Requests: the type invariant and the throttle's counters                *)
(***************************************************************************)
\* The type invariant of the pipeline: what a slot still has to ask for are registered
\* routes, and so is the route of a request that runs or was answered.
PipelineTypeInv ==
    /\ RequestInv
    /\ \A s \in Slots :
         /\ request[s].asked \in Seq(DOMAIN Routes)
         /\ request[s].unrecorded \subseteq {"change", "touch"} /\ request[s].hurt \in BOOLEAN
         /\ Running(s) \/ request[s].answer # 0 => request[s].route \in DOMAIN Routes
    /\ counter \in [Keys -> Nat]

\* What a step leaves of the request of a slot that it is not about: an outage or a gone
\* client marks it as hurt, a change of membership or activation is added to what was ever so.
Carried(t) ==
    /\ request'[t].user = request[t].user /\ request'[t].route = request[t].route
    /\ request'[t].todo = request[t].todo /\ request'[t].at = request[t].at
    /\ request'[t].answer = request[t].answer
    /\ request'[t].unrecorded = request[t].unrecorded
    /\ \/ request'[t].asked = request[t].asked
       \/ request[t].answer = 200 /\ request'[t].asked = <<request[t].route>>
    /\ request[t].ever \subseteq request'[t].ever
    /\ request'[t].hurt \in {request[t].hurt, TRUE}
    /\ Running(t) =>
         Facts(request[t].user)' \subseteq Facts(request[t].user) \cup request'[t].ever
    /\ Running(t) /\ (away' # {} \/ t \in gone')
       => away # {} \/ t \in gone \/ request'[t].hurt

\* For each slot a step is its arrival, its progress, or carries its request along.
LEMMA EachSlot ==
    ASSUME PipelineTypeInv, [PipelineNext]_pipelineVars
    PROVE  /\ RequestInv'
           /\ \A t \in Slots : Carried(t) \/ Arrive(t) \/ Progress(t)
<1> USE DEF PipelineTypeInv, RequestInv
<1>1. ASSUME NEW s \in Slots, Arrive(s)
      PROVE  RequestInv' /\ \A t \in Slots \ {s} : Carried(t)
  BY <1>1 DEF Arrive, Carried, Fields, Facts, Sees
<1>2. ASSUME NEW s \in Slots, Progress(s)
      PROVE  RequestInv' /\ \A t \in Slots \ {s} : Carried(t)
  <2>1. PICK todo, at, answer, unrecorded : Sets(request', s, todo, at, answer, unrecorded)
    BY <1>2, ProgressAdvances, AdvanceSets
  <2>2. UNCHANGED environment
    BY <1>2, ProgressAdvances
  <2> QED
    BY <2>1, <2>2 DEF Sets, Carried, environment, Facts, Sees
<1>3. ASSUME NEW s \in Slots, Disconnect(s) PROVE RequestInv' /\ \A t \in Slots : Carried(t)
  BY <1>3 DEF Disconnect, Hurt, Carried, Fields, Facts, Sees, Running
<1>4. ASSUME NEW s \in Slots, NextPage(s) PROVE RequestInv' /\ \A t \in Slots : Carried(t)
  <2>1. /\ request' = [request EXCEPT ![s].asked = <<request[s].route>>]
        /\ request[s].answer = 200 /\ UNCHANGED environment
    BY <1>4 DEF NextPage, Served
  <2>2. RequestInv'
    BY <2>1 DEF Fields
  <2>3. ASSUME NEW t \in Slots PROVE Carried(t)
    <3>1. /\ \A f \in Fields \ {"asked"} : request'[t][f] = request[t][f]
          /\ request'[t].asked = IF t = s THEN <<request[t].route>> ELSE request[t].asked
      BY <2>1 DEF Fields
    <3>2. Facts(request[t].user)' = Facts(request[t].user)
      BY <2>1, <3>1 DEF environment, Facts, Sees, Fields
    <3> QED
      BY <2>1, <3>1, <3>2 DEF Carried, environment, Fields
  <2> QED
    BY <2>2, <2>3
<1>5. ASSUME NEW d, Fail(d) PROVE RequestInv' /\ \A t \in Slots : Carried(t)
  BY <1>5 DEF Fail, Hurt, Carried, Fields, Facts, Sees, Running
<1>6. ASSUME NEW d, Recover(d) PROVE RequestInv' /\ \A t \in Slots : Carried(t)
  BY <1>6 DEF Recover, Carried, Fields, Facts, Sees, Running
<1>7. ASSUME NEW u, Deactivate(u) PROVE RequestInv' /\ \A t \in Slots : Carried(t)
  BY <1>7 DEF Deactivate, Changed, Carried, Fields, Facts, Sees, Running
<1>8. ASSUME NEW u, Exclude(u) PROVE RequestInv' /\ \A t \in Slots : Carried(t)
  BY <1>8 DEF Exclude, Changed, Carried, Fields, Facts, Sees, Running
<1>9. ASSUME NEW u, Include(u) PROVE RequestInv' /\ \A t \in Slots : Carried(t)
  BY <1>9 DEF Include, Changed, Noticed, Carried, Fields, Facts, Sees, Running
<1>10. CASE \/ \E k \in Keys : WindowEnds(k)
            \/ RowAdded \/ \E i \in DOMAIN rows : RowLeaves(i)
            \/ UNCHANGED pipelineVars
  <2>1. UNCHANGED <<request, gone, away, active, related>>
    BY <1>10 DEF WindowEnds, RowAdded, RowLeaves, Changed, environment, pipelineVars
  <2> QED
    BY <2>1 DEF Carried, Facts, Sees
<1> QED
  BY <1>1, <1>2, <1>3, <1>4, <1>5, <1>6, <1>7, <1>8, <1>9, <1>10 DEF PipelineNext

\* The pipeline begins with types: TrafficAssumption gives each slot routes to ask for.
LEMMA PipelineTypeInit == PipelineInit => PipelineTypeInv
<1> SUFFICES ASSUME PipelineInit PROVE PipelineTypeInv
  OBVIOUS
<1>1. PICK t \in Traffic :
        /\ request = [s \in Slots |->
             [asked |-> t.asked[s], user |-> t.user, route |-> "none", todo |-> << >>,
              at |-> "idle", answer |-> 0, ever |-> {}, unrecorded |-> {},
              hurt |-> FALSE]]
        /\ counter = [k \in Keys |-> 0]
  BY DEF PipelineInit
<1>2. t.asked \in [Slots -> Seq(DOMAIN Routes)]
  BY TrafficAssumption
<1> QED
  BY <1>1, <1>2 DEF PipelineTypeInv, RequestInv, Fields, Running

\* Every step preserves the types; a counter stops one above its limit, as the model's bound
\* has it.
LEMMA PipelineTypeStep ==
    ASSUME PipelineTypeInv, [PipelineNext]_pipelineVars
    PROVE  PipelineTypeInv'
<1>1. RequestInv' /\ \A s \in Slots : Carried(s) \/ Arrive(s) \/ Progress(s)
  BY EachSlot
<1>2. ASSUME NEW s \in Slots
      PROVE  /\ request'[s].asked \in Seq(DOMAIN Routes)
             /\ request'[s].unrecorded \subseteq {"change", "touch"}
             /\ request'[s].hurt \in BOOLEAN
             /\ Running(s)' \/ request'[s].answer # 0 => request'[s].route \in DOMAIN Routes
  <2> USE DEF PipelineTypeInv
  <2>1. CASE Carried(s)
    <3>1. request'[s].asked \in Seq(DOMAIN Routes)
      <4>1. CASE request[s].answer = 200 /\ request'[s].asked = <<request[s].route>>
        <5>1. request[s].route \in DOMAIN Routes
          BY <4>1
        <5> QED
          BY <4>1, <5>1
      <4> QED
        BY <2>1, <4>1 DEF Carried
    <3> QED
      BY <2>1, <3>1 DEF Carried, Running
  <2>2. CASE Arrive(s)
    <3>1. /\ request[s].asked # << >> /\ request'[s].asked = Tail(request[s].asked)
          /\ request'[s].route = Head(request[s].asked)
      BY <2>2 DEF Arrive, RequestInv, Fields
    <3>4. request'[s].unrecorded = {}
      BY <2>2 DEF Arrive, RequestInv, Fields
    <3>5. request'[s].hurt \in BOOLEAN
      BY <2>2 DEF Arrive, RequestInv, Fields
    <3>2. request[s].asked \in Seq(DOMAIN Routes)
      OBVIOUS
    <3>3. /\ Head(request[s].asked) \in DOMAIN Routes
          /\ Tail(request[s].asked) \in Seq(DOMAIN Routes)
      BY <3>1, <3>2, HeadTailProperties
    <3> QED
      BY <3>1, <3>3, <3>4, <3>5
  <2>3. CASE Progress(s)
    <3>1. PICK todo, at, answer, unrecorded :
            /\ Sets(request', s, todo, at, answer, unrecorded)
            /\ unrecorded \in Leaves(s)
      BY <2>3, ProgressAdvances, AdvanceSets
    <3>2. Running(s)
      BY <2>3, ProgressAdvances
    <3>3. request'[s].unrecorded \subseteq {"change", "touch"}
      BY <3>1 DEF Sets, Leaves, Committed
    <3>4. /\ request'[s].asked = request[s].asked /\ request'[s].route = request[s].route
          /\ request'[s].hurt = request[s].hurt
      BY <3>1 DEF Sets
    <3> QED
      BY <3>2, <3>3, <3>4
  <2> QED
    BY <1>1, <2>1, <2>2, <2>3
<1>3. counter' \in [Keys -> Nat]
  <2> USE DEF PipelineTypeInv
  <2>1. ASSUME NEW s \in Slots, Progress(s) PROVE counter' \in [Keys -> Nat]
    <3>1. CASE Incr(s)
      <4> DEFINE k == First(s).of
      <4>1. CASE k \in Keys
        <5>1. Limits[k] \in Nat /\ counter[k] \in Nat
          BY <4>1, PipelineAssumption DEF Keys
        <5> DEFINE n == IF counter[k] + 1 > Limits[k] THEN Limits[k] + 1 ELSE counter[k] + 1
        <5>2. n \in Nat
          BY <5>1
        <5>3. counter' = [counter EXCEPT ![k] = n]
          BY <3>1 DEF Incr
        <5> QED
          BY <5>2, <5>3
      <4>2. CASE k \notin Keys
        BY <3>1, <4>2 DEF Incr
      <4> QED
        BY <4>1, <4>2
    <3>2. CASE ResetCounter(s)
      BY <3>2 DEF ResetCounter, Forgotten
    <3>3. CASE UNCHANGED counter
      BY <3>3
    <3> QED
      BY <2>1, <3>1, <3>2, <3>3
         DEF Progress, Decide, Begin, Judge, ReadRow, Commit, RecordEvent, NestedQuery,
             ListRows, Fetch, Expire, Unavailable, others
  <2>2. ASSUME NEW k, WindowEnds(k) PROVE counter' \in [Keys -> Nat]
    BY <2>2 DEF WindowEnds, Forgotten
  <2>3. CASE \E s \in Slots : Arrive(s) \/ Disconnect(s) \/ NextPage(s)
    <3>1. PICK s \in Slots : Arrive(s) \/ Disconnect(s) \/ NextPage(s)
      BY <2>3
    <3>2. Arrive(s) => UNCHANGED counter
      BY DEF Arrive
    <3>3. Disconnect(s) => UNCHANGED counter
      BY DEF Disconnect
    <3>4. NextPage(s) => UNCHANGED counter
      BY DEF NextPage
    <3> QED
      BY <3>1, <3>2, <3>3, <3>4
  <2>4. CASE \/ \E d \in {"postgres", "redis", "minio"} : Fail(d) \/ Recover(d)
             \/ \E u \in Accounts : Deactivate(u) \/ Exclude(u) \/ Include(u)
             \/ RowAdded \/ \E i \in DOMAIN rows : RowLeaves(i)
             \/ UNCHANGED pipelineVars
    <3>1. UNCHANGED counter
      BY <2>4 DEF Fail, Recover, Deactivate, Exclude, Include, RowAdded, RowLeaves, Changed,
                  pipelineVars
    <3> QED
      BY <3>1
  <2> QED
    BY <2>1, <2>2, <2>3, <2>4 DEF PipelineNext
<1> QED
  BY <1>1, <1>2, <1>3 DEF PipelineTypeInv

\* Every step keeps a way to the expiry of each counter. The INCR that makes a counter 1 has
\* EXPIRE as the next step of its request; whatever removes that step marks the counter as cut.
LEMMA CountersStep ==
    ASSUME PipelineTypeInv, CountersExpire, [PipelineNext]_pipelineVars
    PROVE  CountersExpire'
<1> SUFFICES ASSUME NEW k \in Keys, counter'[k] > 0, k \notin expiring', k \notin cut'
             PROVE  \E s \in Slots : (Later(s, {"throttle"}) /\ First(s).of = k)'
  BY DEF CountersExpire
<1>1. \A s \in Slots : Carried(s) \/ Arrive(s) \/ Progress(s)
  BY EachSlot
<1>2. ASSUME NEW s \in Slots, Later(s, {"throttle"}), First(s).of = k, Carried(s)
      PROVE  (Later(s, {"throttle"}) /\ First(s).of = k)'
  BY <1>2 DEF Later, First, Carried
<1>3. ASSUME NEW s \in Slots, Later(s, {"throttle"}), First(s).of = k, ~Carried(s)
      PROVE  FALSE
  <2>1. Progress(s)
    BY <1>1, <1>3 DEF Arrive, Later, Running
  <2>2. Expire(s) \/ Unavailable(s)
    BY <1>3, <2>1
       DEF Progress, Decide, Begin, Judge, ReadRow, Commit, RecordEvent, NestedQuery,
           ListRows, Fetch, Incr, ResetCounter, Ready, Inside, Later
  <2>3. CASE Expire(s)
    BY <1>3, <2>3 DEF Expire
  <2>4. CASE Unavailable(s)
    BY <1>3, <2>4 DEF Unavailable
  <2> QED
    BY <2>2, <2>3, <2>4
<1>4. CASE counter[k] > 0 /\ k \notin expiring /\ k \notin cut
  BY <1>2, <1>3, <1>4 DEF CountersExpire
<1>5. CASE ~(counter[k] > 0 /\ k \notin expiring /\ k \notin cut)
  <2>0. counter[k] \in Nat
    BY DEF PipelineTypeInv
  <2>1. ASSUME NEW j, Forgotten(j) PROVE FALSE
    BY <1>5, <2>0, <2>1 DEF Forgotten, PipelineTypeInv
  <2>2. ASSUME NEW s \in Slots, Expire(s) PROVE FALSE
    BY <1>5, <2>0, <2>2 DEF Expire, environment
  <2>3. ASSUME NEW s \in Slots, Unavailable(s) PROVE FALSE
    BY <1>5, <2>3 DEF Unavailable
  <2>4. PICK s \in Slots : Incr(s)
    <3>1. ~UNCHANGED <<counter, expiring, cut>>
      BY <1>5
    <3>2. ASSUME NEW s \in Slots, Progress(s) PROVE Incr(s)
      BY <2>1, <2>2, <2>3, <3>1, <3>2
         DEF Progress, Decide, Begin, Judge, ReadRow, Commit, RecordEvent, NestedQuery,
             ListRows, Fetch, ResetCounter, others
    <3>3. /\ ~UNCHANGED pipelineVars /\ \A j : ~WindowEnds(j)
          /\ \A s \in Slots : ~Arrive(s) /\ ~Disconnect(s) /\ ~NextPage(s)
      <4>1. \A j : ~WindowEnds(j)
        BY <2>1 DEF WindowEnds
      <4>2. ~UNCHANGED pipelineVars
        BY <3>1 DEF pipelineVars
      <4>3. \A s \in Slots : ~Arrive(s) /\ ~Disconnect(s) /\ ~NextPage(s)
        <5>1. \A s \in Slots : ~Arrive(s)
          BY <3>1 DEF Arrive
        <5>2. \A s \in Slots : ~Disconnect(s)
          BY <3>1 DEF Disconnect
        <5>3. \A s \in Slots : ~NextPage(s)
          BY <3>1 DEF NextPage
        <5> QED
          BY <5>1, <5>2, <5>3
      <4> QED
        BY <4>1, <4>2, <4>3
    <3>4. /\ \A d : ~Fail(d) /\ ~Recover(d)
          /\ \A u : ~Deactivate(u) /\ ~Exclude(u) /\ ~Include(u)
          /\ ~RowAdded /\ \A i : ~RowLeaves(i)
      BY <3>1 DEF Fail, Recover, Deactivate, Exclude, Include, RowAdded, RowLeaves, Changed
    <3> QED
      BY <3>2, <3>3, <3>4 DEF PipelineNext
  <2>5. First(s).of = k /\ counter[k] = 0
    BY <1>5, <2>0, <2>4 DEF Incr, PipelineTypeInv
  <2>6. request' = [request EXCEPT ![s].at = "later"] /\ First(s).do = "throttle"
    BY <2>4, <2>5 DEF Incr, Ready
  <2>7. Sets(request', s, request[s].todo, "later", request[s].answer, request[s].unrecorded)
    BY <2>6, Setters DEF PipelineTypeInv
  <2>8. request'[s].at = "later" /\ First(s)' = First(s)
    BY <2>7 DEF Sets, First
  <2> QED
    BY <2>5, <2>6, <2>8 DEF Later
<1> QED
  BY <1>4, <1>5

(***************************************************************************)
(* Requests: the invariants of admission and of the audit trail            *)
(***************************************************************************)
\* The request of slot s will be refused, or has been.
Stopped(s, barred, refusals) ==
    IF Running(s) THEN KeepsOut(request[s].todo, barred, refusals)
    ELSE request[s].answer \in {0} \cup refusals

\* The inductive invariant of admission: a caller who never had what the route asks for since
\* his request arrived is stopped, and "ever" holds all that was so at some time.
AdmissionInv ==
    \A s \in Slots :
        /\ Running(s) => Facts(request[s].user) \subseteq request[s].ever
        /\ request[s].route \notin Public /\ "active" \notin request[s].ever
           => Stopped(s, {"identity"}, {401})
        /\ request[s].route \in AdminOnly /\ request[s].user \notin Admins
           => Stopped(s, {"admin"}, {401, 403})
        /\ request[s].route \in Scoped /\ "related" \notin request[s].ever
           => Stopped(s, {"related", "row"}, Refusals(request[s].route))

\* The inductive invariant of the audit trail: as long as no store was away and the client is
\* there, what is changed is in front of its audit row, and what is touched in front of a
\* refusal or of such a change.
TrailInv ==
    \A s \in Slots :
        /\ Running(s) /\ ~request[s].hurt =>
             /\ away = {} /\ s \notin gone
             /\ Trailed(request[s])
        /\ ~Running(s) => Settled(request[s]) \/ request[s].hurt

\* A request that arrives has the whole chain of its route before it.
LEMMA ArrivalChain ==
    ASSUME PipelineTypeInv, NEW s \in Slots, Arrive(s)
    PROVE  /\ request'[s].route \in DOMAIN Routes
           /\ request'[s].todo = Routes[request'[s].route]
           /\ request'[s].user = request[s].user
           /\ request'[s].ever = Facts(request[s].user)'
           /\ (request'[s].hurt <=> away # {}) /\ request'[s].unrecorded = {}
           /\ Running(s)' /\ away' = away /\ s \notin gone'
<1>1. /\ request'[s].route = Head(request[s].asked)
      /\ request'[s].todo = Routes[Head(request[s].asked)]
      /\ request'[s].user = request[s].user
      /\ request'[s].ever = Facts(request[s].user)
      /\ (request'[s].hurt <=> away # {}) /\ request'[s].unrecorded = {}
      /\ request'[s].at = "ready"
  <2>1. request' = [request EXCEPT
         ![s].asked = Tail(@), ![s].route = Head(request[s].asked),
         ![s].todo = Routes[Head(request[s].asked)], ![s].at = "ready",
         ![s].answer = 0, ![s].ever = Facts(request[s].user),
         ![s].unrecorded = {}, ![s].hurt = away # {}]
    BY DEF Arrive
  <2> QED
    <3>1. DOMAIN request = Slots /\ DOMAIN request[s] = Fields
      BY DEF PipelineTypeInv, RequestInv
    <3>2. /\ request'[s].route = Head(request[s].asked)
          /\ request'[s].todo = Routes[Head(request[s].asked)]
      BY <2>1, <3>1 DEF Fields
    <3>3. /\ request'[s].user = request[s].user
          /\ request'[s].ever = Facts(request[s].user)
      BY <2>1, <3>1 DEF Fields
    <3>4. request'[s].hurt <=> away # {}
      BY <2>1, <3>1 DEF Fields
    <3>5. request'[s].unrecorded = {} /\ request'[s].at = "ready"
      BY <2>1, <3>1 DEF Fields
    <3> QED
      BY <3>2, <3>3, <3>4, <3>5
<1>2. /\ away' = away /\ s \notin gone' /\ active' = active /\ related' = related
      /\ request[s].asked # << >> /\ request[s].asked \in Seq(DOMAIN Routes)
  BY DEF Arrive, PipelineTypeInv
<1>3. Head(request[s].asked) \in DOMAIN Routes
  BY <1>2, HeadTailProperties
<1> QED
  BY <1>1, <1>2, <1>3 DEF Facts, Sees, Running

\* Every step preserves the admission invariant.
LEMMA AdmissionStep ==
    ASSUME PipelineTypeInv, AdmissionInv, [PipelineNext]_pipelineVars
    PROVE  AdmissionInv'
<1>1. \A s \in Slots : Carried(s) \/ Arrive(s) \/ Progress(s)
  BY EachSlot
<1>2. ASSUME NEW s \in Slots
      PROVE  /\ Running(s)' => (Facts(request[s].user) \subseteq request[s].ever)'
             /\ request'[s].route \notin Public /\ "active" \notin request'[s].ever
                => Stopped(s, {"identity"}, {401})'
             /\ request'[s].route \in AdminOnly /\ request'[s].user \notin Admins
                => Stopped(s, {"admin"}, {401, 403})'
             /\ request'[s].route \in Scoped /\ "related" \notin request'[s].ever
                => Stopped(s, {"related", "row"}, Refusals(request[s].route))'
  <2> USE DEF AdmissionInv
  <2>1. CASE Carried(s)
    <3>1. \A barred, refusals : Stopped(s, barred, refusals) => Stopped(s, barred, refusals)'
      BY <2>1 DEF Carried, Stopped, Running
    <3>2. Running(s)' => (Facts(request[s].user) \subseteq request[s].ever)'
      BY <2>1 DEF Carried, Running
    <3>3. /\ request'[s].route = request[s].route /\ request'[s].user = request[s].user
          /\ request[s].ever \subseteq request'[s].ever
      BY <2>1 DEF Carried
    <3> QED
      BY <3>1, <3>2, <3>3
  <2>2. CASE Arrive(s)
    <3>1. /\ Gated(request'[s].route, request'[s].todo) /\ Running(s)'
          /\ request'[s].ever = Facts(request[s].user)'
      BY <2>2, ArrivalChain, ChainsAreGated DEF AllGated
    <3> QED
      BY <3>1 DEF Gated, Stopped
  <2>3. CASE Progress(s)
    <3>1. PICK todo, at, answer, unrecorded : Sets(request', s, todo, at, answer, unrecorded)
      BY <2>3, ProgressAdvances, AdvanceSets DEF PipelineTypeInv
    <3>2. Running(s) /\ (Advances(s) \/ Loses(s)) /\ UNCHANGED environment
      BY <2>3, ProgressAdvances
    <3>3. /\ request'[s].route = request[s].route /\ request'[s].user = request[s].user
          /\ request'[s].ever = request[s].ever
          /\ Facts(request[s].user)' = Facts(request[s].user)
      BY <3>1, <3>2 DEF Sets, environment, Facts, Sees
    <3>4. /\ "active" \notin request[s].ever => request[s].user \notin active
          /\ "related" \notin request[s].ever => ~Sees(request[s].user)
      BY <3>2 DEF Facts
    <3>5. ASSUME NEW barred, NEW refusals, "allowed" \notin barred,
                 Stopped(s, barred, refusals), Barred(request[s].user, barred)
          PROVE  Stopped(s, barred, refusals)'
      <4>1. KeepsOut(request[s].todo, barred, refusals)
        BY <3>2, <3>5 DEF Stopped
      <4> QED
        <5>1. \/ Running(s)' /\ KeepsOut(request'[s].todo, barred, refusals)
              \/ ~Running(s)' /\ request'[s].answer \in refusals
          BY <3>2, <3>5, <4>1, KeptOutAdvances DEF PipelineTypeInv
        <5> QED
          BY <5>1 DEF Stopped
    <3>6. /\ "active" \notin request[s].ever => Barred(request[s].user, {"identity"})
          /\ request[s].user \notin Admins => Barred(request[s].user, {"admin"})
          /\ "related" \notin request[s].ever => Barred(request[s].user, {"related", "row"})
      BY <3>4 DEF Barred
    <3> QED
      BY <3>2, <3>3, <3>5, <3>6
  <2> QED
    BY <1>1, <2>1, <2>2, <2>3
<1> QED
  BY <1>2 DEF AdmissionInv

\* Every step preserves the invariant of the audit trail.
LEMMA TrailStep ==
    ASSUME PipelineTypeInv, TrailInv, [PipelineNext]_pipelineVars
    PROVE  TrailInv'
<1>1. \A s \in Slots : Carried(s) \/ Arrive(s) \/ Progress(s)
  BY EachSlot
<1>2. ASSUME NEW s \in Slots
      PROVE  /\ Running(s)' /\ ~request'[s].hurt =>
                  /\ away' = {} /\ s \notin gone'
                  /\ Trailed(request'[s])
             /\ ~Running(s)' => Settled(request'[s]) \/ request'[s].hurt
  <2> USE DEF TrailInv
  <2>1. CASE Carried(s)
    BY <2>1 DEF Carried, Running, PipelineTypeInv, Trailed, Settled
  <2>2. CASE Arrive(s)
    <3>1. Careful(request'[s].todo)
      BY <2>2, ArrivalChain, ChainsAreCareful DEF AllCareful
    <3> QED
      BY <2>2, <3>1, ArrivalChain DEF Trailed
  <2>3. CASE Progress(s)
    <3>1. PICK todo, at, answer, unrecorded : Sets(request', s, todo, at, answer, unrecorded)
      BY <2>3, ProgressAdvances, AdvanceSets DEF PipelineTypeInv
    <3>2. /\ Running(s) /\ (Advances(s) \/ Loses(s)) /\ away' = away /\ gone' = gone
          /\ request'[s].hurt = request[s].hurt
      BY <2>3, <3>1, ProgressAdvances DEF environment, Sets
    <3>3. CASE request[s].hurt
      BY <3>2, <3>3
    <3>4. CASE ~request[s].hurt
      <4>1. Advances(s)
        BY <3>2, <3>4 DEF Loses, Reaches
      <4> QED
        BY <3>2, <3>4, <4>1, TrailAdvances DEF PipelineTypeInv
    <3> QED
      BY <3>3, <3>4
  <2> QED
    BY <1>1, <2>1, <2>2, <2>3
<1> QED
  BY <1>2 DEF TrailInv

\* The invariants hold before the first request.
LEMMA RequestsInit == PipelineInit => AdmissionInv /\ TrailInv /\ CountersExpire
<1> SUFFICES ASSUME PipelineInit PROVE AdmissionInv /\ TrailInv /\ CountersExpire
  OBVIOUS
<1>1. /\ \A s \in Slots : /\ ~Running(s) /\ request[s].answer = 0
                          /\ request[s].unrecorded = {}
      /\ \A k \in Keys : counter[k] = 0
  BY DEF PipelineInit, Running
<1> QED
  BY <1>1 DEF AdmissionInv, TrailInv, CountersExpire, Stopped, Settled

\* CountersExpire, for any users, slots, traffic and limits: the login throttle leaves no
\* counter without a time to live (checkLoginRateLimit: INCR, then EXPIRE when it is 1), but for
\* one whose EXPIRE a lost Redis or a gone client cut off.
THEOREM CountersThatExpire == PipelineSpec => []CountersExpire
<1>1. PipelineInit => PipelineTypeInv /\ CountersExpire
  BY PipelineTypeInit, RequestsInit
<1>2. PipelineTypeInv /\ CountersExpire /\ [PipelineNext]_pipelineVars
      => PipelineTypeInv' /\ CountersExpire'
  BY PipelineTypeStep, CountersStep
<1> QED
  BY <1>1, <1>2, PTL DEF PipelineSpec

\* The invariant of admission holds of every behaviour.
LEMMA AdmissionInvariant == PipelineSpec => [](PipelineTypeInv /\ AdmissionInv)
<1>1. PipelineInit => PipelineTypeInv /\ AdmissionInv
  BY PipelineTypeInit, RequestsInit
<1>2. PipelineTypeInv /\ AdmissionInv /\ [PipelineNext]_pipelineVars
      => PipelineTypeInv' /\ AdmissionInv'
  BY PipelineTypeStep, AdmissionStep
<1> QED
  BY <1>1, <1>2, PTL DEF PipelineSpec

\* ServedWereAdmitted, for all routes of routes.go: whoever was served was active, an
\* administrator or related to the case at some time of his request, as his route asks for,
\* whatever memberships and accounts did meanwhile.
THEOREM ServedOnlyIfAdmitted == PipelineSpec => []ServedWereAdmitted
<1>1. AdmissionInv => ServedWereAdmitted
  <2> SUFFICES ASSUME AdmissionInv, NEW s \in Slots, Success(s)
               PROVE  /\ request[s].route \notin Public => "active" \in request[s].ever
                      /\ request[s].route \in AdminOnly => request[s].user \in Admins
                      /\ request[s].route \in Scoped => "related" \in request[s].ever
    BY DEF ServedWereAdmitted
  <2>1. /\ ~Running(s) /\ request[s].answer \notin {0, 400, 401, 403, 500}
    BY DEF Success, Answered
  <2>2. /\ ~Stopped(s, {"identity"}, {401}) /\ ~Stopped(s, {"admin"}, {401, 403})
        /\ ~Stopped(s, {"related", "row"}, Refusals(request[s].route))
    BY <2>1 DEF Stopped, Refusals
  <2> QED
    BY <2>2 DEF AdmissionInv
<1> QED
  BY <1>1, AdmissionInvariant, PTL

\* OutsiderLearnsNothing: a caller who never had a relation to the case or document gets the
\* same refusals whether it exists or not, from the middleware and from the export's handler.
THEOREM OutsidersLearnNothing == PipelineSpec => []OutsiderLearnsNothing
<1>1. AdmissionInv => OutsiderLearnsNothing
  <2> SUFFICES ASSUME AdmissionInv, NEW s \in Slots, Answered(s),
                      request[s].route \in Scoped, "related" \notin request[s].ever
               PROVE  \/ request[s].answer \in {401, 403, 500}
                      \/ request[s].route = "DownloadExport" /\ request[s].answer = 400
    BY DEF OutsiderLearnsNothing
  <2>1. Stopped(s, {"related", "row"}, Refusals(request[s].route))
    BY DEF AdmissionInv
  <2> QED
    BY <2>1 DEF Stopped, Answered, Refusals
<1> QED
  BY <1>1, AdmissionInvariant, PTL

\* ChangesRecorded, for every handler of routes.go: a request that was answered has changed
\* nothing without its audit event, unless a store was lost or the client went away in the
\* meantime; what may be left is a touched column (documents.status ACTIVE again,
\* users.last_login_at), and only behind a refusal.
THEOREM ChangesAreRecorded == PipelineSpec => []ChangesRecorded
<1>1. PipelineInit => PipelineTypeInv /\ TrailInv
  BY PipelineTypeInit, RequestsInit
<1>2. PipelineTypeInv /\ TrailInv /\ [PipelineNext]_pipelineVars
      => PipelineTypeInv' /\ TrailInv'
  BY PipelineTypeStep, TrailStep
<1>3. TrailInv => ChangesRecorded
  BY DEF TrailInv, ChangesRecorded, Answered, Settled, Success
<1> QED
  BY <1>1, <1>2, <1>3, PTL DEF PipelineSpec
================================================================================
