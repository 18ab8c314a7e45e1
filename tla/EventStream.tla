------------------------------ MODULE EventStream ------------------------------
(***************************************************************************)
(* Server-sent events: from the row of a verification, over the publisher   *)
(* and Redis, through the Manager of this process, to the connections that  *)
(* handlers/audit/events.go, handlers/case/events.go and                    *)
(* handlers/user/events.go serve.                                           *)
(*                                                                         *)
(* An event of a verification is the version of its row: 0 is QUEUED, 1 is  *)
(* RUNNING, Last is a terminal status and what lies between are batches.    *)
(* An event of a case (or of the user list) says only "fetch again".        *)
(***************************************************************************)
EXTENDS Naturals, Sequences, FiniteSets

CONSTANTS
    Users,
    Watchers,       \* connections to the stream of the verification
    Listeners,      \* connections to the stream of a case or of the user list
    UserOf,         \* the user of each connection
    Last,           \* the version of the terminal row
    Buffer,         \* subscriberBufferSize
    MaxPerUser,     \* maxConnectionsPerUser
    MaxNotices,     \* bound: events published for the case
    RedisLoses,     \* whether Redis may lose an event while it is connected
    TasksFail       \* whether a verification may fail for good

Conns == Watchers \cup Listeners

ASSUME StreamAssumption ==
    /\ Watchers \cap Listeners = {}
    /\ UserOf \in [Conns -> Users]
    /\ Last \in Nat \ {0, 1}
    /\ Buffer \in Nat \ {0}
    /\ MaxPerUser \in Nat \ {0} /\ MaxNotices \in Nat
    /\ {RedisLoses, TasksFail} \subseteq BOOLEAN

VARIABLES
    row,        \* the committed version of audit_verifications' row
    reached,    \* the version that the worker committed last, or thinks it did
    worker,     \* what the worker does next: "commit", "publish", "dead", "idle"
    failing,    \* MarkVerificationOperationallyFailed: "no", "read",
                \* "published", and "committed" or "over" if it was rolled back
    notices,    \* events published for the case so far
    lost,       \* whether an event was lost before it reached the Manager
    wire,       \* published, not yet received by the Manager
    manager,    \* "off", "reading", "done"
    fan,        \* dispatch: the event and the channels it still goes to
    subs,       \* channels registered with the Manager
    perUser,    \* the Manager's count of registrations per user
    chan,       \* the buffer of each connection's channel
    pc,         \* where each connection's handler is
    initial,    \* the row version GetVerification returned to the handler
    seen,       \* the versions written to each client, oldest first
    missed      \* connections whose full buffer cost them the terminal event

streamVars == <<row, reached, worker, failing, notices, lost, wire, manager, fan, subs,
                perUser, chan, pc, initial, seen, missed>>

(***************************************************************************)
(* Events and their scope                                                  *)
(***************************************************************************)
Versions == 0 .. Last

\* Event with its ScopeKey: a version of the verification or a notice.
VerificationEvent(v) == [resource |-> "audit_verification", version |-> v]
CaseEvent == [resource |-> "case", version |-> 0]
Event == {VerificationEvent(v) : v \in Versions} \cup {CaseEvent}

ScopeKey(c) == IF c \in Watchers THEN "audit_verification" ELSE "case"

\* isAuditVerificationTerminal; the streams of Listeners pass no predicate.
isTerminal(e) == e.resource = "audit_verification" /\ e.version = Last

Idle == [event |-> CaseEvent, to |-> {}]

Held == {c \in Conns : pc[c] \in {"registered", "read", "open"}}

StreamTypeOK ==
    /\ row \in Versions /\ reached \in Versions
    /\ worker \in {"commit", "publish", "dead", "idle"}
    /\ failing \in {"no", "read", "published", "committed", "over"}
    /\ notices \in 0 .. MaxNotices /\ lost \in BOOLEAN
    /\ wire \in Seq(Event)
    /\ manager \in {"off", "reading", "done"}
    /\ fan.event \in Event /\ fan.to \subseteq Conns
    /\ subs \subseteq Conns
    /\ perUser \in [Users -> 0 .. MaxPerUser]
    /\ \A c \in Conns : Len(chan[c]) <= Buffer
    /\ pc \in [Conns -> {"new", "registered", "read", "open", "ended"}]
    /\ initial \in [Conns -> Versions]
    /\ missed \subseteq Conns

StreamInit ==
    /\ row = 0 /\ reached = 0 /\ worker = "commit" /\ failing = "no"
    /\ notices = 0 /\ lost = FALSE /\ wire = << >>
    /\ manager = "off" /\ fan = Idle
    /\ subs = {} /\ perUser = [u \in Users |-> 0]
    /\ chan = [c \in Conns |-> << >>]
    /\ pc = [c \in Conns |-> "new"]
    /\ initial = [c \in Conns |-> 0]
    /\ seen = [c \in Conns |-> << >>]
    /\ missed = {}

(***************************************************************************)
(* Publishers                                                              *)
(***************************************************************************)
\* RedisPublisher.Publish: an event that cannot be sent is logged and gone;
\* Redis Pub/Sub keeps nothing for a Manager that does not listen.
Publish(e) ==
    \/ /\ manager = "reading"
       /\ wire' = Append(wire, e)
       /\ UNCHANGED lost
    \/ /\ manager # "reading" \/ RedisLoses
       /\ lost' = TRUE
       /\ UNCHANGED wire

connVars == <<subs, perUser, chan, pc, initial, seen>>

\* The worker commits the next version (MarkRunning, UpdateProgress, Complete).
\* A row that a reader has failed in the meantime is not begun; a run that has
\* begun goes on, leaves such a row alone and overwrites it at its end.
WorkerCommit ==
    /\ worker = "commit" /\ reached < Last
    /\ \/ /\ reached = 0 /\ row # 0
          /\ worker' = "idle"
          /\ UNCHANGED <<row, reached>>
       \/ /\ reached > 0 \/ row = 0
          /\ reached' = reached + 1
          /\ row' = IF row = Last THEN Last ELSE reached'
          /\ worker' = "publish"
    /\ UNCHANGED <<failing, notices, lost, wire, manager, fan, missed, connVars>>

\* Mutant: the last event is not published.
WorkerPublishProgress ==
    /\ worker = "publish"
    /\ IF reached = Last THEN UNCHANGED <<wire, lost>> ELSE Publish(VerificationEvent(reached))
    /\ worker' = IF reached = Last THEN "idle" ELSE "commit"
    /\ UNCHANGED <<row, reached, failing, notices, manager, fan, missed, connVars>>

\* It publishes what it has committed when the transaction is over.
WorkerPublish ==
    /\ worker = "publish"
    /\ Publish(VerificationEvent(reached))
    /\ worker' = IF reached = Last THEN "idle" ELSE "commit"
    /\ UNCHANGED <<row, reached, failing, notices, manager, fan, missed, connVars>>

\* The process of the worker dies: nothing more is committed or published.
WorkerDies ==
    /\ worker \in {"commit", "publish"}
    /\ worker' = "dead"
    /\ UNCHANGED <<row, reached, failing, notices, lost, wire, manager, fan, missed, connVars>>

\* MarkVerificationOperationallyFailed reads a row that is not settled ...
FailureRead ==
    /\ TasksFail
    /\ failing = "no" /\ worker = "dead" /\ row < Last
    /\ failing' = "read"
    /\ UNCHANGED <<row, reached, worker, notices, lost, wire, manager, fan, missed, connVars>>

\* ... sets it, which locks it, and publishes inside the transaction ...
FailurePublish ==
    /\ failing = "read"
    /\ Publish(VerificationEvent(Last))
    /\ failing' = "published"
    /\ UNCHANGED <<row, reached, worker, notices, manager, fan, missed, connVars>>

\* ... which commits afterwards, or does not.
FailureCommit ==
    /\ failing = "published"
    /\ \/ row' = Last /\ failing' = "committed"
       \/ row' = row /\ failing' = "over"
    /\ UNCHANGED <<reached, worker, notices, lost, wire, manager, fan, missed, connVars>>

\* reconcileStale: whoever reads a row that has not changed for long (a stream
\* at its start, GetVerification, a list, the summary) fails it, whether its
\* worker is dead or slow, and publishes nothing.
Settle ==
    /\ row < Last /\ failing # "published"
    /\ row' = Last

ReconcileStale ==
    /\ Settle
    /\ UNCHANGED <<reached, worker, failing, notices, lost, wire, manager, fan, missed,
                   connVars>>

\* The services publish for a case after their own COMMIT.
CaseNotice ==
    /\ notices < MaxNotices
    /\ notices' = notices + 1
    /\ Publish(CaseEvent)
    /\ UNCHANGED <<row, reached, worker, failing, manager, fan, missed, connVars>>

(***************************************************************************)
(* The Manager                                                             *)
(***************************************************************************)
\* Manager.Start: receive; dispatch takes its list of channels under the lock.
ManagerReceive ==
    /\ manager = "reading" /\ fan.to = {} /\ wire # << >>
    /\ fan' = [event |-> Head(wire),
               to |-> {c \in subs : ScopeKey(c) = Head(wire).resource}]
    /\ wire' = Tail(wire)
    /\ UNCHANGED <<row, reached, worker, failing, notices, lost, manager, missed, connVars>>

\* dispatch sends to one of them without the lock: a full buffer drops it, and
\* what goes to a channel whose handler has returned is never read.
Dispatch(c) ==
    /\ c \in fan.to
    /\ fan' = IF fan.to = {c} THEN Idle ELSE [fan EXCEPT !.to = @ \ {c}]
    /\ IF Len(chan[c]) < Buffer
         THEN /\ chan' = IF c \in subs THEN [chan EXCEPT ![c] = Append(@, fan.event)]
                                       ELSE chan
              /\ UNCHANGED missed
         ELSE /\ missed' = IF isTerminal(fan.event) THEN missed \cup {c} ELSE missed
              /\ UNCHANGED chan
    /\ UNCHANGED <<row, reached, worker, failing, notices, lost, wire, manager, subs,
                   perUser, pc, initial, seen>>

\* Manager.Register: nothing is checked but the number of the user's streams.
Register(c, next) ==
    IF perUser[UserOf[c]] >= MaxPerUser
      THEN /\ pc' = [pc EXCEPT ![c] = "ended"]
           /\ UNCHANGED <<subs, perUser>>
      ELSE /\ subs' = subs \cup {c}
           /\ perUser' = [perUser EXCEPT ![UserOf[c]] = @ + 1]
           /\ pc' = [pc EXCEPT ![c] = next]

\* unsubscribe: a second call finds nothing and counts nothing. The channel is
\* not closed, only left to the garbage collector.
Unsubscribe(c) ==
    /\ subs' = subs \ {c}
    /\ chan' = [chan EXCEPT ![c] = << >>]
    /\ initial' = [initial EXCEPT ![c] = 0]
    /\ perUser' = IF c \in subs THEN [perUser EXCEPT ![UserOf[c]] = @ - 1]
                               ELSE perUser

(***************************************************************************)
(* The handlers                                                            *)
(***************************************************************************)
\* handlers/audit Events registers before it reads.
EventsRegister(c) ==
    /\ c \in Watchers /\ pc[c] = "new"
    /\ Register(c, "registered")
    /\ UNCHANGED <<row, reached, worker, failing, notices, lost, wire, manager, fan, chan,
                   initial, seen, missed>>

\* Mutant: the error path forgets the registration.
EventsRefusedLeaking(c) ==
    /\ pc[c] = "registered"
    /\ pc' = [pc EXCEPT ![c] = "ended"]
    /\ UNCHANGED <<row, reached, worker, failing, notices, lost, wire, manager, fan, seen, missed,
                   subs, perUser, chan, initial>>

\* GetVerification: a refusal or an error gives the registration back.
EventsRefused(c) ==
    /\ pc[c] = "registered"
    /\ Unsubscribe(c)
    /\ pc' = [pc EXCEPT ![c] = "ended"]
    /\ UNCHANGED <<row, reached, worker, failing, notices, lost, wire, manager, fan, seen, missed>>

\* GetVerification returns the row, which it may settle first.
EventsSnapshot(c) ==
    /\ pc[c] = "registered"
    /\ Settle \/ UNCHANGED row
    /\ initial' = [initial EXCEPT ![c] = row']
    /\ pc' = [pc EXCEPT ![c] = "read"]
    /\ UNCHANGED <<reached, worker, failing, notices, lost, wire, manager, fan, chan, subs,
                   perUser, seen, missed>>

\* handlers/case Events and handlers/user Events: no snapshot.
ListenerEvents(c) ==
    /\ c \in Listeners /\ pc[c] = "new"
    /\ Register(c, "open")
    /\ UNCHANGED <<row, reached, worker, failing, notices, lost, wire, manager, fan, chan,
                   initial, seen, missed>>

\* writeEvent, and the return of Stream, which unsubscribes, on a terminal one;
\* queue is what the channel holds behind this event.
WriteEvent(c, e, queue) ==
    /\ seen' = IF c \in Watchers THEN [seen EXCEPT ![c] = Append(@, e.version)] ELSE seen
    /\ IF isTerminal(e)
         THEN Unsubscribe(c) /\ pc' = [pc EXCEPT ![c] = "ended"]
         ELSE /\ pc' = [pc EXCEPT ![c] = "open"]
              /\ chan' = [chan EXCEPT ![c] = queue]
              /\ UNCHANGED <<subs, perUser, initial>>

\* Mutant: the channel is emptied when the stream begins, as if the handler had
\* registered behind its read.
StreamInitialEmptied(c) ==
    /\ pc[c] = "read"
    /\ WriteEvent(c, VerificationEvent(initial[c]), << >>)
    /\ UNCHANGED <<row, reached, worker, failing, notices, lost, wire, manager, fan, missed>>

\* Mutant: a terminal snapshot does not end the stream.
StreamInitialEndless(c) ==
    /\ pc[c] = "read"
    /\ seen' = [seen EXCEPT ![c] = <<initial[c]>>]
    /\ pc' = [pc EXCEPT ![c] = "open"]
    /\ UNCHANGED <<row, reached, worker, failing, notices, lost, wire, manager, fan, missed,
                   subs, perUser, chan, initial>>

\* Stream writes the snapshot first ...
StreamInitial(c) ==
    /\ pc[c] = "read"
    /\ WriteEvent(c, VerificationEvent(initial[c]), chan[c])
    /\ UNCHANGED <<row, reached, worker, failing, notices, lost, wire, manager, fan, missed>>

\* ... then each event of its channel.
StreamRelay(c) ==
    /\ pc[c] = "open" /\ chan[c] # << >>
    /\ WriteEvent(c, Head(chan[c]), Tail(chan[c]))
    /\ UNCHANGED <<row, reached, worker, failing, notices, lost, wire, manager, fan, missed>>

\* The client is gone (found by a write, a heartbeat or the request's
\* context), or the hour is over.
StreamEnds(c) ==
    /\ pc[c] \in {"read", "open"}
    /\ Unsubscribe(c)
    /\ pc' = [pc EXCEPT ![c] = "ended"]
    /\ UNCHANGED <<row, reached, worker, failing, notices, lost, wire, manager, fan, seen, missed>>

Handle(c) ==
    EventsSnapshot(c) \/ StreamInitial(c) \/ StreamRelay(c)

Publishers == WorkerCommit \/ WorkerPublish \/ WorkerDies \/ FailureRead
                \/ FailurePublish \/ FailureCommit \/ CaseNotice
================================================================================
