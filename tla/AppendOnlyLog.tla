---------------------------- MODULE AppendOnlyLog ----------------------------
(***************************************************************************)
(* What the audit chain promises to everybody who reads it: one sequence   *)
(* of entries that only ever grows at its end, one entry at a time, and in *)
(* which no event appears twice.  AuditChain implements this specification *)
(* although many transactions of many processes write concurrently.        *)
(***************************************************************************)
EXTENDS Naturals, Sequences

CONSTANTS
    Events,         \* the audit events that may ever be recorded
    Ids             \* the identifiers an entry may be given

VARIABLE
    log             \* the entries, oldest first

Init == log = <<>>

\* Events already in the log.
Logged == {log[i].event : i \in DOMAIN log}

AppendEntry(id, e) ==
    /\ e \notin Logged
    /\ log' = Append(log, [id |-> id, event |-> e])

Next == \E e \in Events, id \in Ids : AppendEntry(id, e)

Spec == Init /\ [][Next]_log
=============================================================================
