------------------------------ MODULE AuthSessions ------------------------------
(***************************************************************************)
(* AuthService and the parts of UserService that end sessions: refresh     *)
(* tokens are rotated, a token that is presented after its rotation ends   *)
(* its family, a password reset or a deactivation ends every session of    *)
(* the user.  A call is a sequence of short transactions; between two of   *)
(* them anything may happen, and the process may die.                      *)
(*                                                                         *)
(* A token stands for its row of auth_sessions.  Expiry and the login      *)
(* throttle are choices to refuse; bcrypt compares versions of a password. *)
(***************************************************************************)
EXTENDS Naturals, Sequences

CONSTANTS
    Users,
    Calls,          \* goroutines that serve requests
    MaxSessions,    \* bound on the rows of auth_sessions
    MaxResets,      \* bound on the password resets of each user
    None

ASSUME BoundsAssumption == MaxSessions \in Nat /\ MaxResets \in Nat

VARIABLES
    status,     \* users.status
    password,   \* users.password_hash, as a version number
    sessions,   \* auth_sessions in the order of their creation
    calls,      \* what each call has read so far
    burned      \* ghost: families in which a reuse was detected

vars == <<status, password, sessions, calls, burned>>

Ids == 1..MaxSessions
Statuses == {"active", "inactive"}

\* pc: the next step.  id: the row that was presented.  rows: what an UPDATE
\* of several rows has found.  new: what UpdateStatus or ResetPassword sets.
\* Ghosts: overtaken, the sessions this call works on were ended behind its
\* back; active, its user was active at some time during the call.
NoCall == [pc |-> "idle", user |-> None, id |-> 0, family |-> 0, password |-> 0,
           rows |-> {}, new |-> "", overtaken |-> FALSE, active |-> FALSE]

Init ==
    /\ status = [u \in Users |-> "active"]
    /\ password = [u \in Users |-> 0]
    /\ sessions = << >>
    /\ calls = [c \in Calls |-> NoCall]
    /\ burned = {}

Known == DOMAIN sessions
Live(s) == ~sessions[s].revoked
Delivered == {s \in Known : sessions[s].delivered}

Issuing(c) == calls[c].pc \in {"profile", "issue"}

Goto(c, pc) == calls' = [calls EXCEPT ![c].pc = pc]
Return(c) == calls' = [calls EXCEPT ![c] = NoCall]
Start(c, call) == calls' = [calls EXCEPT ![c] = call]
\* The start of a call that issues a session.
Begin(c, call) == Start(c, [call EXCEPT !.active = status[call.user] = "active"])

-----------------------------------------------------------------------------
(* Login                                                                    *)

\* Mutant: the password is not compared.
LoginUnverified(c, u, known) ==
    /\ calls[c].pc = "idle"
    /\ status[u] = "active"
    /\ Begin(c, [NoCall EXCEPT !.pc = "issue", !.user = u, !.password = known])
    /\ UNCHANGED <<status, password, sessions, burned>>

\* fetchAuthRow, the status and the password, old or current, that the
\* caller knows.  The transaction that follows loads the profile and the
\* roles without another look at the status.
Login(c, u, known) ==
    /\ calls[c].pc = "idle"
    /\ status[u] = "active" /\ known = password[u]
    /\ Begin(c, [NoCall EXCEPT !.pc = "issue", !.user = u, !.password = known])
    /\ UNCHANGED <<status, password, sessions, burned>>

-----------------------------------------------------------------------------
(* Refresh                                                                  *)

\* fetchSessionByHash: an old token is a reuse of it, a live one may have
\* expired.
Refresh(c, s) ==
    LET row == sessions[s]
        call == [NoCall EXCEPT !.user = row.user, !.id = s, !.family = row.family]
    IN
    /\ calls[c].pc = "idle"
    /\ IF row.revoked
       THEN Start(c, [call EXCEPT !.pc = "reuse"])
       ELSE Begin(c, [call EXCEPT !.pc = "profile", !.password = row.password,
                                  !.overtaken = row.straggler])
    /\ UNCHANGED <<status, password, sessions, burned>>

LoadProfile(c) ==
    /\ calls[c].pc = "profile"
    /\ IF status[calls[c].user] = "active" THEN Goto(c, "issue") ELSE Return(c)
    /\ UNCHANGED <<status, password, sessions, burned>>

\* uuid.New() for a login, the family of the presented session otherwise.
FamilyOf(call, id) == IF call.id = 0 THEN id ELSE call.family

\* issueSession, CreateAuthSession
IssueSession(c) ==
    LET call == calls[c]
        id == Len(sessions) + 1
    IN
    /\ call.pc = "issue" /\ id \in Ids
    /\ sessions' = Append(sessions,
          [user |-> call.user, family |-> FamilyOf(call, id), revoked |-> FALSE,
           replacedBy |-> 0, delivered |-> FALSE, password |-> call.password,
           straggler |-> call.overtaken, active |-> call.active])
    /\ Start(c, [NoCall EXCEPT !.pc = IF call.id = 0 THEN "reply" ELSE "rotate",
                               !.id = call.id, !.rows = {id}])
    /\ UNCHANGED <<status, password, burned>>

\* Mutant: WHERE id = $1, without revoked_at IS NULL.
RotatedAlways(ss, old, new) ==
    [ss EXCEPT ![old].revoked = TRUE, ![old].replacedBy = new]

\* RevokeAuthSessionAndReplace
Rotated(ss, old, new) ==
    IF ss[old].revoked THEN ss
    ELSE [ss EXCEPT ![old].revoked = TRUE, ![old].replacedBy = new]

Rotate(c) ==
    /\ calls[c].pc = "rotate"
    /\ \E new \in calls[c].rows : sessions' = Rotated(sessions, calls[c].id, new)
    /\ Goto(c, "reply")
    /\ UNCHANGED <<status, password, burned>>

\* The client receives the new token; what it does with it is up to it.
Reply(c) ==
    /\ calls[c].pc = "reply"
    /\ \E new \in calls[c].rows :
          sessions' = [sessions EXCEPT ![new].delivered = TRUE]
    /\ Return(c)
    /\ UNCHANGED <<status, password, burned>>

-----------------------------------------------------------------------------
(* Logout, one UPDATE of one row, by an authenticated user.                 *)

FetchLogout(c, u, s) ==
    /\ calls[c].pc = "idle"
    /\ status[u] = "active"                 \* ResolveIdentity
    /\ sessions[s].user = u
    /\ Start(c, [NoCall EXCEPT !.pc = "logout", !.user = u, !.id = s])
    /\ UNCHANGED <<status, password, sessions, burned>>

\* RevokeAuthSession
Logout(c) ==
    /\ calls[c].pc = "logout"
    /\ sessions' = [sessions EXCEPT ![calls[c].id].revoked = TRUE]
    /\ Return(c)
    /\ UNCHANGED <<status, password, burned>>

-----------------------------------------------------------------------------
(* UPDATEs of several rows.  The statement finds its rows in a snapshot;    *)
(* what it writes is seen at COMMIT.  A row is inserted in between without  *)
(* waiting: the foreign key needs no more than a key share lock.  A row     *)
(* that somebody else revokes in between is no longer of interest.          *)

RevokeFamily(c) ==
    /\ calls[c].pc = "reuse"
    /\ calls' = [calls EXCEPT ![c].pc = "commit",
          ![c].rows = {s \in Known : sessions[s].family = calls[c].family /\ Live(s)}]
    /\ UNCHANGED <<status, password, sessions, burned>>

\* UpdateStatus with another status than ACTIVE, ResetPassword: authorized
\* already, an administrator may repeat them at will.
RevokeAll(c, u, new) ==
    /\ calls[c].pc = "idle"
    /\ Start(c, [NoCall EXCEPT !.pc = "commit", !.user = u, !.new = new,
                    !.rows = {s \in Known : sessions[s].user = u /\ Live(s)}])
    /\ UNCHANGED <<status, password, sessions, burned>>

\* UpdateStatus with ACTIVE
Reactivate(u) ==
    /\ status[u] # "active"
    /\ status' = [status EXCEPT ![u] = "active"]
    /\ calls' = [c \in Calls |->
          [calls[c] EXCEPT !.active = @ \/ (Issuing(c) /\ calls[c].user = u)]]
    /\ UNCHANGED <<password, sessions, burned>>

\* Mutant: only the newest of the rows is revoked.
RevokedNewest(ss, rows) ==
    [s \in DOMAIN ss |-> IF s \in rows /\ \A r \in rows : r <= s
                         THEN [ss[s] EXCEPT !.revoked = TRUE] ELSE ss[s]]

Revoked(ss, rows) ==
    [s \in DOMAIN ss |-> IF s \in rows THEN [ss[s] EXCEPT !.revoked = TRUE]
                                       ELSE ss[s]]

\* In scope: what COMMIT is meant to end.
InScope(call, user, family) ==
    user = call.user /\ (call.id = 0 \/ family = call.family)

Commit(c) ==
    LET call == calls[c]
        revoked == Revoked(sessions, call.rows)
    IN
    /\ call.pc = "commit"
    /\ call.new = "password" => password[call.user] < MaxResets
    /\ status' = IF call.new = "inactive"
                 THEN [status EXCEPT ![call.user] = "inactive"] ELSE status
    /\ password' = IF call.new = "password"
                   THEN [password EXCEPT ![call.user] = @ + 1] ELSE password
    /\ sessions' = [s \in Known |->
          [revoked[s] EXCEPT !.straggler =
              \/ @
              \/ /\ InScope(call, sessions[s].user, sessions[s].family)
                 /\ s \notin call.rows /\ Live(s)]]
    /\ calls' = [d \in Calls |->
          IF d = c THEN NoCall
          ELSE [calls[d] EXCEPT !.overtaken =
                    \/ @
                    \/ Issuing(d) /\ InScope(call, calls[d].user, calls[d].family)]]
    /\ burned' = IF call.id = 0 THEN burned ELSE burned \cup {call.family}

\* A statement fails, the token has expired, or the process dies.
Fail(c) ==
    /\ calls[c].pc # "idle"
    /\ Return(c)
    /\ UNCHANGED <<status, password, sessions, burned>>

-----------------------------------------------------------------------------
Next ==
    \/ \E c \in Calls :
        \/ \E u \in Users, known \in 0..MaxResets : Login(c, u, known)
        \/ \E s \in Delivered : Refresh(c, s)
        \/ \E u \in Users, s \in Delivered : FetchLogout(c, u, s)
        \/ \E u \in Users, new \in {"inactive", "password"} : RevokeAll(c, u, new)
        \/ LoadProfile(c) \/ IssueSession(c) \/ Rotate(c)
        \/ Reply(c) \/ Logout(c) \/ RevokeFamily(c) \/ Commit(c) \/ Fail(c)
    \/ \E u \in Users : Reactivate(u)

Spec == Init /\ [][Next]_vars
-----------------------------------------------------------------------------
Session ==
    [user : Users, family : Ids, revoked : BOOLEAN, replacedBy : Ids \cup {0},
     delivered : BOOLEAN, password : 0..MaxResets, straggler : BOOLEAN,
     active : BOOLEAN]

Call ==
    [pc : {"idle", "profile", "issue", "rotate", "reply", "logout",
           "reuse", "commit"},
     user : Users \cup {None}, id : Ids \cup {0}, family : Ids \cup {0},
     password : 0..MaxResets, rows : SUBSET Ids,
     new : {"", "inactive", "password"}, overtaken : BOOLEAN, active : BOOLEAN]

\* A rotated token was replaced by a later one of its family, and a family
\* belongs to one user.
TypeOK ==
    /\ status \in [Users -> Statuses]
    /\ password \in [Users -> 0..MaxResets]
    /\ sessions \in Seq(Session) /\ Len(sessions) <= MaxSessions
    /\ calls \in [Calls -> Call]
    /\ burned \subseteq Ids
    /\ \A s \in Known :
          /\ sessions[s].family <= s
          /\ sessions[sessions[s].family].user = sessions[s].user
          /\ sessions[s].replacedBy # 0 =>
                /\ sessions[s].replacedBy \in (s + 1)..Len(sessions)
                /\ sessions[sessions[s].replacedBy].family = sessions[s].family

(***************************************************************************)
(* Refresh: a token that is presented after it was rotated or revoked ends *)
(* its family.  What is live in the family afterwards was issued by a      *)
(* refresh that was under way at that moment, or descends from one.        *)
(***************************************************************************)
ReuseEndsFamily ==
    \A s \in Known :
        Live(s) /\ sessions[s].family \in burned => sessions[s].straggler

(***************************************************************************)
(* UpdateStatus and ResetPassword: a live session of a deactivated user,   *)
(* or one that goes back to a login with a former password, was issued by  *)
(* a call that was under way when the change was committed, or descends    *)
(* from one.  Login and Refresh: no session is issued by a call during all *)
(* of which its user was deactivated, not even from a token that the       *)
(* deactivation missed.                                                    *)
(***************************************************************************)
RevokeAllEndsSessions ==
    \A s \in Known :
        /\ sessions[s].active
        /\ /\ Live(s)
           /\ \/ status[sessions[s].user] # "active"
              \/ sessions[s].password # password[sessions[s].user]
           => sessions[s].straggler

(***************************************************************************)
(* RevokeAuthSession, RevokeAuthSessionAndReplace and the others update    *)
(* live rows only: a session that ended stays ended, and which session     *)
(* replaced it is decided once, whoever races to rotate or revoke it.      *)
(***************************************************************************)
RevokedIsFinal ==
    [][\A s \in Known :
          ~Live(s) => /\ sessions'[s].revoked
                      /\ sessions'[s].replacedBy = sessions[s].replacedBy]_vars

(***************************************************************************)
(* ResetPassword: "Every existing session is revoked afterward, [...] so   *)
(* a stolen refresh token can't outlive the reset."  No live session goes  *)
(* back to a login with a former password.  The code does not keep this:   *)
(* README, section 5.                                                      *)
(***************************************************************************)
ResetEndsSessions ==
    \A s \in Known :
        Live(s) => sessions[s].password = password[sessions[s].user]
=============================================================================
