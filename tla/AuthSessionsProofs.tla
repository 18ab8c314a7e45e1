-------------------------- MODULE AuthSessionsProofs --------------------------
(***************************************************************************)
(* Proofs about AuthSessions for any number of users, concurrent calls,    *)
(* sessions and password resets: a session that ended stays ended, and     *)
(* what outlives a detected reuse, a reset or a deactivation was issued by *)
(* a call that was under way when it was committed, or descends from such  *)
(* a session.                                                              *)
(***************************************************************************)
EXTENDS AuthSessions, SequenceTheorems, TLAPS

(***************************************************************************)
(* The inductive invariant                                                 *)
(***************************************************************************)
\* What a call holds in its hands, of the session that was presented and of
\* the one that it issued.
CallOK(k) ==
    /\ k.pc \in {"profile", "reuse", "rotate", "logout"} => k.id # 0
    /\ k.pc # "idle" /\ k.id # 0 => k.id \in Known
    /\ k.pc \in {"profile", "issue", "reuse", "logout", "commit"} => k.user \in Users
    /\ k.pc \in {"profile", "issue", "reuse", "commit"} /\ k.id # 0 =>
          k.user = sessions[k.id].user /\ k.family = sessions[k.id].family
    /\ k.pc \in {"rotate", "reply"} => k.rows \subseteq Known
    /\ k.pc = "rotate" => \A n \in k.rows :
          k.id < n /\ sessions[n].family = sessions[k.id].family
    /\ k.pc \in {"reuse", "commit"} /\ k.id # 0 => k.new = ""

\* A call that will issue a session which the change of a password, of a
\* status or the end of a family should have prevented was overtaken by it.
OvertakenOK(k) ==
    k.pc \in {"profile", "issue"} =>
        /\ status[k.user] # "active" => k.overtaken
        /\ k.password # password[k.user] => k.overtaken
        /\ k.id # 0 /\ k.family \in burned => k.overtaken
        /\ k.pc = "issue" \/ status[k.user] = "active" => k.active

CallInv == \A c \in Calls : CallOK(calls[c]) /\ OvertakenOK(calls[c])

\* A family is named by its first session.
BurnedInv == burned \subseteq Known

SessionInv == TypeOK /\ CallInv /\ BurnedInv /\ ReuseEndsFamily /\ RevokeAllEndsSessions

-----------------------------------------------------------------------------
(***************************************************************************)
(* What each step does to the call that takes it                           *)
(***************************************************************************)
LEMMA NoCallFacts ==
    /\ NoCall \in Call /\ CallOK(NoCall) /\ OvertakenOK(NoCall)
    /\ NoCall.pc = "idle" /\ NoCall.id = 0 /\ NoCall.family = 0 /\ NoCall.rows = {}
    /\ NoCall.new = "" /\ NoCall.overtaken = FALSE /\ NoCall.active = FALSE
BY BoundsAssumption DEF Call, NoCall, CallOK, OvertakenOK

LEMMA KnownFacts ==
    ASSUME TypeOK
    PROVE  /\ Known = 1..Len(sessions) /\ Known \subseteq Ids /\ Len(sessions) \in Nat
           /\ \A s \in Known : sessions[s] \in Session
BY BoundsAssumption DEF TypeOK, Known, Ids

\* The call that Begin starts.
LEMMA BeginCall ==
    ASSUME NEW c \in Calls, NEW k \in Call, Begin(c, k)
    PROVE  \E t \in Call :
              /\ calls' = [calls EXCEPT ![c] = t]
              /\ t.pc = k.pc /\ t.user = k.user /\ t.id = k.id /\ t.family = k.family
              /\ t.password = k.password /\ t.rows = k.rows /\ t.new = k.new
              /\ t.overtaken = k.overtaken /\ (t.active <=> status[k.user] = "active")
<1>1. PICK t : t = [k EXCEPT !.active = status[k.user] = "active"]
  OBVIOUS
<1>2. t \in Call
  BY <1>1 DEF Call
<1>3. calls' = [calls EXCEPT ![c] = t]
  BY <1>1 DEF Begin, Start
<1> QED  BY <1>1, <1>2, <1>3 DEF Call

LEMMA LoginCall ==
    ASSUME NEW c \in Calls, NEW u \in Users, NEW known \in 0..MaxResets,
           Login(c, u, known)
    PROVE  \E t \in Call :
              /\ calls' = [calls EXCEPT ![c] = t]
              /\ t.pc = "issue" /\ t.user = u /\ t.id = 0 /\ t.password = password[u]
              /\ t.active
<1>1. PICK k : k = [NoCall EXCEPT !.pc = "issue", !.user = u, !.password = known]
  OBVIOUS
<1>2. k \in Call /\ k.pc = "issue" /\ k.user = u /\ k.id = 0 /\ k.password = known
  BY <1>1, NoCallFacts DEF Call
<1>3. Begin(c, k) /\ known = password[u] /\ status[u] = "active"
  BY <1>1 DEF Login
<1> QED  BY <1>2, <1>3, BeginCall

LEMMA RefreshCall ==
    ASSUME TypeOK, NEW c \in Calls, NEW s \in Known, Refresh(c, s)
    PROVE  LET row == sessions[s] IN
           \E t \in Call :
              /\ calls' = [calls EXCEPT ![c] = t]
              /\ t.user = row.user /\ t.id = s /\ t.family = row.family /\ t.new = ""
              /\ \/ t.pc = "reuse"
                 \/ /\ t.pc = "profile" /\ Live(s) /\ t.password = row.password
                    /\ t.overtaken = row.straggler
                    /\ (t.active <=> status[row.user] = "active")
<1> DEFINE row == sessions[s]
<1>0. row \in Session /\ s \in Ids
  BY KnownFacts
<1> HIDE DEF row
<1>1. PICK k : k = [NoCall EXCEPT !.user = row.user, !.id = s, !.family = row.family]
  OBVIOUS
<1>2. /\ k \in Call /\ k.pc = "idle" /\ k.user = row.user /\ k.id = s
      /\ k.family = row.family /\ k.new = ""
  BY <1>0, <1>1, NoCallFacts DEF Call, Session
<1>3. CASE row.revoked
  <2>1. PICK t : t = [k EXCEPT !.pc = "reuse"]
    OBVIOUS
  <2>2. calls' = [calls EXCEPT ![c] = t]
    BY <1>1, <1>3, <2>1 DEF Refresh, Start, row
  <2>3. /\ t \in Call /\ t.pc = "reuse" /\ t.user = row.user /\ t.id = s
        /\ t.family = row.family /\ t.new = ""
    BY <1>2, <2>1 DEF Call
  <2> QED  BY <2>2, <2>3 DEF row
<1>4. CASE ~row.revoked
  <2>1. PICK m : m = [k EXCEPT !.pc = "profile", !.password = row.password,
                               !.overtaken = row.straggler]
    OBVIOUS
  <2>2. Begin(c, m)
    BY <1>1, <1>4, <2>1 DEF Refresh, row
  <2>3. /\ m \in Call /\ m.pc = "profile" /\ m.user = row.user /\ m.id = s
        /\ m.family = row.family /\ m.new = "" /\ m.password = row.password
        /\ m.overtaken = row.straggler
    BY <1>0, <1>2, <2>1 DEF Call, Session
  <2>4. PICK t \in Call :
              /\ calls' = [calls EXCEPT ![c] = t]
              /\ t.pc = m.pc /\ t.user = m.user /\ t.id = m.id /\ t.family = m.family
              /\ t.password = m.password /\ t.rows = m.rows /\ t.new = m.new
              /\ t.overtaken = m.overtaken /\ (t.active <=> status[m.user] = "active")
    BY <2>2, <2>3, BeginCall
  <2>5. t.overtaken = row.straggler /\ (t.active <=> status[row.user] = "active")
    BY <2>3, <2>4
  <2>6. Live(s)
    BY <1>4 DEF Live, row
  <2> QED  BY <2>3, <2>4, <2>5, <2>6 DEF row
<1> QED  BY <1>3, <1>4

LEMMA RevokeFamilyCall ==
    ASSUME TypeOK, NEW c \in Calls, RevokeFamily(c)
    PROVE  \E t \in Call :
              /\ calls' = [calls EXCEPT ![c] = t]
              /\ t.pc = "commit" /\ t.user = calls[c].user /\ t.id = calls[c].id
              /\ t.family = calls[c].family /\ t.new = calls[c].new
<1> DEFINE r == {s \in Known : sessions[s].family = calls[c].family /\ Live(s)}
<1>1. r \in SUBSET Ids
  BY KnownFacts
<1>2. PICK t : t = [calls[c] EXCEPT !.pc = "commit", !.rows = r]
  OBVIOUS
<1>3. calls' = [calls EXCEPT ![c] = t]
  BY <1>2 DEF RevokeFamily, TypeOK
<1> HIDE DEF r
<1>4. /\ t \in Call /\ t.pc = "commit" /\ t.user = calls[c].user /\ t.id = calls[c].id
      /\ t.family = calls[c].family /\ t.new = calls[c].new
  BY <1>1, <1>2 DEF TypeOK, Call
<1> QED  BY <1>3, <1>4

LEMMA RevokeAllCall ==
    ASSUME TypeOK, NEW c \in Calls, NEW u \in Users, NEW new \in {"inactive", "password"},
           RevokeAll(c, u, new)
    PROVE  \E t \in Call :
              /\ calls' = [calls EXCEPT ![c] = t]
              /\ t.pc = "commit" /\ t.user = u /\ t.id = 0
<1> DEFINE r == {s \in Known : sessions[s].user = u /\ Live(s)}
<1>1. r \in SUBSET Ids
  BY KnownFacts
<1> HIDE DEF r
<1>2. PICK t : t = [NoCall EXCEPT !.pc = "commit", !.user = u, !.new = new, !.rows = r]
  OBVIOUS
<1>3. calls' = [calls EXCEPT ![c] = t]
  BY <1>2 DEF RevokeAll, Start, r
<1>4. t \in Call /\ t.pc = "commit" /\ t.user = u /\ t.id = 0
  BY <1>1, <1>2, NoCallFacts DEF Call
<1> QED  BY <1>3, <1>4

LEMMA LogoutCall ==
    ASSUME TypeOK, NEW c \in Calls, NEW u \in Users, NEW s \in Known, FetchLogout(c, u, s)
    PROVE  \E t \in Call :
              /\ calls' = [calls EXCEPT ![c] = t]
              /\ t.pc = "logout" /\ t.user = u /\ t.id = s
<1>0. s \in Ids
  BY KnownFacts
<1>1. PICK t : t = [NoCall EXCEPT !.pc = "logout", !.user = u, !.id = s]
  OBVIOUS
<1>2. calls' = [calls EXCEPT ![c] = t]
  BY <1>1 DEF FetchLogout, Start
<1>3. t \in Call /\ t.pc = "logout" /\ t.user = u /\ t.id = s
  BY <1>0, <1>1, NoCallFacts DEF Call
<1> QED  BY <1>2, <1>3

LEMMA GotoCall ==
    ASSUME TypeOK, NEW c \in Calls, NEW p \in {"issue", "reply"}, Goto(c, p)
    PROVE  \E t \in Call :
              /\ calls' = [calls EXCEPT ![c] = t] /\ t.pc = p
              /\ t.user = calls[c].user /\ t.id = calls[c].id /\ t.family = calls[c].family
              /\ t.password = calls[c].password /\ t.rows = calls[c].rows
              /\ t.new = calls[c].new /\ t.overtaken = calls[c].overtaken
              /\ t.active = calls[c].active
<1>1. PICK t : t = [calls[c] EXCEPT !.pc = p]
  OBVIOUS
<1>2. calls' = [calls EXCEPT ![c] = t]
  BY <1>1 DEF Goto
<1>3. t \in Call /\ t.pc = p
  BY <1>1 DEF TypeOK, Call
<1> QED  BY <1>1, <1>2, <1>3 DEF TypeOK, Call

-----------------------------------------------------------------------------
(***************************************************************************)
(* The invariant                                                           *)
(***************************************************************************)
LEMMA SessionFacts ==
    ASSUME TypeOK, NEW s \in Known
    PROVE  /\ sessions[s] \in Session /\ sessions[s].family \in Known
           /\ sessions[s].replacedBy # 0 => sessions[s].replacedBy \in Known
<1>1. sessions[s] \in Session /\ Known = 1..Len(sessions) /\ Len(sessions) \in Nat
  BY KnownFacts
<1>2. sessions[s].family \in Known
  <2>1. sessions[s].family \in 1..MaxSessions /\ sessions[s].family <= s
    BY <1>1 DEF TypeOK, Session, Ids
  <2> QED  BY <1>1, <2>1
<1>3. sessions[s].replacedBy # 0 => sessions[s].replacedBy \in (s + 1)..Len(sessions)
  BY DEF TypeOK
<1> QED  BY <1>1, <1>2, <1>3

\* What a call has read stays right while the sessions keep their owners, and
\* while neither passwords, states nor burned families change.
LEMMA CallKept ==
    ASSUME NEW k, CallOK(k), Known \subseteq Known',
           \A s \in Known : /\ sessions'[s].user = sessions[s].user
                            /\ sessions'[s].family = sessions[s].family
    PROVE  CallOK(k)'
BY DEF CallOK

LEMMA OvertakenKept ==
    ASSUME NEW k, OvertakenOK(k), UNCHANGED <<status, password, burned>>
    PROVE  OvertakenOK(k)'
BY DEF OvertakenOK

LEMMA OthersKept ==
    ASSUME SessionInv, NEW d \in Calls, calls'[d] = calls[d], Known \subseteq Known',
           \A s \in Known : /\ sessions'[s].user = sessions[s].user
                            /\ sessions'[s].family = sessions[s].family,
           UNCHANGED <<status, password, burned>>
    PROVE  CallOK(calls[d])' /\ OvertakenOK(calls[d])'
<1>1. PICK k : k = calls[d] /\ k = calls'[d]
  OBVIOUS
<1>2. CallOK(k) /\ OvertakenOK(k)
  BY <1>1 DEF SessionInv, CallInv
<1>3. CallOK(k)' /\ OvertakenOK(k)'
  BY <1>2, CallKept, OvertakenKept
<1> QED  BY <1>1, <1>3 DEF CallOK, OvertakenOK

\* A step of call c that reads.
LEMMA CallStep ==
    ASSUME SessionInv, NEW c \in Calls, NEW t \in Call,
           calls' = [calls EXCEPT ![c] = t], CallOK(t), OvertakenOK(t),
           UNCHANGED <<status, password, sessions, burned>>
    PROVE  SessionInv'
<1>1. \A d \in Calls : calls'[d] = t \/ calls'[d] = calls[d]
  BY DEF SessionInv, TypeOK
<1>2. CallInv'
  <2> SUFFICES ASSUME NEW d \in Calls
               PROVE  CallOK(calls[d])' /\ OvertakenOK(calls[d])'
    BY DEF CallInv
  <2>0. Known' = Known
    BY DEF Known
  <2>1. CASE calls'[d] = t
    <3>1. CallOK(t)' /\ OvertakenOK(t)'
      BY <2>0, CallKept, OvertakenKept
    <3> QED  BY <2>1, <3>1 DEF CallOK, OvertakenOK
  <2>2. CASE calls'[d] = calls[d]
    BY <2>0, <2>2, OthersKept
  <2> QED  BY <1>1, <2>1, <2>2
<1>3. TypeOK'
  BY DEF SessionInv, TypeOK, Known
<1> QED
  BY <1>2, <1>3
     DEF SessionInv, BurnedInv, ReuseEndsFamily, RevokeAllEndsSessions, Known, Live

\* A step that revokes or delivers the session of row i.
LEMMA RowStep ==
    ASSUME SessionInv, NEW c \in Calls, NEW t \in Call,
           calls' = [calls EXCEPT ![c] = t],
           t.pc = "idle" \/ (t.pc = "reply" /\ t.rows \subseteq Known /\ t.id \in Known),
           NEW i \in Known, NEW r \in Session, sessions' = [sessions EXCEPT ![i] = r],
           r.user = sessions[i].user, r.family = sessions[i].family,
           r.password = sessions[i].password, r.active = sessions[i].active,
           r.straggler = sessions[i].straggler, sessions[i].revoked => r.revoked,
           \/ r.replacedBy = sessions[i].replacedBy
           \/ /\ r.replacedBy \in (i + 1)..Len(sessions)
              /\ sessions[r.replacedBy].family = sessions[i].family,
           UNCHANGED <<status, password, burned>>
    PROVE  SessionInv'
<1>0. TypeOK /\ i \in DOMAIN sessions
  BY DEF SessionInv, Known
<1>1. sessions' \in Seq(Session) /\ Len(sessions') = Len(sessions) /\ Known' = Known
  BY <1>0 DEF TypeOK, Known
<1>2. \A s \in Known : sessions'[s] = IF s = i THEN r ELSE sessions[s]
  BY <1>0 DEF TypeOK, Known
<1>3. \A s \in Known :
         /\ sessions'[s].user = sessions[s].user
         /\ sessions'[s].family = sessions[s].family
         /\ sessions'[s].password = sessions[s].password
         /\ (sessions'[s].active <=> sessions[s].active)
         /\ (sessions'[s].straggler <=> sessions[s].straggler)
         /\ (sessions[s].revoked => sessions'[s].revoked)
  BY <1>2
<1>4. \A s \in Known : /\ sessions[s] \in Session
                       /\ sessions[s].family \in Known
                       /\ sessions[s].replacedBy # 0 => sessions[s].replacedBy \in Known
  BY <1>0, SessionFacts
<1>5. \A d \in Calls : calls'[d] = t \/ calls'[d] = calls[d]
  BY DEF SessionInv, TypeOK
<1>6. TypeOK'
  <2>1. \A s \in Known' :
          /\ sessions'[s].family <= s
          /\ sessions'[sessions'[s].family].user = sessions'[s].user
    BY <1>0, <1>1, <1>3, <1>4 DEF TypeOK
  <2>2. \A s \in Known' : sessions'[s].replacedBy # 0 =>
                /\ sessions'[s].replacedBy \in (s + 1)..Len(sessions')
                /\ sessions'[sessions'[s].replacedBy].family = sessions'[s].family
    <3> SUFFICES ASSUME NEW s \in Known, sessions'[s].replacedBy # 0
                 PROVE  /\ sessions'[s].replacedBy \in (s + 1)..Len(sessions)
                        /\ sessions'[sessions'[s].replacedBy].family = sessions'[s].family
      BY <1>1
    <3>1. /\ sessions'[s].replacedBy \in (s + 1)..Len(sessions)
          /\ sessions[sessions'[s].replacedBy].family = sessions[s].family
      BY <1>0, <1>2 DEF TypeOK
    <3>2. sessions'[s].replacedBy \in Known
      BY <1>0, <3>1, KnownFacts
    <3> QED  BY <1>3, <3>1, <3>2
  <2>3. calls' \in [Calls -> Call]
    BY <1>0 DEF TypeOK
  <2> QED  BY <1>0, <1>1, <2>1, <2>2, <2>3 DEF TypeOK
<1>7. CallInv'
  <2> SUFFICES ASSUME NEW d \in Calls
               PROVE  CallOK(calls[d])' /\ OvertakenOK(calls[d])'
    BY DEF CallInv
  <2>1. CASE calls'[d] = t
    <3>1. CallOK(t)'
      BY <1>1 DEF CallOK
    <3>2. CallOK(calls[d])'
      BY <2>1, <3>1 DEF CallOK
    <3> QED  BY <2>1, <3>2 DEF OvertakenOK
  <2>2. CASE calls'[d] = calls[d]
    BY <1>1, <1>3, <2>2, OthersKept
  <2> QED  BY <1>5, <2>1, <2>2
<1>8. BurnedInv'
  BY <1>1 DEF SessionInv, BurnedInv
<1>9. ReuseEndsFamily'
  BY <1>1, <1>3 DEF SessionInv, ReuseEndsFamily, Live
<1>10. RevokeAllEndsSessions'
  BY <1>1, <1>3 DEF SessionInv, RevokeAllEndsSessions, Live
<1> QED  BY <1>6, <1>7, <1>8, <1>9, <1>10 DEF SessionInv

\* The row of a session is created by call c.
LEMMA IssueStep ==
    ASSUME SessionInv, NEW c \in Calls, IssueSession(c)
    PROVE  SessionInv'
<1> DEFINE call == calls[c]
           id == Len(sessions) + 1
           fam == FamilyOf(call, id)
           row == [user |-> call.user, family |-> fam, revoked |-> FALSE,
                   replacedBy |-> 0, delivered |-> FALSE, password |-> call.password,
                   straggler |-> call.overtaken, active |-> call.active]
<1>0. TypeOK /\ call \in Call /\ CallOK(call) /\ OvertakenOK(call) /\ call.pc = "issue"
  BY DEF SessionInv, CallInv, TypeOK, IssueSession
<1>1. /\ sessions' = Append(sessions, row) /\ id \in Ids
      /\ UNCHANGED <<status, password, burned>>
  BY DEF IssueSession
<1>2. /\ call.id # 0 => call.id \in Known /\ fam = sessions[call.id].family
                        /\ call.user = sessions[call.id].user
      /\ call.id = 0 => fam = id
      /\ call.user \in Users /\ call.active
      /\ status[call.user] # "active" => call.overtaken
      /\ call.password # password[call.user] => call.overtaken
      /\ call.id # 0 /\ fam \in burned => call.overtaken
  BY <1>0 DEF CallOK, OvertakenOK, FamilyOf
<1>3. \A s \in Known : sessions[s] \in Session /\ sessions[s].family \in Known
                       /\ (sessions[s].replacedBy # 0 => sessions[s].replacedBy \in Known)
  BY <1>0, SessionFacts
<1>4. fam \in Ids /\ fam <= id /\ fam \in Known \cup {id}
  BY <1>0, <1>1, <1>2, <1>3, KnownFacts DEF TypeOK, Ids
<1>5. row \in Session
  BY <1>0, <1>2, <1>4 DEF Call, Session
<1>6. PICK t \in Call : /\ calls' = [calls EXCEPT ![c] = t]
                        /\ t.pc = IF call.id = 0 THEN "reply" ELSE "rotate"
                        /\ t.id = call.id /\ t.rows = {id}
  <2>1. PICK t : t = [NoCall EXCEPT !.pc = IF call.id = 0 THEN "reply" ELSE "rotate",
                                    !.id = call.id, !.rows = {id}]
    OBVIOUS
  <2>2. calls' = [calls EXCEPT ![c] = t]
    BY <2>1 DEF IssueSession, Start
  <2>3. /\ t \in Call /\ t.pc = IF call.id = 0 THEN "reply" ELSE "rotate"
        /\ t.id = call.id /\ t.rows = {id}
    BY <1>0, <1>1, <2>1, NoCallFacts DEF Call
  <2> QED  BY <2>2, <2>3
<1> HIDE DEF row, fam
<1>7. /\ sessions' \in Seq(Session) /\ Len(sessions') = id /\ Known' = Known \cup {id}
      /\ sessions'[id] = row /\ \A s \in Known : sessions'[s] = sessions[s] /\ s < id
      /\ id \notin Known
  BY <1>0, <1>1, <1>5, KnownFacts DEF TypeOK, Known
<1>8. /\ row.user = call.user /\ row.family = fam /\ row.password = call.password
      /\ row.replacedBy = 0 /\ (row.straggler <=> call.overtaken) /\ row.active
  BY <1>2 DEF row
<1>9. TypeOK'
  <2>1. \A s \in Known : /\ sessions'[s].family <= s
                         /\ sessions'[sessions'[s].family].user = sessions'[s].user
    BY <1>0, <1>3, <1>7 DEF TypeOK
  <2>2. sessions'[id].family <= id /\ sessions'[fam].user = sessions'[id].user
    <3>1. CASE call.id = 0
      BY <1>2, <1>4, <1>7, <1>8, <3>1
    <3>2. CASE call.id # 0
      <4>1. fam \in Known /\ sessions[fam].user = call.user
        BY <1>0, <1>2, <1>3, <3>2 DEF TypeOK
      <4> QED  BY <1>4, <1>7, <1>8, <4>1
    <3> QED  BY <3>1, <3>2
  <2>3. \A s \in Known : sessions'[s].replacedBy # 0 =>
                /\ sessions'[s].replacedBy \in (s + 1)..Len(sessions')
                /\ sessions'[sessions'[s].replacedBy].family = sessions'[s].family
    <3> SUFFICES ASSUME NEW s \in Known, sessions[s].replacedBy # 0
                 PROVE  /\ sessions[s].replacedBy \in (s + 1)..id
                        /\ sessions'[sessions[s].replacedBy].family = sessions[s].family
      BY <1>7
    <3>1. /\ sessions[s].replacedBy \in (s + 1)..Len(sessions)
          /\ sessions[sessions[s].replacedBy].family = sessions[s].family
      BY <1>0 DEF TypeOK
    <3>2. sessions[s].replacedBy \in (s + 1)..id
      BY <1>0, <3>1, KnownFacts
    <3> QED  BY <1>3, <1>7, <3>1, <3>2
  <2>4. calls' \in [Calls -> Call]
    BY <1>0, <1>6 DEF TypeOK
  <2>5. Len(sessions') <= MaxSessions
    BY <1>1, <1>7, BoundsAssumption DEF Ids
  <2>6. \A s \in Known' : s \in Known \/ s = id
    BY <1>7
  <2>7. status' \in [Users -> Statuses] /\ password' \in [Users -> 0..MaxResets]
        /\ burned' \subseteq Ids
    BY <1>0, <1>1 DEF TypeOK
  <2> QED  BY <1>7, <1>8, <2>1, <2>2, <2>3, <2>4, <2>5, <2>6, <2>7 DEF TypeOK
<1>10. CallInv'
  <2> SUFFICES ASSUME NEW d \in Calls
               PROVE  CallOK(calls[d])' /\ OvertakenOK(calls[d])'
    BY DEF CallInv
  <2>1. CASE d = c
    <3>1. calls'[d] = t
      BY <1>0, <1>6, <2>1 DEF TypeOK
    <3>2. t.id # 0 => t.id \in Known /\ t.id < id /\ sessions[t.id].family = fam
      BY <1>2, <1>6, <1>7
    <3>3. t.pc \in {"reply", "rotate"} /\ (t.pc = "rotate" => t.id # 0)
      BY <1>6
    <3>4. /\ t.id # 0 => t.id \in Known' /\ sessions'[t.id].family = fam
          /\ t.rows \subseteq Known' /\ \A n \in t.rows : sessions'[n].family = fam
      BY <1>6, <1>7, <1>8, <3>2
    <3>5. CallOK(t)'
      BY <1>6, <3>2, <3>3, <3>4 DEF CallOK
    <3>6. CallOK(calls[d])'
      BY <3>1, <3>5 DEF CallOK
    <3> QED  BY <3>1, <3>3, <3>6 DEF OvertakenOK
  <2>2. CASE d # c
    <3>1. calls'[d] = calls[d]
      BY <1>0, <1>6, <2>2 DEF TypeOK
    <3> QED  BY <1>1, <1>7, <3>1, OthersKept
  <2> QED  BY <2>1, <2>2
<1>11. BurnedInv'
  BY <1>1, <1>7 DEF SessionInv, BurnedInv
<1>12. ReuseEndsFamily'
  <2>1. fam \in burned => call.overtaken
    BY <1>2, <1>7 DEF SessionInv, BurnedInv
  <2> QED  BY <1>1, <1>7, <1>8, <2>1 DEF SessionInv, ReuseEndsFamily, Live
<1>13. RevokeAllEndsSessions'
  <2> SUFFICES ASSUME NEW s \in Known'
               PROVE  /\ sessions'[s].active
                      /\ /\ Live(s)'
                         /\ \/ status'[sessions'[s].user] # "active"
                            \/ sessions'[s].password # password'[sessions'[s].user]
                         => sessions'[s].straggler
    BY DEF RevokeAllEndsSessions
  <2>1. CASE s \in Known
    BY <1>1, <1>7, <2>1 DEF SessionInv, RevokeAllEndsSessions, Live
  <2>2. CASE s = id
    BY <1>1, <1>2, <1>7, <1>8, <2>2
  <2> QED  BY <1>7, <2>1, <2>2
<1> QED  BY <1>9, <1>10, <1>11, <1>12, <1>13 DEF SessionInv

LEMMA ReactivateStep ==
    ASSUME SessionInv, NEW u \in Users, Reactivate(u)
    PROVE  SessionInv'
<1>0. TypeOK /\ UNCHANGED <<password, sessions, burned>> /\ Known' = Known
  BY DEF SessionInv, Reactivate, Known
<1>1. status' \in [Users -> Statuses]
      /\ \A v \in Users : status'[v] = IF v = u THEN "active" ELSE status[v]
  BY <1>0 DEF Reactivate, TypeOK, Statuses
<1>2. ASSUME NEW d \in Calls
      PROVE  /\ calls'[d] \in Call
             /\ CallOK(calls[d])' /\ OvertakenOK(calls[d])'
  <2>1. PICK k : k = calls[d]
    OBVIOUS
  <2>2. PICK t : t = [k EXCEPT !.active = @ \/ (Issuing(d) /\ calls[d].user = u)]
    OBVIOUS
  <2>3. calls'[d] = t
    BY <2>1, <2>2 DEF Reactivate
  <2>4. k \in Call /\ CallOK(k) /\ OvertakenOK(k)
    BY <1>0, <2>1 DEF SessionInv, CallInv, TypeOK
  <2>5. k.active \/ (Issuing(d) /\ calls[d].user = u) \in BOOLEAN
    BY <2>4 DEF Call
  <2>6. t \in Call
    BY <2>2, <2>4, <2>5 DEF Call
  <2>7. /\ t.pc = k.pc /\ t.user = k.user /\ t.id = k.id /\ t.family = k.family
        /\ t.password = k.password /\ t.rows = k.rows /\ t.new = k.new
        /\ t.overtaken = k.overtaken
        /\ (t.active <=> k.active \/ (Issuing(d) /\ calls[d].user = u))
    BY <2>2, <2>4 DEF Call
  <2>8. CallOK(t)'
    BY <1>0, <2>4, <2>7 DEF CallOK
  <2>9. OvertakenOK(t)'
    <3> SUFFICES ASSUME t.pc \in {"profile", "issue"}
                 PROVE  /\ status'[t.user] # "active" => t.overtaken
                        /\ t.password # password'[t.user] => t.overtaken
                        /\ t.id # 0 /\ t.family \in burned' => t.overtaken
                        /\ t.pc = "issue" \/ status'[t.user] = "active" => t.active
      BY DEF OvertakenOK
    <3>1. k.user \in Users
      BY <2>4, <2>7 DEF CallOK
    <3>2. CASE t.user = u
      <4>1. status'[t.user] = "active" /\ t.active
        BY <1>1, <2>1, <2>7, <3>2 DEF Issuing
      <4> QED  BY <1>0, <2>4, <2>7, <4>1 DEF OvertakenOK
    <3>3. CASE t.user # u
      BY <1>0, <1>1, <2>1, <2>4, <2>7, <3>1, <3>3 DEF OvertakenOK
    <3> QED  BY <3>2, <3>3
  <2> QED  BY <2>3, <2>6, <2>8, <2>9 DEF CallOK, OvertakenOK
<1>3. calls' \in [Calls -> Call]
  BY <1>2 DEF Reactivate
<1>4. TypeOK'
  BY <1>0, <1>1, <1>3 DEF TypeOK
<1>5. CallInv'
  BY <1>2 DEF CallInv
<1>6. BurnedInv' /\ ReuseEndsFamily'
  BY <1>0 DEF SessionInv, BurnedInv, ReuseEndsFamily, Live
<1>7. RevokeAllEndsSessions'
  <2>1. \A s \in Known : sessions[s].user \in Users
    BY <1>0, KnownFacts DEF Session
  <2>2. \A s \in Known : status'[sessions[s].user] # "active" =>
                            status[sessions[s].user] # "active"
    BY <1>1, <2>1
  <2> QED  BY <1>0, <2>2 DEF SessionInv, RevokeAllEndsSessions, Live
<1> QED  BY <1>4, <1>5, <1>6, <1>7 DEF SessionInv

\* What COMMIT makes of the rows.
LEMMA CommitRows ==
    ASSUME TypeOK, NEW c \in Calls, Commit(c)
    PROVE  /\ sessions' \in Seq(Session) /\ Len(sessions') = Len(sessions)
           /\ Known' = Known
           /\ \A s \in Known :
                 /\ sessions'[s].user = sessions[s].user
                 /\ sessions'[s].family = sessions[s].family
                 /\ sessions'[s].password = sessions[s].password
                 /\ sessions'[s].replacedBy = sessions[s].replacedBy
                 /\ (sessions'[s].active <=> sessions[s].active)
                 /\ (sessions'[s].revoked <=> sessions[s].revoked \/ s \in calls[c].rows)
                 /\ (sessions'[s].straggler <=>
                       \/ sessions[s].straggler
                       \/ /\ InScope(calls[c], sessions[s].user, sessions[s].family)
                          /\ s \notin calls[c].rows /\ Live(s))
<1> DEFINE call == calls[c]
           over(s) == /\ InScope(call, sessions[s].user, sessions[s].family)
                      /\ s \notin call.rows /\ Live(s)
<1>0. /\ Known = 1..Len(sessions) /\ Len(sessions) \in Nat
      /\ Known = DOMAIN sessions /\ \A s \in Known : sessions[s] \in Session
  BY KnownFacts DEF Known
<1>1. ASSUME NEW s \in Known
      PROVE  /\ sessions'[s] \in Session
             /\ sessions'[s].user = sessions[s].user
             /\ sessions'[s].family = sessions[s].family
             /\ sessions'[s].password = sessions[s].password
             /\ sessions'[s].replacedBy = sessions[s].replacedBy
             /\ (sessions'[s].active <=> sessions[s].active)
             /\ (sessions'[s].revoked <=> sessions[s].revoked \/ s \in call.rows)
             /\ (sessions'[s].straggler <=> sessions[s].straggler \/ over(s))
  <2>1. PICK m : m = IF s \in call.rows THEN [sessions[s] EXCEPT !.revoked = TRUE]
                                        ELSE sessions[s]
    OBVIOUS
  <2>2. PICK r : r = [m EXCEPT !.straggler = @ \/ over(s)]
    OBVIOUS
  <2>3. sessions'[s] = r
    BY <1>0, <2>1, <2>2 DEF Commit, Revoked
  <2>4. /\ m \in Session /\ m.user = sessions[s].user /\ m.family = sessions[s].family
        /\ m.password = sessions[s].password /\ m.replacedBy = sessions[s].replacedBy
        /\ m.active = sessions[s].active /\ m.straggler = sessions[s].straggler
        /\ (m.revoked <=> sessions[s].revoked \/ s \in call.rows)
    BY <1>0, <2>1 DEF Session
  <2> HIDE DEF over
  <2>5. PICK b \in BOOLEAN : b <=> (m.straggler \/ over(s))
    OBVIOUS
  <2>6. r = [m EXCEPT !.straggler = b]
    BY <2>2, <2>4, <2>5 DEF Session
  <2>7. /\ r \in Session /\ r.user = m.user /\ r.family = m.family
        /\ r.password = m.password /\ r.replacedBy = m.replacedBy
        /\ r.active = m.active /\ r.revoked = m.revoked /\ r.straggler = b
    BY <2>4, <2>6 DEF Session
  <2> QED  BY <2>3, <2>4, <2>5, <2>7
<1>2. DOMAIN sessions' = Known
  BY DEF Commit
<1>3. sessions' \in [1..Len(sessions) -> Session]
  BY <1>0, <1>1 DEF Commit
<1>4. sessions' \in Seq(Session) /\ Len(sessions') = Len(sessions)
  BY <1>0, <1>3, SeqDef, LenProperties
<1> QED  BY <1>1, <1>2, <1>4 DEF Known

\* What COMMIT makes of the other calls.
LEMMA CommitCalls ==
    ASSUME TypeOK, NEW c \in Calls, Commit(c)
    PROVE  /\ calls' \in [Calls -> Call] /\ calls'[c] = NoCall
           /\ \A d \in Calls : d # c =>
                 /\ calls'[d].pc = calls[d].pc /\ calls'[d].user = calls[d].user
                 /\ calls'[d].id = calls[d].id /\ calls'[d].family = calls[d].family
                 /\ calls'[d].password = calls[d].password
                 /\ calls'[d].rows = calls[d].rows /\ calls'[d].new = calls[d].new
                 /\ (calls'[d].active <=> calls[d].active)
                 /\ (calls'[d].overtaken <=>
                       \/ calls[d].overtaken
                       \/ Issuing(d) /\ InScope(calls[c], calls[d].user, calls[d].family))
<1> DEFINE over(d) == Issuing(d) /\ InScope(calls[c], calls[d].user, calls[d].family)
<1>1. ASSUME NEW d \in Calls, d # c
      PROVE  /\ calls'[d] \in Call
             /\ calls'[d].pc = calls[d].pc /\ calls'[d].user = calls[d].user
             /\ calls'[d].id = calls[d].id /\ calls'[d].family = calls[d].family
             /\ calls'[d].password = calls[d].password
             /\ calls'[d].rows = calls[d].rows /\ calls'[d].new = calls[d].new
             /\ (calls'[d].active <=> calls[d].active)
             /\ (calls'[d].overtaken <=> calls[d].overtaken \/ over(d))
  <2>1. PICK k : k = calls[d]
    OBVIOUS
  <2>2. PICK t : t = [k EXCEPT !.overtaken = @ \/ over(d)]
    OBVIOUS
  <2>3. calls'[d] = t /\ k \in Call
    BY <1>1, <2>1, <2>2 DEF Commit, TypeOK
  <2> HIDE DEF over
  <2>4. PICK b \in BOOLEAN : b <=> (k.overtaken \/ over(d))
    OBVIOUS
  <2>5. t = [k EXCEPT !.overtaken = b]
    BY <2>2, <2>3, <2>4 DEF Call
  <2>6. /\ t \in Call /\ t.pc = k.pc /\ t.user = k.user /\ t.id = k.id
        /\ t.family = k.family /\ t.password = k.password /\ t.rows = k.rows
        /\ t.new = k.new /\ t.active = k.active /\ t.overtaken = b
    BY <2>3, <2>5 DEF Call
  <2> QED  BY <2>1, <2>3, <2>4, <2>6
<1>2. calls'[c] = NoCall /\ calls' \in [Calls -> Call]
  BY <1>1, NoCallFacts DEF Commit
<1> QED  BY <1>1, <1>2

LEMMA CommitStep ==
    ASSUME SessionInv, NEW c \in Calls, Commit(c)
    PROVE  SessionInv'
<1> DEFINE call == calls[c]
<1>0. /\ TypeOK /\ call.pc = "commit" /\ call \in Call /\ CallOK(call)
      /\ call.user \in Users
  BY DEF SessionInv, CallInv, TypeOK, Commit, CallOK
<1>1. /\ status' = IF call.new = "inactive"
                   THEN [status EXCEPT ![call.user] = "inactive"] ELSE status
      /\ password' = IF call.new = "password"
                     THEN [password EXCEPT ![call.user] = @ + 1] ELSE password
      /\ call.new = "password" => password[call.user] < MaxResets
      /\ burned' = IF call.id = 0 THEN burned ELSE burned \cup {call.family}
  BY DEF Commit
<1>2. /\ status' \in [Users -> Statuses] /\ password' \in [Users -> 0..MaxResets]
      /\ \A u \in Users : /\ status'[u] # "active" => status[u] # "active" \/ u = call.user
                          /\ status'[u] = "active" => status[u] = "active"
                          /\ u # call.user => password'[u] = password[u]
  <2>1. call.new = "password" => password[call.user] + 1 \in 0..MaxResets
    BY <1>0, <1>1, BoundsAssumption DEF TypeOK
  <2> QED  BY <1>0, <1>1, <2>1 DEF TypeOK, Statuses
<1>3. /\ call.id # 0 => /\ call.id \in Known /\ call.user = sessions[call.id].user
                        /\ call.family = sessions[call.id].family
                        /\ status' = status /\ password' = password
                        /\ burned' = burned \cup {call.family}
      /\ call.id = 0 => burned' = burned
  BY <1>0, <1>1 DEF CallOK
<1>4. /\ sessions' \in Seq(Session) /\ Len(sessions') = Len(sessions) /\ Known' = Known
      /\ \A s \in Known :
            /\ sessions'[s].user = sessions[s].user
            /\ sessions'[s].family = sessions[s].family
            /\ sessions'[s].password = sessions[s].password
            /\ sessions'[s].replacedBy = sessions[s].replacedBy
            /\ (sessions'[s].active <=> sessions[s].active)
            /\ (sessions'[s].revoked <=> sessions[s].revoked \/ s \in call.rows)
            /\ (sessions'[s].straggler <=>
                  \/ sessions[s].straggler
                  \/ /\ InScope(call, sessions[s].user, sessions[s].family)
                     /\ s \notin call.rows /\ Live(s))
  BY <1>0, CommitRows
<1>5. \A s \in Known : /\ sessions[s] \in Session /\ sessions[s].family \in Known
                       /\ sessions[s].replacedBy # 0 => sessions[s].replacedBy \in Known
  BY <1>0, SessionFacts
\* One family has one user.
<1>6. \A s, r \in Known : sessions[s].family = sessions[r].family =>
                             sessions[s].user = sessions[r].user
  BY <1>0 DEF TypeOK
<1>7. TypeOK'
  <2>1. burned' \subseteq Ids
    BY <1>0, <1>3, <1>5 DEF TypeOK, Session
  <2>2. \A s \in Known' :
          /\ sessions'[s].family <= s
          /\ sessions'[sessions'[s].family].user = sessions'[s].user
          /\ sessions'[s].replacedBy # 0 =>
                /\ sessions'[s].replacedBy \in (s + 1)..Len(sessions')
                /\ sessions'[sessions'[s].replacedBy].family = sessions'[s].family
    <3> SUFFICES ASSUME NEW s \in Known
                 PROVE  /\ sessions[s].family <= s
                        /\ sessions'[sessions[s].family].user = sessions[s].user
                        /\ sessions[s].replacedBy # 0 =>
                              /\ sessions[s].replacedBy \in (s + 1)..Len(sessions)
                              /\ sessions'[sessions[s].replacedBy].family
                                    = sessions[s].family
      BY <1>4
    <3>1. /\ sessions[s].family <= s
          /\ sessions[sessions[s].family].user = sessions[s].user
          /\ sessions[s].replacedBy # 0 =>
                /\ sessions[s].replacedBy \in (s + 1)..Len(sessions)
                /\ sessions[sessions[s].replacedBy].family = sessions[s].family
      BY <1>0 DEF TypeOK
    <3> QED  BY <1>4, <1>5, <3>1
  <2>3. calls' \in [Calls -> Call]
    BY <1>0, CommitCalls
  <2> QED  BY <1>0, <1>2, <1>4, <2>1, <2>2, <2>3 DEF TypeOK
<1>8. CallInv'
  <2> SUFFICES ASSUME NEW d \in Calls
               PROVE  CallOK(calls[d])' /\ OvertakenOK(calls[d])'
    BY DEF CallInv
  <2>1. PICK k, t : k = calls[d] /\ t = calls'[d]
    OBVIOUS
  <2>2. CASE d = c
    <3>1. t = NoCall
      BY <1>0, <2>1, <2>2, CommitCalls
    <3>2. CallOK(t)' /\ OvertakenOK(t)'
      BY <3>1, NoCallFacts DEF CallOK, OvertakenOK
    <3> QED  BY <2>1, <3>2 DEF CallOK, OvertakenOK
  <2>3. CASE d # c
    <3>1. /\ t.pc = k.pc /\ t.user = k.user /\ t.id = k.id /\ t.family = k.family
          /\ t.password = k.password /\ t.rows = k.rows /\ t.new = k.new
          /\ (t.active <=> k.active)
          /\ (t.overtaken <=>
                \/ k.overtaken
                \/ k.pc \in {"profile", "issue"} /\ InScope(call, k.user, k.family))
      BY <1>0, <2>1, <2>3, CommitCalls DEF Issuing
    <3>2. CallOK(k) /\ OvertakenOK(k)
      BY <2>1 DEF SessionInv, CallInv
    <3>3. CallOK(k)'
      BY <1>4, <3>2, CallKept
    <3>4. CallOK(t)'
      BY <3>1, <3>3 DEF CallOK
    <3>5. OvertakenOK(t)'
      <4> SUFFICES ASSUME k.pc \in {"profile", "issue"}
                   PROVE  /\ status'[k.user] # "active" => t.overtaken
                          /\ k.password # password'[k.user] => t.overtaken
                          /\ k.id # 0 /\ k.family \in burned' => t.overtaken
                          /\ k.pc = "issue" \/ status'[k.user] = "active" => t.active
        BY <3>1 DEF OvertakenOK
      <4>1. /\ k.user \in Users
            /\ k.id # 0 => /\ k.id \in Known /\ k.user = sessions[k.id].user
                           /\ k.family = sessions[k.id].family
        BY <3>2 DEF CallOK
      <4>2. /\ status[k.user] # "active" => t.overtaken
            /\ k.password # password[k.user] => t.overtaken
            /\ k.id # 0 /\ k.family \in burned => t.overtaken
            /\ k.pc = "issue" \/ status[k.user] = "active" => t.active
        BY <3>1, <3>2 DEF OvertakenOK
      <4>3. CASE call.id = 0
        <5>1. k.user = call.user => t.overtaken
          BY <3>1, <4>3 DEF InScope
        <5> QED  BY <1>2, <1>3, <4>1, <4>2, <4>3, <5>1
      <4>4. CASE call.id # 0
        <5>1. k.id # 0 /\ k.family = call.family => t.overtaken
          BY <1>3, <1>6, <3>1, <4>1, <4>4 DEF InScope
        <5> QED  BY <1>3, <4>2, <4>4, <5>1
      <4> QED  BY <4>3, <4>4
    <3> QED  BY <2>1, <3>4, <3>5 DEF CallOK, OvertakenOK
  <2> QED  BY <2>2, <2>3
<1>9. BurnedInv'
  BY <1>3, <1>4, <1>5 DEF SessionInv, BurnedInv
<1>10. ReuseEndsFamily'
  <2> SUFFICES ASSUME NEW s \in Known, ~sessions'[s].revoked, sessions[s].family \in burned'
               PROVE  sessions'[s].straggler
    BY <1>4 DEF ReuseEndsFamily, Live
  <2>1. CASE sessions[s].family \in burned
    BY <1>4, <2>1 DEF SessionInv, ReuseEndsFamily, Live
  <2>2. CASE call.id # 0 /\ sessions[s].family = call.family
    <3>1. InScope(call, sessions[s].user, sessions[s].family)
      BY <1>3, <1>6, <2>2 DEF InScope
    <3> QED  BY <1>4, <3>1 DEF Live
  <2> QED  BY <1>3, <2>1, <2>2
<1>11. RevokeAllEndsSessions'
  <2> SUFFICES ASSUME NEW s \in Known
               PROVE  /\ sessions'[s].active
                      /\ /\ ~sessions'[s].revoked
                         /\ \/ status'[sessions[s].user] # "active"
                            \/ sessions[s].password # password'[sessions[s].user]
                         => sessions'[s].straggler
    BY <1>4 DEF RevokeAllEndsSessions, Live
  <2>1. sessions'[s].active
    BY <1>4 DEF SessionInv, RevokeAllEndsSessions
  <2>2. ASSUME ~sessions'[s].revoked,
               \/ status[sessions[s].user] # "active"
               \/ sessions[s].password # password[sessions[s].user]
        PROVE  sessions'[s].straggler
    BY <1>4, <2>2 DEF SessionInv, RevokeAllEndsSessions, Live
  <2>3. CASE sessions[s].user # call.user \/ call.id # 0
    <3>1. sessions[s].user \in Users
      BY <1>5 DEF Session
    <3> QED  BY <1>2, <1>3, <2>1, <2>2, <2>3, <3>1
  <2>4. CASE sessions[s].user = call.user /\ call.id = 0
    <3>1. InScope(call, sessions[s].user, sessions[s].family)
      BY <2>4 DEF InScope
    <3> QED  BY <1>4, <2>1, <3>1 DEF Live
  <2> QED  BY <2>3, <2>4
<1> QED  BY <1>7, <1>8, <1>9, <1>10, <1>11 DEF SessionInv

LEMMA InitSession == Init => SessionInv
<1> SUFFICES ASSUME Init
             PROVE  SessionInv
  OBVIOUS
<1>1. /\ Len(sessions) = 0 /\ Known = {} /\ sessions \in Seq(Session)
      /\ \A c \in Calls : calls[c] = NoCall
  BY DEF Init, Known
<1>2. TypeOK
  <2>1. 0 \in 0..MaxResets /\ Len(sessions) <= MaxSessions
    BY <1>1, BoundsAssumption
  <2>2. calls \in [Calls -> Call] /\ password \in [Users -> 0..MaxResets]
    BY <2>1, NoCallFacts DEF Init
  <2> QED  BY <1>1, <2>1, <2>2 DEF Init, TypeOK, Statuses
<1>3. CallInv
  BY <1>1, NoCallFacts DEF CallInv
<1> QED
  BY <1>1, <1>2, <1>3
     DEF Init, SessionInv, BurnedInv, ReuseEndsFamily, RevokeAllEndsSessions

\* The steps that change one row, and how.
LEMMA RotateRow ==
    ASSUME SessionInv, NEW c \in Calls, Rotate(c)
    PROVE  \E n \in calls[c].rows :
              /\ n \in Known /\ calls[c].id \in Known /\ calls[c].id < n
              /\ sessions[n].family = sessions[calls[c].id].family
              /\ sessions' = Rotated(sessions, calls[c].id, n)
<1>1. CallOK(calls[c]) /\ calls[c].pc = "rotate"
  BY DEF SessionInv, CallInv, Rotate
<1> QED  BY <1>1 DEF Rotate, CallOK

LEMMA StepSession == SessionInv /\ [Next]_vars => SessionInv'
<1> SUFFICES ASSUME SessionInv, [Next]_vars
             PROVE  SessionInv'
  OBVIOUS
<1>0. /\ TypeOK /\ \A c \in Calls : calls[c] \in Call /\ CallOK(calls[c])
                                    /\ OvertakenOK(calls[c])
      /\ \A s \in Delivered : s \in Known
  BY DEF SessionInv, CallInv, TypeOK, Delivered
<1>1. ASSUME NEW c \in Calls, NEW u \in Users, NEW known \in 0..MaxResets, Login(c, u, known)
      PROVE  SessionInv'
  <2>1. PICK t \in Call : /\ calls' = [calls EXCEPT ![c] = t]
                          /\ t.pc = "issue" /\ t.user = u /\ t.id = 0
                          /\ t.password = password[u] /\ t.active
    BY <1>1, LoginCall
  <2>2. status[u] = "active" /\ UNCHANGED <<status, password, sessions, burned>>
    BY <1>1 DEF Login
  <2>3. CallOK(t) /\ OvertakenOK(t)
    BY <2>1, <2>2 DEF CallOK, OvertakenOK
  <2> QED  BY <2>1, <2>2, <2>3, CallStep
<1>2. ASSUME NEW c \in Calls, NEW s \in Delivered, Refresh(c, s)
      PROVE  SessionInv'
  <2> DEFINE row == sessions[s]
  <2>1. PICK t \in Call :
              /\ calls' = [calls EXCEPT ![c] = t]
              /\ t.user = row.user /\ t.id = s /\ t.family = row.family /\ t.new = ""
              /\ \/ t.pc = "reuse"
                 \/ /\ t.pc = "profile" /\ Live(s) /\ t.password = row.password
                    /\ t.overtaken = row.straggler
                    /\ (t.active <=> status[row.user] = "active")
    BY <1>0, <1>2, RefreshCall
  <2>2. s \in Known /\ s # 0 /\ row.user \in Users
    BY <1>0, KnownFacts DEF Session
  <2>3. CallOK(t)
    BY <2>1, <2>2 DEF CallOK
  <2>4. OvertakenOK(t)
    <3>1. CASE t.pc = "reuse"
      BY <3>1 DEF OvertakenOK
    <3>2. CASE t.pc = "profile" /\ Live(s) /\ t.password = row.password
               /\ t.overtaken = row.straggler
               /\ (t.active <=> status[row.user] = "active")
      <4>1. /\ status[row.user] # "active" => row.straggler
            /\ row.password # password[row.user] => row.straggler
            /\ row.family \in burned => row.straggler
        BY <2>2, <3>2 DEF SessionInv, ReuseEndsFamily, RevokeAllEndsSessions
      <4> QED  BY <2>1, <3>2, <4>1 DEF OvertakenOK
    <3> QED  BY <2>1, <3>1, <3>2
  <2> QED  BY <1>2, <2>1, <2>3, <2>4, CallStep DEF Refresh
<1>3. ASSUME NEW c \in Calls, NEW u \in Users, NEW s \in Delivered, FetchLogout(c, u, s)
      PROVE  SessionInv'
  <2>1. s \in Known /\ s # 0
    BY <1>0, KnownFacts
  <2>2. PICK t \in Call : /\ calls' = [calls EXCEPT ![c] = t]
                          /\ t.pc = "logout" /\ t.user = u /\ t.id = s
    BY <1>0, <1>3, <2>1, LogoutCall
  <2>3. CallOK(t) /\ OvertakenOK(t)
    BY <2>1, <2>2 DEF CallOK, OvertakenOK
  <2> QED  BY <1>3, <2>2, <2>3, CallStep DEF FetchLogout
<1>4. ASSUME NEW c \in Calls, NEW u \in Users, NEW new \in {"inactive", "password"},
             RevokeAll(c, u, new)
      PROVE  SessionInv'
  <2>1. PICK t \in Call : /\ calls' = [calls EXCEPT ![c] = t]
                          /\ t.pc = "commit" /\ t.user = u /\ t.id = 0
    BY <1>0, <1>4, RevokeAllCall
  <2>2. CallOK(t) /\ OvertakenOK(t)
    BY <2>1 DEF CallOK, OvertakenOK
  <2> QED  BY <1>4, <2>1, <2>2, CallStep DEF RevokeAll
<1>r. ASSUME NEW c \in Calls, Return(c), UNCHANGED <<status, password, sessions, burned>>
      PROVE  SessionInv'
  BY <1>r, NoCallFacts, CallStep DEF Return
<1>5. ASSUME NEW c \in Calls, LoadProfile(c)
      PROVE  SessionInv'
  <2>0. UNCHANGED <<status, password, sessions, burned>> /\ calls[c].pc = "profile"
    BY <1>5 DEF LoadProfile
  <2>1. CASE status[calls[c].user] = "active" /\ Goto(c, "issue")
    <3>1. PICK t \in Call :
              /\ calls' = [calls EXCEPT ![c] = t] /\ t.pc = "issue"
              /\ t.user = calls[c].user /\ t.id = calls[c].id /\ t.family = calls[c].family
              /\ t.password = calls[c].password
              /\ t.overtaken = calls[c].overtaken /\ t.active = calls[c].active
      BY <1>0, <2>1, GotoCall
    <3>2. CallOK(t)
      BY <1>0, <2>0, <3>1 DEF CallOK
    <3>3. OvertakenOK(t)
      BY <1>0, <2>0, <2>1, <3>1 DEF OvertakenOK
    <3> QED  BY <2>0, <3>1, <3>2, <3>3, CallStep
  <2>2. CASE Return(c)
    BY <1>r, <2>0, <2>2
  <2> QED  BY <1>5, <2>1, <2>2 DEF LoadProfile
<1>6. ASSUME NEW c \in Calls, Rotate(c)
      PROVE  SessionInv'
  <2>1. PICK n \in calls[c].rows :
              /\ n \in Known /\ calls[c].id \in Known /\ calls[c].id < n
              /\ sessions[n].family = sessions[calls[c].id].family
              /\ sessions' = Rotated(sessions, calls[c].id, n)
    BY <1>6, RotateRow
  <2>2. PICK t \in Call : /\ calls' = [calls EXCEPT ![c] = t] /\ t.pc = "reply"
                          /\ t.rows = calls[c].rows /\ t.id = calls[c].id
    BY <1>0, <1>6, GotoCall DEF Rotate
  <2>3. t.rows \subseteq Known
    BY <1>0, <1>6, <2>2 DEF CallOK, Rotate
  <2>4. PICK i \in Known : i = calls[c].id
    BY <2>1
  <2>5. sessions[i] \in Session /\ n \in Ids /\ Known = 1..Len(sessions)
    BY <1>0, <2>1, KnownFacts
  <2>6. PICK r : r = IF sessions[i].revoked THEN sessions[i]
                     ELSE [sessions[i] EXCEPT !.revoked = TRUE, !.replacedBy = n]
    OBVIOUS
  <2>7. /\ r \in Session /\ r.user = sessions[i].user /\ r.family = sessions[i].family
        /\ r.password = sessions[i].password /\ r.active = sessions[i].active
        /\ r.straggler = sessions[i].straggler /\ r.revoked
        /\ r.replacedBy = sessions[i].replacedBy \/ r.replacedBy = n
    BY <2>5, <2>6 DEF Session
  <2>8. sessions' = [sessions EXCEPT ![i] = r]
    <3>1. CASE sessions[i].revoked
      <4>1. sessions' = sessions /\ r = sessions[i]
        BY <2>1, <2>4, <2>6, <3>1 DEF Rotated
      <4> QED  BY <1>0, <2>5, <4>1 DEF TypeOK
    <3>2. CASE ~sessions[i].revoked
      <4>1. sessions' = [sessions EXCEPT ![i].revoked = TRUE, ![i].replacedBy = n]
        BY <2>1, <2>4, <3>2 DEF Rotated
      <4>2. r = [sessions[i] EXCEPT !.revoked = TRUE, !.replacedBy = n]
        BY <2>6, <3>2
      <4> QED  BY <1>0, <2>5, <4>1, <4>2 DEF TypeOK, Known
    <3> QED  BY <3>1, <3>2
  <2>9. n \in (i + 1)..Len(sessions)
    BY <1>0, <2>1, <2>4, KnownFacts
  <2>10. UNCHANGED <<status, password, burned>>
    BY <1>6 DEF Rotate
  <2>11. t.pc = "reply" /\ t.rows \subseteq Known /\ t.id \in Known
    BY <2>1, <2>2, <2>3
  <2>12. \/ r.replacedBy = sessions[i].replacedBy
         \/ /\ r.replacedBy \in (i + 1)..Len(sessions)
            /\ sessions[r.replacedBy].family = sessions[i].family
    BY <2>1, <2>4, <2>7, <2>9
  <2> QED  BY <2>2, <2>7, <2>8, <2>10, <2>11, <2>12, RowStep
<1>7. ASSUME NEW c \in Calls, Reply(c) \/ Logout(c)
      PROVE  SessionInv'
  <2>0. PICK i \in Known :
           \/ sessions' = [sessions EXCEPT ![i] = [sessions[i] EXCEPT !.delivered = TRUE]]
           \/ sessions' = [sessions EXCEPT ![i] = [sessions[i] EXCEPT !.revoked = TRUE]]
    <3>1. CASE Reply(c)
      BY <1>0, <3>1 DEF Reply, CallOK
    <3>2. CASE Logout(c)
      BY <1>0, <3>2 DEF Logout, CallOK
    <3> QED  BY <1>7, <3>1, <3>2
  <2>1. PICK r : /\ \/ r = [sessions[i] EXCEPT !.delivered = TRUE]
                    \/ r = [sessions[i] EXCEPT !.revoked = TRUE]
                 /\ sessions' = [sessions EXCEPT ![i] = r]
    BY <2>0
  <2>2. sessions[i] \in Session
    BY <1>0, KnownFacts
  <2>3. /\ r \in Session /\ r.user = sessions[i].user /\ r.family = sessions[i].family
        /\ r.password = sessions[i].password /\ r.active = sessions[i].active
        /\ r.straggler = sessions[i].straggler /\ (sessions[i].revoked => r.revoked)
        /\ r.replacedBy = sessions[i].replacedBy
    BY <2>1, <2>2 DEF Session
  <2>4. UNCHANGED <<status, password, burned>>
    BY <1>7 DEF Reply, Logout
  <2>5. sessions' = [sessions EXCEPT ![i] = r]
    BY <2>1
  <2>6. PICK t \in Call : t.pc = "idle" /\ calls' = [calls EXCEPT ![c] = t]
    BY <1>7, NoCallFacts DEF Reply, Logout, Return
  <2>7. sessions[i].revoked => r.revoked
    BY <2>3
  <2> QED  BY <2>3, <2>4, <2>5, <2>6, <2>7, RowStep
<1>8. ASSUME NEW c \in Calls, RevokeFamily(c)
      PROVE  SessionInv'
  <2>1. PICK t \in Call :
              /\ calls' = [calls EXCEPT ![c] = t]
              /\ t.pc = "commit" /\ t.user = calls[c].user /\ t.id = calls[c].id
              /\ t.family = calls[c].family /\ t.new = calls[c].new
    BY <1>0, <1>8, RevokeFamilyCall
  <2>2. calls[c].pc = "reuse" /\ UNCHANGED <<status, password, sessions, burned>>
    BY <1>8 DEF RevokeFamily
  <2>3. CallOK(t) /\ OvertakenOK(t)
    BY <1>0, <2>1, <2>2 DEF CallOK, OvertakenOK
  <2> QED  BY <2>1, <2>2, <2>3, CallStep
<1>9. ASSUME NEW c \in Calls, Fail(c)
      PROVE  SessionInv'
  BY <1>9, <1>r DEF Fail
<1>10. CASE UNCHANGED vars
  <2>1. Known' = Known
    BY <1>10 DEF vars, Known
  <2>2. CallInv'
    BY <1>10, <2>1 DEF vars, SessionInv, CallInv, CallOK, OvertakenOK
  <2> QED
    BY <1>10, <2>1, <2>2
       DEF vars, SessionInv, TypeOK, BurnedInv, ReuseEndsFamily, RevokeAllEndsSessions, Live
<1> QED
  BY <1>1, <1>2, <1>3, <1>4, <1>5, <1>6, <1>7, <1>8, <1>9, <1>10,
     IssueStep, ReactivateStep, CommitStep DEF Next

(***************************************************************************)
(* Refresh: when the reuse of a token was detected, whatever is live in    *)
(* its family was issued by a refresh under way at the COMMIT that ended   *)
(* the family, or descends from such a session.                            *)
(***************************************************************************)
THEOREM ReuseEndsTheFamily == Spec => []ReuseEndsFamily
<1>1. SessionInv => ReuseEndsFamily
  BY DEF SessionInv
<1> QED  BY <1>1, InitSession, StepSession, PTL DEF Spec

(***************************************************************************)
(* UpdateStatus, ResetPassword, Login and Refresh: what is live of a user  *)
(* who is deactivated, or goes back to a former password, was issued by a  *)
(* call under way at the COMMIT of that change or descends from such a     *)
(* session; and no session was issued by a call throughout which its user  *)
(* was deactivated.                                                        *)
(***************************************************************************)
THEOREM RevocationsEndSessions == Spec => [](TypeOK /\ RevokeAllEndsSessions)
<1>1. SessionInv => TypeOK /\ RevokeAllEndsSessions
  BY DEF SessionInv
<1> QED  BY <1>1, InitSession, StepSession, PTL DEF Spec

LEMMA StepFinal ==
    SessionInv /\ [Next]_vars =>
       \A s \in Known :
          ~Live(s) => /\ sessions'[s].revoked
                      /\ sessions'[s].replacedBy = sessions[s].replacedBy
<1> SUFFICES ASSUME SessionInv, [Next]_vars, NEW s \in Known, sessions[s].revoked
             PROVE  /\ sessions'[s].revoked
                    /\ sessions'[s].replacedBy = sessions[s].replacedBy
  BY DEF Live
<1>0. TypeOK /\ s \in DOMAIN sessions /\ sessions[s] \in Session
  BY KnownFacts DEF SessionInv, Known
<1>1. ASSUME NEW c \in Calls, IssueSession(c)
      PROVE  sessions'[s] = sessions[s]
  <2>1. s \in 1..Len(sessions)
    BY <1>0, KnownFacts
  <2>2. PICK row : sessions' = Append(sessions, row)
    BY <1>1 DEF IssueSession
  <2> QED  BY <1>0, <2>1, <2>2 DEF TypeOK
<1>2. ASSUME NEW c \in Calls, Rotate(c)
      PROVE  sessions'[s] = sessions[s]
  <2>1. PICK n : calls[c].id \in Known /\ sessions' = Rotated(sessions, calls[c].id, n)
    BY <1>2, RotateRow
  <2>2. CASE calls[c].id = s
    BY <2>1, <2>2 DEF Rotated
  <2>3. CASE calls[c].id # s
    BY <1>0, <2>1, <2>3 DEF Rotated
  <2> QED  BY <2>2, <2>3
<1>3. ASSUME NEW c \in Calls, Reply(c) \/ Logout(c)
      PROVE  /\ sessions'[s].revoked
             /\ sessions'[s].replacedBy = sessions[s].replacedBy
  BY <1>0, <1>3 DEF Reply, Logout, Session
<1>4. ASSUME NEW c \in Calls, Commit(c)
      PROVE  /\ sessions'[s].revoked
             /\ sessions'[s].replacedBy = sessions[s].replacedBy
  BY <1>0, <1>4, CommitRows
<1>5. CASE UNCHANGED sessions
  BY <1>5
<1> QED
  BY <1>1, <1>2, <1>3, <1>4, <1>5
     DEF Next, vars, Login, Refresh, FetchLogout, RevokeAll, LoadProfile, RevokeFamily,
         Fail, Reactivate

(***************************************************************************)
(* RevokeAuthSession, RevokeAuthSessionAndReplace and the UPDATEs of       *)
(* several rows: a session that ended stays ended, and whichever of two    *)
(* concurrent refreshes rotated it first has decided what replaced it.     *)
(***************************************************************************)
THEOREM RevocationIsFinal == Spec => RevokedIsFinal
<1>1. SessionInv /\ [Next]_vars =>
        [\A s \in Known :
            ~Live(s) => /\ sessions'[s].revoked
                        /\ sessions'[s].replacedBy = sessions[s].replacedBy]_vars
  BY StepFinal
<1> QED  BY <1>1, InitSession, StepSession, PTL DEF Spec, RevokedIsFinal
=============================================================================
