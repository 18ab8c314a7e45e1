--------------------------- MODULE CaseAccessProofs ---------------------------
(***************************************************************************)
(* Proofs about CaseAccess, for any number of users, of calls and of roles:*)
(* while members and shares change under a request, nobody is served who   *)
(* was never entitled, nobody is refused who always was, and nobody writes *)
(* from outside the case.                                                  *)
(***************************************************************************)
EXTENDS CaseAccess, TLAPS

(***************************************************************************)
(* The inductive invariant                                                 *)
(***************************************************************************)
Answers == {"served", "refused"}
Steps == {"found", "relation", "share", "row", "check", "write"}

CallRecord == [pc : {"idle"} \cup Steps \cup Answers, op : Ops \cup {"none"},
               user : Users \cup {None}, target : Users \cup Statuses \cup {None}]

\* The tables; TypeOK but for the calls.
WorldOK ==
    /\ role \in [Users -> AllRoles]
    /\ status \in Statuses
    /\ members \subseteq Users /\ Owner \in members
    /\ shares \in [Users -> {"none", "VIEW", "VERIFY", "expired"}]
    /\ damaged \in BOOLEAN /\ tampered \in BOOLEAN
    /\ exports \subseteq Users

\* What a call has in hand at each of its steps.
CallOK(k) ==
    /\ k.pc \in Steps =>
          /\ k.user \in Users /\ k.op \in Ops
          /\ k.op \in {"share", "revoke"} \cup TeamOps => k.target \in Users
          /\ k.op = "update" => k.target \in Statuses
    /\ k.pc = "found" => k.op \in DocumentOps
    /\ k.pc = "relation" => k.op \in DocumentOps \cup CaseOps /\ ~IsAdmin(k.user)
    /\ k.pc = "share" => k.op \in {"download", "export", "verify"}
    /\ k.pc = "check" => k.op \in {"verify", "redact"}
    /\ k.pc = "write" /\ k.op \in TeamOps =>
          k.target # Owner /\ (k.user = Owner \/ IsAdmin(k.user))

\* The steps of a call at which authz has found it entitled, and which may be
\* behind the moment at which it was.
Granted(k) ==
    \/ k.op = "verify" /\ k.pc \in {"row", "check"}
    \/ k.op = "export" /\ k.pc = "write"
    \/ k.pc = "served"

\* The account of call c agrees with where the call is.
GhostOK(c) ==
    /\ calls[c].pc \in Steps => /\ Standing(c) # {} => c \in ever
                                /\ steady[c] \subseteq Standing(c)
    /\ calls[c].pc = "share" => "inside" \notin steady[c]
    /\ Granted(calls[c]) => c \in ever
    /\ calls[c].pc = "refused" => steady[c] = {}

CallsOK == \A c \in Calls : CallOK(calls[c])
GhostsOK == \A c \in Calls : GhostOK(c)

AccessInv == TypeOK /\ CallsOK /\ GhostsOK

\* Call c, if it writes in this step, does so from inside the case.
WritesInside(c) ==
    LET call == calls[c]
        wrote == call.pc = "write" /\ calls'[c].pc = "served"
    IN
    /\ wrote /\ call.op \notin TeamOps \cup {"export"} => Inside(call.user)
    /\ wrote /\ call.op \in TeamOps => call.user = Owner \/ IsAdmin(call.user)
    /\ call.pc = "check" /\ calls'[c] # call /\ tampered' # tampered => Inside(call.user)

AllWriteInside == \A c \in Calls : WritesInside(c)

-----------------------------------------------------------------------------
(***************************************************************************)
(* What entitles a call                                                    *)
(***************************************************************************)
LEMMA StandingWays ==
    ASSUME NEW c \in Calls
    PROVE  /\ Standing(c) \subseteq {"inside", "share"}
           /\ calls[c].op # "fetch" =>
                 ("inside" \in Standing(c) <=>
                     IF calls[c].op \in TeamOps
                        THEN IsAdmin(calls[c].user) \/ calls[c].user = Owner
                        ELSE Inside(calls[c].user))
           /\ calls[c].op \in {"download", "export"} =>
                 ("share" \in Standing(c) <=> HasActiveShare(calls[c].user))
           /\ calls[c].op = "verify" =>
                 ("share" \in Standing(c) <=> shares[calls[c].user] = "VERIFY")
           /\ calls[c].op \notin {"download", "export", "verify", "fetch"} =>
                 "share" \notin Standing(c)
BY DEF Standing, HasActiveShare

LEMMA StandingFetch ==
    ASSUME NEW c \in Calls, calls[c].op = "fetch"
    PROVE  Standing(c) # {} <=>
              /\ calls[c].user \in exports \/ IsAdmin(calls[c].user)
              /\ MaySelect(calls[c].user)
<1>0. "fetch" \notin TeamOps
  BY DEF TeamOps
<1>1. CASE calls[c].user \notin exports /\ ~IsAdmin(calls[c].user)
  <2>1. Standing(c) = {}
    BY <1>1 DEF Standing
  <2> QED  BY <1>1, <2>1
<1>2. CASE calls[c].user \in exports \/ IsAdmin(calls[c].user)
  <2>1. Standing(c) \subseteq {"inside", "share"}
        /\ ("inside" \in Standing(c) <=> Inside(calls[c].user))
        /\ ("share" \in Standing(c) <=> HasActiveShare(calls[c].user))
    BY <1>0, <1>2 DEF Standing, HasActiveShare
  <2> QED  BY <1>2, <2>1 DEF MaySelect
<1> QED  BY <1>1, <1>2

\* A call that is entitled now is in the account; one that is not, is not
\* entitled in the same way all the time.
LEMMA Account ==
    ASSUME AccessInv, NEW c \in Calls, calls[c].pc \in Steps
    PROVE  /\ Standing(c) # {} => c \in ever
           /\ Standing(c) = {} => steady[c] = {}
           /\ "inside" \notin Standing(c) => "inside" \notin steady[c]
BY DEF AccessInv, GhostsOK, GhostOK

LEMMA CallFacts ==
    ASSUME AccessInv, NEW c \in Calls
    PROVE  /\ calls[c] \in CallRecord /\ CallOK(calls[c])
           /\ calls[c].pc \in Steps => calls[c].user \in Users /\ calls[c].op \in Ops
           /\ WorldOK
BY DEF AccessInv, TypeOK, CallsOK, CallOK, CallRecord, Steps, Answers, WorldOK

LEMMA TrackFacts ==
    ASSUME Track, NEW c \in Calls
    PROVE  /\ Running(c)' /\ ~Answered(c)' =>
                 (Standing(c)' # {} => c \in ever') /\ steady'[c] \subseteq Standing(c)'
           /\ Running(c)' /\ c \in ever => c \in ever'
           /\ Running(c)' /\ Answered(c)' => steady'[c] = steady[c]
           /\ Running(c)' /\ ~Answered(c)' /\ Running(c) => steady'[c] \subseteq steady[c]
<1>1. ever' = {d \in Calls :
          Running(d)' /\ (d \in ever \/ (~Answered(d)' /\ Standing(d)' # {}))}
  BY DEF Track
<1>2. steady'[c] = IF ~Running(c)' THEN {}
                   ELSE IF Answered(c)' THEN steady[c]
                   ELSE IF ~Running(c) THEN Standing(c)'
                   ELSE steady[c] \cap Standing(c)'
  BY DEF Track
<1> QED  BY <1>1, <1>2

-----------------------------------------------------------------------------
(***************************************************************************)
(* A step of one call                                                      *)
(***************************************************************************)
LEMMA InitInv == Init => AccessInv
<1> SUFFICES ASSUME Init PROVE AccessInv
  OBVIOUS
<1>1. TypeOK
  BY OwnerAssumption, StatusesAssumption DEF Init, TypeOK, NoCall
<1>2. CallsOK
  BY DEF Init, CallsOK, CallOK, NoCall, Steps
<1>3. GhostsOK
  BY DEF Init, GhostsOK, GhostOK, NoCall, Steps, Granted
<1> QED  BY <1>1, <1>2, <1>3 DEF AccessInv

\* What is in the hands of another call stays as it is.
LEMMA CallKept ==
    ASSUME NEW k \in CallRecord, CallOK(k), role' = role
    PROVE  CallOK(k)'
BY DEF CallOK, IsAdmin

\* Call c becomes k.  The account follows by itself, except where it has to be
\* shown that the call is, or that it is not, entitled by now.
LEMMA CallStep ==
    ASSUME AccessInv, NEW c \in Calls, NEW k \in CallRecord,
           calls' = [calls EXCEPT ![c] = k], CallOK(k), WorldOK', role' = role, Track,
           k.pc = "share" => calls[c].pc \in Steps /\ "inside" \notin steady[c],
           Granted(k) => c \in ever,
           k.pc = "refused" => steady[c] = {}
    PROVE  AccessInv'
<1>1. /\ calls' \in [Calls -> CallRecord] /\ calls'[c] = k
      /\ \A d \in Calls : d # c => calls'[d] = calls[d]
  BY DEF AccessInv, TypeOK, CallRecord, Steps, Answers
<1>2. TypeOK'
  BY <1>1 DEF TypeOK, WorldOK, CallRecord, Steps, Answers
<1>3. CallsOK'
  <2> SUFFICES ASSUME NEW d \in Calls PROVE CallOK(calls[d])'
    BY DEF CallsOK
  <2>1. PICK l \in CallRecord : l = calls'[d] /\ CallOK(l)
    BY <1>1, CallFacts
  <2>2. CallOK(l)'
    BY <2>1, CallKept
  <2> QED  BY <2>1, <2>2 DEF CallOK
<1>4. GhostsOK'
  <2> SUFFICES ASSUME NEW d \in Calls PROVE GhostOK(d)'
    BY DEF GhostsOK
  <2>1. /\ Granted(calls[d])' => d \in ever
        /\ calls'[d].pc = "refused" => steady[d] = {}
        /\ calls'[d].pc = "share" => Running(d) /\ "inside" \notin steady[d]
    <3>1. CASE d = c
      <4>1. Granted(calls[d])' <=> Granted(k)
        BY <1>1, <3>1 DEF Granted
      <4> QED  BY <1>1, <3>1, <4>1 DEF Running, Steps
    <3>2. CASE d # c
      <4>1. Granted(calls[d])' <=> Granted(calls[d])
        BY <1>1, <3>2 DEF Granted
      <4> QED  BY <1>1, <3>2, <4>1 DEF AccessInv, GhostsOK, GhostOK, Running
    <3> QED  BY <3>1, <3>2
  <2>2. /\ calls'[d].pc \in Steps => Running(d)' /\ ~Answered(d)'
        /\ calls'[d].pc \in Answers => Running(d)' /\ Answered(d)'
        /\ calls'[d].pc \in Steps \cup Answers => Running(d)'
    BY DEF Running, Answered, Steps, Answers
  <2>3. calls'[d].pc \in Steps =>
           (Standing(d)' # {} => d \in ever') /\ steady'[d] \subseteq Standing(d)'
    BY <2>2, TrackFacts
  <2>4. calls'[d].pc = "share" => "inside" \notin steady'[d]
    <3>1. "share" \in Steps
      BY DEF Steps
    <3> QED  BY <2>1, <2>2, <3>1, TrackFacts
  <2>5. Granted(calls[d])' => d \in ever'
    <3>1. Granted(calls[d])' => calls'[d].pc \in Steps \cup Answers
      BY DEF Granted, Steps, Answers
    <3> QED  BY <2>1, <2>2, <3>1, TrackFacts
  <2>6. calls'[d].pc = "refused" => steady'[d] = {}
    <3>1. "refused" \in Answers
      BY DEF Answers
    <3> QED  BY <2>1, <2>2, <3>1, TrackFacts
  <2> QED  BY <2>3, <2>4, <2>5, <2>6 DEF GhostOK
<1> QED  BY <1>2, <1>3, <1>4 DEF AccessInv

\* Only the call that takes a step can write in it.
LEMMA OneWriter ==
    ASSUME AccessInv, NEW c \in Calls, NEW k, calls' = [calls EXCEPT ![c] = k],
           WritesInside(c)
    PROVE  AllWriteInside
<1>1. \A d \in Calls : d # c => calls'[d] = calls[d]
  BY DEF AccessInv, TypeOK
<1>2. ASSUME NEW d \in Calls, d # c PROVE WritesInside(d)
  BY <1>1, <1>2 DEF WritesInside
<1> QED  BY <1>2 DEF AllWriteInside

LEMMA GotoRecord ==
    ASSUME AccessInv, NEW c \in Calls, NEW p \in Steps \cup Answers, Goto(c, p)
    PROVE  \E k \in CallRecord :
              /\ calls' = [calls EXCEPT ![c] = k] /\ k.pc = p /\ k.op = calls[c].op
              /\ p \in Steps => k.user = calls[c].user /\ k.target = calls[c].target
<1>t. calls[c] \in CallRecord
  BY CallFacts
<1>1. CASE p \in Answers
  <2>1. PICK k : k = [NoCall EXCEPT !.pc = p, !.op = calls[c].op]
    OBVIOUS
  <2>2. k \in CallRecord /\ k.pc = p /\ k.op = calls[c].op
    BY <1>t, <1>1, <2>1 DEF CallRecord, NoCall, Answers
  <2>3. calls' = [calls EXCEPT ![c] = k] /\ p \notin Steps
    BY <1>1, <2>1 DEF Goto, Answers, Steps
  <2> QED  BY <2>2, <2>3
<1>2. CASE p \in Steps
  <2>1. PICK k : k = [calls[c] EXCEPT !.pc = p]
    OBVIOUS
  <2>2. /\ k \in CallRecord /\ k.pc = p /\ k.op = calls[c].op
        /\ k.user = calls[c].user /\ k.target = calls[c].target
    BY <1>t, <1>2, <2>1 DEF CallRecord
  <2>3. calls' = [calls EXCEPT ![c] = k]
    BY <1>2, <2>1 DEF Goto, Answers, Steps
  <2> QED  BY <2>2, <2>3
<1> QED  BY <1>1, <1>2

LEMMA GoesOn ==
    ASSUME AccessInv, NEW c \in Calls, calls[c].pc \in Steps,
           NEW p \in {"relation", "share", "row", "check", "write"}, Goto(c, p),
           p = "relation" => calls[c].op \in DocumentOps \cup CaseOps /\ ~IsAdmin(calls[c].user),
           p = "share" => calls[c].op \in {"download", "export", "verify"}
                          /\ "inside" \notin steady[c],
           p = "check" => calls[c].op \in {"verify", "redact"},
           p \in {"row", "check"} /\ calls[c].op = "verify" => c \in ever,
           p = "write" /\ calls[c].op = "export" => c \in ever,
           p = "write" /\ calls[c].op \in TeamOps =>
              calls[c].target # Owner /\ (calls[c].user = Owner \/ IsAdmin(calls[c].user)),
           WorldOK', role' = role, Track,
           calls[c].pc = "check" /\ tampered' # tampered => Inside(calls[c].user)
    PROVE  AccessInv' /\ AllWriteInside
<1>1. p \in Steps \cup Answers /\ p \in Steps
  BY DEF Steps
<1>2. PICK k \in CallRecord :
         /\ calls' = [calls EXCEPT ![c] = k] /\ k.pc = p /\ k.op = calls[c].op
         /\ k.user = calls[c].user /\ k.target = calls[c].target
  BY <1>1, GotoRecord
<1>3. CallOK(k)
  BY <1>2, CallFacts DEF CallOK
<1>4. /\ Granted(k) => c \in ever
      /\ k.pc = "share" => calls[c].pc \in Steps /\ "inside" \notin steady[c]
      /\ k.pc # "refused"
  BY <1>2 DEF Granted
<1>5. AccessInv'
  BY <1>2, <1>3, <1>4, CallStep
<1>6. calls'[c].pc = p
  BY <1>2 DEF AccessInv, TypeOK
<1>7. WritesInside(c)
  BY <1>6 DEF WritesInside
<1> QED  BY <1>2, <1>5, <1>7, OneWriter

LEMMA IsServed ==
    ASSUME AccessInv, NEW c \in Calls, calls[c].pc \in Steps, Goto(c, "served"),
           c \in ever, WorldOK', role' = role, Track,
           calls[c].pc = "write" /\ calls[c].op \notin TeamOps \cup {"export"} =>
              Inside(calls[c].user),
           calls[c].pc = "check" /\ tampered' # tampered => Inside(calls[c].user)
    PROVE  AccessInv' /\ AllWriteInside
<1>1. "served" \in Steps \cup Answers
  BY DEF Answers
<1>2. PICK k \in CallRecord : calls' = [calls EXCEPT ![c] = k] /\ k.pc = "served"
  BY <1>1, GotoRecord
<1>3. CallOK(k)
  BY <1>2 DEF CallOK, Steps
<1>5. AccessInv'
  BY <1>2, <1>3, CallStep
<1>7. WritesInside(c)
  BY CallFacts DEF WritesInside, CallOK
<1> QED  BY <1>2, <1>5, <1>7, OneWriter

LEMMA IsRefused ==
    ASSUME AccessInv, NEW c \in Calls, calls[c].pc \in Steps \ {"check"},
           Goto(c, "refused"), Standing(c) = {} \/ steady[c] = {}, WorldOK', role' = role, Track
    PROVE  AccessInv' /\ AllWriteInside
<1>1. "refused" \in Steps \cup Answers
  BY DEF Answers
<1>2. PICK k \in CallRecord : calls' = [calls EXCEPT ![c] = k] /\ k.pc = "refused"
  BY <1>1, GotoRecord
<1>3. CallOK(k)
  BY <1>2 DEF CallOK, Steps
<1>4. ~Granted(k) /\ steady[c] = {}
  BY <1>2, Account DEF Granted
<1>5. AccessInv'
  BY <1>2, <1>3, <1>4, CallStep
<1>6. calls'[c].pc = "refused"
  BY <1>2 DEF AccessInv, TypeOK
<1>7. WritesInside(c)
  BY <1>6 DEF WritesInside
<1> QED  BY <1>2, <1>5, <1>7, OneWriter

LEMMA Ends ==
    ASSUME AccessInv, NEW c \in Calls, Return(c), WorldOK', role' = role, Track,
           calls[c].pc = "check" /\ tampered' # tampered => Inside(calls[c].user)
    PROVE  AccessInv' /\ AllWriteInside
<1>0. NoCall \in CallRecord /\ NoCall.pc = "idle"
  BY DEF NoCall, CallRecord
<1>1. PICK k \in CallRecord : k = NoCall /\ k.pc = "idle"
  BY <1>0
<1>2. calls' = [calls EXCEPT ![c] = k]
  BY <1>1 DEF Return
<1>3. CallOK(k) /\ ~Granted(k)
  BY <1>1 DEF CallOK, Granted, Steps, NoCall
<1>5. AccessInv'
  BY <1>1, <1>2, <1>3, CallStep
<1>6. calls'[c].pc = "idle"
  BY <1>1, <1>2 DEF AccessInv, TypeOK
<1>7. WritesInside(c)
  BY <1>6 DEF WritesInside
<1> QED  BY <1>2, <1>5, <1>7, OneWriter

-----------------------------------------------------------------------------
(***************************************************************************)
(* authz.Service                                                           *)
(***************************************************************************)
\* A step that leaves the tables alone.
LEMMA TablesStay ==
    ASSUME AccessInv, UNCHANGED <<world, status, members, shares, tampered, exports>>
    PROVE  WorldOK' /\ role' = role /\ tampered' = tampered
BY DEF AccessInv, TypeOK, WorldOK, world

LEMMA TargetTypes ==
    ASSUME NEW op \in Ops, NEW t \in Targets(op)
    PROVE  /\ t \in Users \cup Statuses \cup {None}
           /\ op \in {"share", "revoke"} \cup TeamOps => t \in Users
           /\ op = "update" => t \in Statuses
BY RecipientsAssumption, StatusesAssumption DEF Targets, TeamOps

LEMMA BeginKeeps ==
    ASSUME AccessInv, NEW c \in Calls, NEW u \in Users, NEW op \in Ops, NEW t \in Targets(op),
           Begin(c, u, op, t)
    PROVE  AccessInv' /\ AllWriteInside
<1>1. PICK p \in {"row", "found", "relation"} :
         /\ calls' = [calls EXCEPT ![c] = [pc |-> p, op |-> op, user |-> u, target |-> t]]
         /\ p = "found" => op \in DocumentOps
         /\ p = "row" => op # "verify"
         /\ p = "relation" => op \in CaseOps /\ ~IsAdmin(u)
  <2>1. /\ op \in DocumentOps \/ op \in CaseOps \/ op = "fetch"
        /\ op \in DocumentOps => op \notin CaseOps
        /\ op = "fetch" => op \notin DocumentOps /\ op \notin CaseOps
        /\ op \in CaseOps => op # "verify"
    BY DEF Ops, DocumentOps, CaseOps, TeamOps
  <2>2. CASE op = "fetch"
    BY <2>1, <2>2 DEF Begin
  <2>3. CASE op \in DocumentOps
    BY <2>1, <2>3 DEF Begin
  <2>4. CASE op \in CaseOps
    BY <2>1, <2>4 DEF Begin
  <2> QED  BY <2>1, <2>2, <2>3, <2>4
<1>2. PICK k : k = [pc |-> p, op |-> op, user |-> u, target |-> t]
  OBVIOUS
<1>3. k.pc = p /\ k.op = op /\ k.user = u /\ k.target = t
  BY <1>2
<1>4. k \in CallRecord
  BY <1>2, TargetTypes DEF CallRecord, Steps
<1>5. CallOK(k)
  BY <1>1, <1>3, TargetTypes DEF CallOK
<1>6. k.pc # "share" /\ ~Granted(k) /\ k.pc # "refused"
  BY <1>1, <1>3 DEF Granted
<1>7. WorldOK' /\ role' = role /\ Track
  BY TablesStay DEF Begin
<1>8. calls' = [calls EXCEPT ![c] = k]
  BY <1>1, <1>2
<1>9. AccessInv'
  BY <1>4, <1>5, <1>6, <1>7, <1>8, CallStep
<1>10. WritesInside(c)
  BY DEF WritesInside, Begin
<1> QED  BY <1>8, <1>9, <1>10, OneWriter

\* The operations that each operation is not.
LEMMA OpsApart ==
    ASSUME NEW op
    PROVE  /\ op \in DocumentOps => op \notin TeamOps /\ op # "fetch"
           /\ op \in CaseOps => op # "fetch"
           /\ op \in TeamOps => op # "fetch" /\ op \in CaseOps
           /\ op \in DocumentOps \cup CaseOps => op \notin {"download", "export", "verify"}
                 \/ op \in DocumentOps
BY DEF DocumentOps, CaseOps, TeamOps

LEMMA FindDocumentKeeps ==
    ASSUME AccessInv, NEW c \in Calls, FindDocument(c)
    PROVE  AccessInv' /\ AllWriteInside
<1> DEFINE u == calls[c].user
<1>1. /\ calls[c].pc = "found" /\ calls[c].pc \in Steps /\ u \in Users
      /\ calls[c].op \in DocumentOps /\ calls[c].op \notin TeamOps /\ calls[c].op # "fetch"
      /\ shares[u] \in {"none", "VIEW", "VERIFY", "expired"}
  BY CallFacts, OpsApart DEF FindDocument, Steps, CallOK, WorldOK
<1>2. WorldOK' /\ role' = role /\ Track /\ tampered' = tampered
  BY TablesStay DEF FindDocument
<1>3. CASE ~MaySelect(u)
  <2>1. Goto(c, "refused")
    BY <1>3 DEF FindDocument
  <2>2. Standing(c) = {}
    BY <1>1, <1>3, StandingWays DEF MaySelect, HasActiveShare
  <2> QED  BY <1>1, <1>2, <2>1, <2>2, IsRefused
<1>4. CASE MaySelect(u) /\ IsAdmin(u)
  <2>1. Goto(c, "row")
    BY <1>4 DEF FindDocument
  <2>2. c \in ever
    BY <1>1, <1>4, StandingWays, Account DEF Inside
  <2> QED  BY <1>1, <1>2, <2>1, <2>2, GoesOn
<1>5. CASE MaySelect(u) /\ ~IsAdmin(u)
  <2>1. Goto(c, "relation")
    BY <1>5 DEF FindDocument
  <2> QED  BY <1>1, <1>2, <1>5, <2>1, GoesOn
<1> QED  BY <1>3, <1>4, <1>5

LEMMA LoadCaseRelationshipKeeps ==
    ASSUME AccessInv, NEW c \in Calls, LoadCaseRelationship(c)
    PROVE  AccessInv' /\ AllWriteInside
<1> DEFINE u == calls[c].user
           related == u = Owner \/ u \in members
<1>1. /\ calls[c].pc = "relation" /\ calls[c].pc \in Steps /\ u \in Users
      /\ calls[c].op \in DocumentOps \cup CaseOps /\ ~IsAdmin(u) /\ calls[c].op # "fetch"
      /\ Owner \in members
  BY CallFacts, OpsApart DEF LoadCaseRelationship, Steps, CallOK, WorldOK
<1>2. WorldOK' /\ role' = role /\ Track /\ tampered' = tampered
  BY TablesStay DEF LoadCaseRelationship
<1>3. CASE related
  <2>1. Goto(c, "row")
    BY <1>3 DEF LoadCaseRelationship
  <2>2. calls[c].op = "verify" => c \in ever
    BY <1>1, <1>3, StandingWays, Account DEF Inside, TeamOps
  <2> QED  BY <1>1, <1>2, <2>1, <2>2, GoesOn
<1>4. CASE ~related
  <2>0. "inside" \notin Standing(c)
    BY <1>1, <1>4, StandingWays DEF Inside
  <2>1. CASE calls[c].op \in {"download", "export", "verify"}
    <3>1. Goto(c, "share")
      BY <1>4, <2>1 DEF LoadCaseRelationship
    <3>2. "inside" \notin steady[c]
      BY <1>1, <2>0, Account
    <3> QED  BY <1>1, <1>2, <2>1, <3>1, <3>2, GoesOn
  <2>2. CASE calls[c].op \notin {"download", "export", "verify"}
    <3>1. Goto(c, "refused")
      BY <1>4, <2>2 DEF LoadCaseRelationship
    <3>2. Standing(c) = {}
      BY <1>1, <2>0, <2>2, StandingWays
    <3> QED  BY <1>1, <1>2, <3>1, <3>2, IsRefused
  <2> QED  BY <2>1, <2>2
<1> QED  BY <1>3, <1>4

LEMMA ShareGrantsAccessKeeps ==
    ASSUME AccessInv, NEW c \in Calls, ShareGrantsAccess(c)
    PROVE  AccessInv' /\ AllWriteInside
<1> DEFINE u == calls[c].user
<1>1. /\ calls[c].pc = "share" /\ calls[c].pc \in Steps /\ u \in Users
      /\ calls[c].op \in {"download", "export", "verify"} /\ calls[c].op # "fetch"
      /\ calls[c].op \notin TeamOps
      /\ "inside" \notin steady[c]
  BY CallFacts DEF ShareGrantsAccess, Steps, CallOK, AccessInv, GhostsOK, GhostOK, TeamOps
<1>2. WorldOK' /\ role' = role /\ Track /\ tampered' = tampered
  BY TablesStay DEF ShareGrantsAccess
<1>3. CASE ShareCovers(u, calls[c].op)
  <2>1. Goto(c, "row")
    BY <1>3 DEF ShareGrantsAccess
  <2>2. "share" \in Standing(c)
    BY <1>1, <1>3, StandingWays DEF ShareCovers
  <2>3. c \in ever
    BY <1>1, <2>2, Account
  <2> QED  BY <1>1, <1>2, <2>1, <2>3, GoesOn
<1>4. CASE ~ShareCovers(u, calls[c].op)
  <2>1. Goto(c, "refused")
    BY <1>4 DEF ShareGrantsAccess
  <2>2. "share" \notin Standing(c)
    BY <1>1, <1>4, StandingWays DEF ShareCovers, HasActiveShare
  <2>3. Standing(c) \subseteq {"inside"} /\ steady[c] \subseteq Standing(c)
    BY <1>1, <2>2, StandingWays DEF AccessInv, GhostsOK, GhostOK
  <2>4. steady[c] = {}
    BY <1>1, <2>3
  <2> QED  BY <1>1, <1>2, <2>1, <2>4, IsRefused
<1> QED  BY <1>3, <1>4

-----------------------------------------------------------------------------
(***************************************************************************)
(* Documents and exports                                                   *)
(***************************************************************************)
LEMMA ReadDocumentKeeps ==
    ASSUME AccessInv, NEW c \in Calls, ReadDocument(c)
    PROVE  AccessInv' /\ AllWriteInside
<1> DEFINE u == calls[c].user
           op == calls[c].op
<1>1. /\ calls[c].pc = "row" /\ calls[c].pc \in Steps /\ u \in Users
      /\ op \in DocumentOps \cup {"upload"} /\ op # "fetch" /\ op \notin TeamOps
      /\ shares[u] \in {"none", "VIEW", "VERIFY", "expired"}
  BY CallFacts DEF ReadDocument, Steps, CallOK, WorldOK, DocumentOps, TeamOps
<1>2. WorldOK' /\ role' = role /\ Track /\ tampered' = tampered
  BY TablesStay DEF ReadDocument
<1>3. op = "verify" => c \in ever
  BY <1>1 DEF AccessInv, GhostsOK, GhostOK, Granted
<1>4. CASE op \in {"revoke", "upload"}
  <2>1. Goto(c, "write")
    BY <1>4 DEF ReadDocument
  <2> QED  BY <1>1, <1>2, <1>4, <2>1, GoesOn
<1>5. CASE op \notin {"revoke", "upload"} /\ ~MaySelect(u)
  <2>1. Goto(c, "refused")
    BY <1>5 DEF ReadDocument
  <2>2. Standing(c) = {}
    BY <1>1, <1>5, StandingWays DEF MaySelect, HasActiveShare
  <2> QED  BY <1>1, <1>2, <2>1, <2>2, IsRefused
<1>6. CASE op \notin {"revoke", "upload"} /\ MaySelect(u)
  <2>0. op \in {"download", "export"} => c \in ever
    BY <1>1, <1>6, StandingWays, Account DEF MaySelect
  <2>1. CASE op = "download"
    <3>1. Goto(c, "served")
      BY <1>6, <2>1 DEF ReadDocument
    <3> QED  BY <1>1, <1>2, <2>0, <2>1, <3>1, IsServed
  <2>2. CASE op \in {"verify", "redact"}
    <3>1. Goto(c, "check")
      BY <1>6, <2>2 DEF ReadDocument
    <3> QED  BY <1>1, <1>2, <1>3, <2>2, <3>1, GoesOn
  <2>3. CASE op \notin {"download", "verify", "redact"}
    <3>1. Goto(c, "write")
      BY <1>6, <2>3 DEF ReadDocument
    <3> QED  BY <1>1, <1>2, <2>0, <2>3, <3>1, GoesOn
  <2> QED  BY <2>1, <2>2, <2>3
<1> QED  BY <1>4, <1>5, <1>6

LEMMA DownloadEvidenceExportKeeps ==
    ASSUME AccessInv, NEW c \in Calls, DownloadEvidenceExport(c)
    PROVE  AccessInv' /\ AllWriteInside
<1> DEFINE u == calls[c].user
           visible == (IsAdmin(u) \/ u \in exports) /\ MaySelect(u)
<1>1. /\ calls[c].pc = "row" /\ calls[c].pc \in Steps /\ u \in Users
      /\ calls[c].op = "fetch"
  BY CallFacts DEF DownloadEvidenceExport, Steps, CallOK
<1>2. WorldOK' /\ role' = role /\ Track /\ tampered' = tampered
  BY TablesStay DEF DownloadEvidenceExport
<1>3. Standing(c) # {} <=> visible
  BY <1>1, StandingFetch
<1>4. CASE visible
  <2>1. Goto(c, "served")
    BY <1>4 DEF DownloadEvidenceExport
  <2>2. c \in ever
    BY <1>1, <1>3, <1>4, Account
  <2> QED  BY <1>1, <1>2, <2>1, <2>2, IsServed
<1>5. CASE ~visible
  <2>1. Goto(c, "refused")
    BY <1>5 DEF DownloadEvidenceExport
  <2> QED  BY <1>1, <1>2, <1>3, <1>5, <2>1, IsRefused
<1> QED  BY <1>4, <1>5

LEMMA ReconcileKeeps ==
    ASSUME AccessInv, NEW c \in Calls, Reconcile(c)
    PROVE  AccessInv' /\ AllWriteInside
<1>1. /\ calls[c].pc = "check" /\ calls[c].pc \in Steps
      /\ calls[c].op \in {"verify", "redact"} /\ calls[c].op \notin TeamOps
  BY CallFacts DEF Reconcile, Steps, CallOK, TeamOps
<1>2. WorldOK' /\ role' = role /\ Track
  BY DEF Reconcile, AccessInv, TypeOK, WorldOK, world
<1>3. tampered' # tampered => Inside(calls[c].user)
  BY DEF Reconcile, MayWrite, AccessInv, TypeOK
<1>4. CASE calls[c].op = "verify"
  <2>1. Goto(c, "served") /\ c \in ever
    BY <1>1, <1>4 DEF Reconcile, AccessInv, GhostsOK, GhostOK, Granted
  <2> QED  BY <1>1, <1>2, <1>3, <2>1, IsServed
<1>5. CASE calls[c].op # "verify" /\ damaged
  <2>1. Return(c)
    BY <1>5 DEF Reconcile
  <2> QED  BY <1>2, <1>3, <2>1, Ends
<1>6. CASE calls[c].op # "verify" /\ ~damaged
  <2>1. Goto(c, "write")
    BY <1>6 DEF Reconcile
  <2> QED  BY <1>1, <1>2, <1>3, <1>6, <2>1, GoesOn
<1> QED  BY <1>4, <1>5, <1>6

\* Who is inside the case is entitled to any write but a change of the team, and
\* who is not, is not.
LEMMA WriterStanding ==
    ASSUME AccessInv, NEW c \in Calls, calls[c].pc \in Steps,
           calls[c].op \in {"upload", "redact", "share", "revoke", "update"}
    PROVE  /\ Inside(calls[c].user) => c \in ever
           /\ ~Inside(calls[c].user) => Standing(c) = {}
           /\ calls[c].op \notin TeamOps
<1>1. calls[c].op \notin TeamOps /\ calls[c].op # "fetch"
      /\ calls[c].op \notin {"download", "export", "verify", "fetch"}
  BY DEF TeamOps
<1>2. "share" \notin Standing(c) /\ ("inside" \in Standing(c) <=> Inside(calls[c].user))
      /\ Standing(c) \subseteq {"inside", "share"}
  BY <1>1, StandingWays
<1> QED  BY <1>1, <1>2, Account

LEMMA InsertDocumentKeeps ==
    ASSUME AccessInv, NEW c \in Calls, InsertDocument(c)
    PROVE  AccessInv' /\ AllWriteInside
<1>1. /\ calls[c].pc = "write" /\ calls[c].pc \in Steps
      /\ calls[c].op \in {"upload", "redact", "share", "revoke", "update"}
  BY DEF InsertDocument, Steps
<1>2. WorldOK' /\ role' = role /\ Track /\ tampered' = tampered
  BY TablesStay DEF InsertDocument
<1>3. CASE Inside(calls[c].user)
  <2>1. Goto(c, "served")
    BY <1>3 DEF InsertDocument, MayWrite
  <2> QED  BY <1>1, <1>2, <1>3, <2>1, WriterStanding, IsServed
<1>4. CASE ~Inside(calls[c].user)
  <2>1. Goto(c, "refused")
    BY <1>4 DEF InsertDocument, MayWrite
  <2> QED  BY <1>1, <1>2, <1>4, <2>1, WriterStanding, IsRefused
<1> QED  BY <1>3, <1>4

LEMMA InsertExportKeeps ==
    ASSUME AccessInv, NEW c \in Calls, InsertExport(c)
    PROVE  AccessInv' /\ AllWriteInside
<1>1. /\ calls[c].pc = "write" /\ calls[c].pc \in Steps /\ calls[c].op = "export"
      /\ c \in ever /\ calls[c].user \in Users
  BY CallFacts DEF InsertExport, Steps, AccessInv, GhostsOK, GhostOK, Granted
<1>2. WorldOK' /\ role' = role /\ Track /\ tampered' = tampered /\ Goto(c, "served")
  BY <1>1 DEF InsertExport, AccessInv, TypeOK, WorldOK, world
<1> QED  BY <1>1, <1>2, IsServed

LEMMA CreateShareKeeps ==
    ASSUME AccessInv, NEW c \in Calls, CreateShare(c)
    PROVE  AccessInv' /\ AllWriteInside
<1>1. /\ calls[c].pc = "write" /\ calls[c].pc \in Steps /\ calls[c].target \in Users
      /\ calls[c].op \in {"upload", "redact", "share", "revoke", "update"}
  BY CallFacts DEF CreateShare, Steps, CallOK
<1>2. shares' \in [Users -> {"none", "VIEW", "VERIFY", "expired"}]
  BY <1>1 DEF CreateShare, AccessInv, TypeOK
<1>3. WorldOK' /\ role' = role /\ Track /\ tampered' = tampered
  BY <1>2 DEF CreateShare, AccessInv, TypeOK, WorldOK, world
<1>4. CASE Return(c)
  BY <1>1, <1>3, <1>4, Ends
<1>5. CASE ~Inside(calls[c].user) /\ Goto(c, "refused")
  BY <1>1, <1>3, <1>5, WriterStanding, IsRefused
<1>6. CASE Inside(calls[c].user) /\ Goto(c, "served")
  BY <1>1, <1>3, <1>6, WriterStanding, IsServed
<1> QED  BY <1>4, <1>5, <1>6 DEF CreateShare, MayWrite

LEMMA RevokeShareKeeps ==
    ASSUME AccessInv, NEW c \in Calls, RevokeShare(c)
    PROVE  AccessInv' /\ AllWriteInside
<1>1. /\ calls[c].pc = "write" /\ calls[c].pc \in Steps /\ calls[c].target \in Users
      /\ calls[c].op \in {"upload", "redact", "share", "revoke", "update"}
  BY CallFacts DEF RevokeShare, Steps, CallOK
<1>2. shares' \in [Users -> {"none", "VIEW", "VERIFY", "expired"}]
  BY <1>1 DEF RevokeShare, AccessInv, TypeOK
<1>3. WorldOK' /\ role' = role /\ Track /\ tampered' = tampered
  BY <1>2 DEF RevokeShare, AccessInv, TypeOK, WorldOK, world
<1>4. CASE Return(c)
  BY <1>1, <1>3, <1>4, Ends
<1>5. CASE ~Inside(calls[c].user) /\ Goto(c, "refused")
  BY <1>1, <1>3, <1>5, WriterStanding, IsRefused
<1>6. CASE Inside(calls[c].user) /\ Goto(c, "served")
  BY <1>1, <1>3, <1>6, WriterStanding, IsServed
<1> QED  BY <1>4, <1>5, <1>6 DEF RevokeShare, MayWrite

-----------------------------------------------------------------------------
(***************************************************************************)
(* Cases and members                                                       *)
(***************************************************************************)
\* The creator is a member, so that the policy of the case and those of its
\* documents agree.
LEMMA CreatorInside ==
    ASSUME AccessInv, NEW u PROVE MayUseCase(u) <=> Inside(u)
BY DEF AccessInv, TypeOK, MayUseCase, Inside

LEMMA ReadCaseKeeps ==
    ASSUME AccessInv, NEW c \in Calls, ReadCase(c)
    PROVE  AccessInv' /\ AllWriteInside
<1>1. /\ calls[c].pc = "row" /\ calls[c].pc \in Steps /\ calls[c].op = "update"
      /\ calls[c].op \in {"upload", "redact", "share", "revoke", "update"}
  BY DEF ReadCase, Steps
<1>2. WorldOK' /\ role' = role /\ Track /\ tampered' = tampered
  BY TablesStay DEF ReadCase
<1>3. CASE Return(c)
  BY <1>1, <1>2, <1>3, Ends
<1>4. CASE ~MayUseCase(calls[c].user) /\ Goto(c, "refused")
  BY <1>1, <1>2, <1>4, CreatorInside, WriterStanding, IsRefused
<1>5. CASE Goto(c, "write")
  BY <1>1, <1>2, <1>5, WriterStanding, GoesOn
<1> QED  BY <1>3, <1>4, <1>5 DEF ReadCase

LEMMA UpdateCaseKeeps ==
    ASSUME AccessInv, NEW c \in Calls, UpdateCase(c)
    PROVE  AccessInv' /\ AllWriteInside
<1>1. /\ calls[c].pc = "write" /\ calls[c].pc \in Steps /\ calls[c].target \in Statuses
      /\ calls[c].op \in {"upload", "redact", "share", "revoke", "update"}
  BY CallFacts DEF UpdateCase, Steps, CallOK
<1>2. WorldOK' /\ role' = role /\ Track /\ tampered' = tampered
  BY <1>1 DEF UpdateCase, AccessInv, TypeOK, WorldOK, world
<1>3. CASE Inside(calls[c].user)
  <2>1. Goto(c, "served")
    BY <1>3, CreatorInside DEF UpdateCase
  <2> QED  BY <1>1, <1>2, <1>3, <2>1, WriterStanding, IsServed
<1>4. CASE ~Inside(calls[c].user)
  <2>1. Goto(c, "refused")
    BY <1>4, CreatorInside DEF UpdateCase
  <2> QED  BY <1>1, <1>2, <1>4, <2>1, WriterStanding, IsRefused
<1> QED  BY <1>3, <1>4

LEMMA TeamStanding ==
    ASSUME AccessInv, NEW c \in Calls, calls[c].pc \in Steps, calls[c].op \in TeamOps
    PROVE  /\ calls[c].user = Owner \/ IsAdmin(calls[c].user) => c \in ever
           /\ calls[c].user # Owner /\ ~IsAdmin(calls[c].user) => Standing(c) = {}
<1>1. calls[c].op \notin {"download", "export", "verify", "fetch"} /\ calls[c].op # "fetch"
  BY DEF TeamOps
<1> QED  BY <1>1, StandingWays, Account

LEMMA ReadTeamKeeps ==
    ASSUME AccessInv, NEW c \in Calls, ReadTeam(c)
    PROVE  AccessInv' /\ AllWriteInside
<1>1. /\ calls[c].pc = "row" /\ calls[c].pc \in Steps /\ calls[c].op \in TeamOps
      /\ calls[c].op \notin {"export", "verify"}
  BY DEF ReadTeam, Steps, TeamOps
<1>2. WorldOK' /\ role' = role /\ Track /\ tampered' = tampered
  BY TablesStay DEF ReadTeam
<1>3. CASE calls[c].user # Owner /\ ~IsAdmin(calls[c].user)
  <2>1. Goto(c, "refused")
    BY <1>3 DEF ReadTeam
  <2> QED  BY <1>1, <1>2, <1>3, <2>1, TeamStanding, IsRefused
<1>4. CASE calls[c].user = Owner \/ IsAdmin(calls[c].user)
  <2>1. Return(c) \/ (Goto(c, "write") /\ calls[c].target # Owner)
    BY <1>4 DEF ReadTeam
  <2>2. CASE Return(c)
    BY <1>1, <1>2, <2>2, Ends
  <2>3. CASE Goto(c, "write") /\ calls[c].target # Owner
    BY <1>1, <1>2, <1>4, <2>3, GoesOn
  <2> QED  BY <2>1, <2>2, <2>3
<1> QED  BY <1>3, <1>4

LEMMA WriteTeamKeeps ==
    ASSUME AccessInv, NEW c \in Calls, WriteTeam(c)
    PROVE  AccessInv' /\ AllWriteInside
<1>1. /\ calls[c].pc = "write" /\ calls[c].pc \in Steps /\ calls[c].op \in TeamOps
      /\ calls[c].target \in Users /\ calls[c].target # Owner
      /\ calls[c].user = Owner \/ IsAdmin(calls[c].user)
  BY CallFacts DEF WriteTeam, Steps, CallOK
<1>2. WorldOK' /\ role' = role /\ Track /\ tampered' = tampered
  <2>1. members' \subseteq Users /\ Owner \in members'
    BY <1>1 DEF WriteTeam, AccessInv, TypeOK
  <2> QED  BY <2>1 DEF WriteTeam, AccessInv, TypeOK, WorldOK, world
<1>3. CASE Return(c)
  BY <1>1, <1>2, <1>3, Ends
<1>4. CASE Goto(c, "served")
  BY <1>1, <1>2, <1>4, TeamStanding, IsServed
<1> QED  BY <1>3, <1>4 DEF WriteTeam

LEMMA EndCallKeeps ==
    ASSUME AccessInv, NEW c \in Calls, EndCall(c)
    PROVE  AccessInv' /\ AllWriteInside
<1>1. WorldOK' /\ role' = role /\ Track /\ tampered' = tampered
  BY TablesStay DEF EndCall
<1> QED  BY <1>1, Ends DEF EndCall

\* No call takes a step: the account follows by itself.
LEMMA NoCallMoves ==
    ASSUME AccessInv, WorldOK', role' = role, calls' = calls, Track
    PROVE  AccessInv' /\ AllWriteInside
<1>1. TypeOK'
  BY DEF AccessInv, TypeOK, WorldOK
<1>2. CallsOK'
  <2> SUFFICES ASSUME NEW d \in Calls PROVE CallOK(calls[d])'
    BY DEF CallsOK
  <2>1. PICK l \in CallRecord : l = calls[d] /\ CallOK(l)
    BY CallFacts
  <2>2. CallOK(l)'
    BY <2>1, CallKept
  <2> QED  BY <2>1, <2>2 DEF CallOK
<1>3. GhostsOK'
  <2> SUFFICES ASSUME NEW d \in Calls PROVE GhostOK(d)'
    BY DEF GhostsOK
  <2>1. /\ calls'[d].pc \in Steps =>
              /\ Running(d) /\ Running(d)' /\ ~Answered(d)'
        /\ calls'[d].pc \in Answers => Running(d)' /\ Answered(d)'
    BY DEF Running, Answered, Steps, Answers
  <2>2. Granted(calls[d])' => d \in ever /\ calls'[d].pc \in Steps \cup Answers
    BY DEF AccessInv, GhostsOK, GhostOK, Granted, Steps, Answers
  <2>3. calls'[d].pc \in Steps =>
           (Standing(d)' # {} => d \in ever') /\ steady'[d] \subseteq Standing(d)'
    BY <2>1, TrackFacts
  <2>4. Granted(calls[d])' => d \in ever'
    BY <2>1, <2>2, TrackFacts
  <2>5. calls'[d].pc = "share" => "inside" \notin steady'[d]
    <3>1. "share" \in Steps
      BY DEF Steps
    <3> QED  BY <2>1, <3>1, TrackFacts DEF AccessInv, GhostsOK, GhostOK
  <2>6. calls'[d].pc = "refused" => steady'[d] = {}
    <3>1. "refused" \in Answers
      BY DEF Answers
    <3> QED  BY <2>1, <3>1, TrackFacts DEF AccessInv, GhostsOK, GhostOK
  <2> QED  BY <2>3, <2>4, <2>5, <2>6 DEF GhostOK
<1>4. AllWriteInside
  BY DEF AllWriteInside, WritesInside
<1> QED  BY <1>1, <1>2, <1>3, <1>4 DEF AccessInv

LEMMA ExpireKeeps ==
    ASSUME AccessInv, NEW u \in Users, Expire(u)
    PROVE  AccessInv' /\ AllWriteInside
<1>1. WorldOK' /\ role' = role /\ calls' = calls /\ Track
  BY DEF Expire, AccessInv, TypeOK, WorldOK, world
<1> QED  BY <1>1, NoCallMoves

-----------------------------------------------------------------------------
(***************************************************************************)
(* The theorems                                                            *)
(***************************************************************************)
LEMMA NextInv == AccessInv /\ Next => AccessInv' /\ AllWriteInside
<1> SUFFICES ASSUME AccessInv, Next PROVE AccessInv' /\ AllWriteInside
  OBVIOUS
<1>1. CASE \E c \in Calls : Step(c)
  BY <1>1, FindDocumentKeeps, LoadCaseRelationshipKeeps, ShareGrantsAccessKeeps,
     ReadDocumentKeeps, DownloadEvidenceExportKeeps, ReconcileKeeps, InsertDocumentKeeps,
     InsertExportKeeps, CreateShareKeeps, RevokeShareKeeps, ReadCaseKeeps, UpdateCaseKeeps,
     ReadTeamKeeps, WriteTeamKeeps, EndCallKeeps
     DEF Step
<1>2. CASE \E c \in Calls, u \in Users, op \in Ops : \E t \in Targets(op) : Begin(c, u, op, t)
  BY <1>2, BeginKeeps
<1>3. CASE \E u \in Users : Expire(u)
  BY <1>3, ExpireKeeps
<1> QED  BY <1>1, <1>2, <1>3 DEF Next

LEMMA StepInv == AccessInv /\ [Next]_vars => AccessInv'
<1>1. AccessInv /\ UNCHANGED vars => AccessInv'
  <2> SUFFICES ASSUME AccessInv, UNCHANGED vars PROVE AccessInv'
    OBVIOUS
  <2>1. TypeOK' /\ CallsOK'
    BY DEF AccessInv, vars, TypeOK, CallsOK, CallOK, IsAdmin
  <2>2. \A c \in Calls : Standing(c)' = Standing(c)
    BY DEF vars, Standing, Inside, IsAdmin
  <2>3. GhostsOK'
    BY <2>2 DEF AccessInv, vars, GhostsOK, GhostOK, Granted
  <2> QED  BY <2>1, <2>3 DEF AccessInv
<1> QED  BY <1>1, NextInv

(***************************************************************************)
(* Whoever is served was entitled to it at some moment between his request *)
(* and the answer: as a member, as an administrator, or by a share that    *)
(* covers what he asked for.  authz and the handlers look several times,   *)
(* and the membership and the shares change in between.                    *)
(***************************************************************************)
THEOREM ServedOnlyEntitled == Spec => [](TypeOK /\ ServedWereEntitled)
<1>1. AccessInv => TypeOK /\ ServedWereEntitled
  BY DEF AccessInv, GhostsOK, GhostOK, Granted, ServedWereEntitled
<1> QED  BY InitInv, StepInv, <1>1, PTL DEF Spec

(***************************************************************************)
(* Whoever was entitled in one and the same way all along is not refused:  *)
(* authz and row-level security, which decide by queries and by policies   *)
(* of their own, do not contradict each other.                             *)
(***************************************************************************)
THEOREM EntitledNotRefused == Spec => []SteadyNotRefused
<1>1. AccessInv => SteadyNotRefused
  BY DEF AccessInv, GhostsOK, GhostOK, SteadyNotRefused
<1> QED  BY InitInv, StepInv, <1>1, PTL DEF Spec

(***************************************************************************)
(* Every write is made from inside the case, at the very moment of the     *)
(* write, although authz had looked earlier: a share never leads to one.   *)
(***************************************************************************)
THEOREM WritersAreInside == Spec => InsidersWrite
<1>1. AccessInv /\ [Next]_vars =>
         [\A c \in Calls :
            LET call == calls[c]
                wrote == call.pc = "write" /\ calls'[c].pc = "served"
            IN
            /\ wrote /\ call.op \notin TeamOps \cup {"export"} => Inside(call.user)
            /\ wrote /\ call.op \in TeamOps => call.user = Owner \/ IsAdmin(call.user)
            /\ call.pc = "check" /\ calls'[c] # call /\ tampered' # tampered =>
                  Inside(call.user)]_vars
  BY NextInv DEF AllWriteInside, WritesInside
<1> QED  BY InitInv, StepInv, <1>1, PTL DEF Spec, InsidersWrite
=============================================================================
