----------------------------- MODULE MCCaseAccess -----------------------------
EXTENDS CaseAccess, TLC

\* Who is POLICE may do whatever FORENSICS, LAWYER and JUDGE may do.
WidestRoles == [u \in Users |-> IF u = Owner THEN {"POLICE"} ELSE {"POLICE", "ADMIN"}]

\* The recipients of MismatchMarked, whom TLC lets refute it.
LawyerRoles == [u \in Users |-> IF u = Owner THEN {"POLICE"} ELSE {"LAWYER"}]

\* The creator remains a member: what he reads and writes himself is never at
\* stake, unlike what he changes for others.
CreatorManages ==
    [u \in Users |-> IF u = Owner THEN TeamOps \cup {"share", "revoke", "update", "verify"}
                     ELSE Ops]

Symmetry == Permutations(Calls)
=============================================================================
