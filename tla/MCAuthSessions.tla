---------------------------- MODULE MCAuthSessions ----------------------------
EXTENDS AuthSessions, TLC

\* Calls are interchangeable, and no property is a liveness one.
Symmetry == Permutations(Calls)
=============================================================================
