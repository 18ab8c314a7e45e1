----------------------------- MODULE MCAuditLog -----------------------------
(***************************************************************************)
(* The audit log from both sides for TLC, one side at a time: concurrent   *)
(* writers (AuditChain), or the verification of a log that was written by  *)
(* one writer after the other and then changed (ChainVerifier).            *)
(***************************************************************************)
EXTENDS AuditChain, ChainVerifier

AuditLogInit == Init /\ VerifierInit

AuditLogNext ==
    \/ VerifierInit /\ Next /\ UNCHANGED verifierVars
    \/ Init /\ VerifierNext /\ UNCHANGED vars

AuditLogSpec ==
    /\ AuditLogInit /\ [][AuditLogNext]_<<vars, verifierVars>>
    /\ \A e \in Events : WF_vars(Append1(e))
=============================================================================
